--------------------------- MODULE SecurityPolicy ---------------------------
(***************************************************************************)
(* The security_policy skill (agent/src/builtin_skills/security_policy.cpp *)
(* and bpf/security_policy.bpf.c): programs on LSM hooks and tracepoints   *)
(* decide about calls of any task and put events into a ring, a thread of  *)
(* the agent reads the ring, and rate rules over what it reads raise       *)
(* alerts.  Starting and stopping take the programs and the thread up and  *)
(* down one by one, while tasks go on calling.                             *)
(*                                                                         *)
(* Paths, endpoints and capabilities are objects a rule names.  The lines  *)
(* of the audit file are written by the module that composes this one with *)
(* the reader of that file.                                                *)
(***************************************************************************)
EXTENDS Integers, Sequences, FiniteSets, SequencesExt, FiniteSetsExt

CONSTANTS
  Hooks,       \* the hooks in the order in which programs are attached
  Conditional, \* those attached only if a rule names them
  Rules,       \* rules_: <<[hook, objects, group, enforce, ref], ...>>
  RateRules,   \* anomaly_rules_: <<[syscall, ref, objects, threshold, window], ...>>
  Objects, Groups,
  Everywhere,  \* the group of a rule without a scope
  AnyRef,      \* the target_ref of a rate rule without one
  RingSize,
  MaxCalls,    \* bound: calls that reach an attached program
  MaxTime      \* bound: of the clock

VARIABLES
  main,       \* where the main thread is in start and rollback
  links,      \* links_: the hooks that have a program
  hasRing,    \* ring_buffer_ is set
  ring,       \* the events that were submitted, up to the one being handled
  reader,     \* where the event thread is
  stop,       \* event_thread_stop_
  hits,       \* hits of every rate rule: times, oldest first
  toAlert,    \* rate rules that alert for this event and have not written yet
  clock,
  calls,      \* how many calls reached a program
  submitted,  \* history: how many of their events got into the ring
  seen,       \* history: what was handled, [at, event]
  alerted     \* history: the positions in seen at which a rate rule alerted

secVars == <<main, links, hasRing, ring, reader, stop, hits, toAlert, clock,
             calls, submitted, seen, alerted>>

Tracepoints == {"sys_enter_execve", "sys_enter_openat", "sys_enter_connect", "sys_enter_ptrace"}

\* The hooks for which attach_security_programs attaches a program.
Programs == {h \in ToSet(Hooks) : h \notin Conditional \/ \E r \in ToSet(Rules) : r.hook = h}

\* Programs come and go in the order of the hooks.
IsFirst(h, set) ==
  \E i \in DOMAIN Hooks : /\ Hooks[i] = h /\ h \in set
                          /\ \A j \in 1..i - 1 : Hooks[j] \notin set

\* configure refuses a rule to enforce that has no scope, and parse_anomaly_rules
\* a threshold, a window or a reference out of range.
ASSUME SecurityAssumption ==
  /\ Conditional \subseteq ToSet(Hooks)
  /\ \A r \in ToSet(Rules) : /\ r.hook \in ToSet(Hooks) \ Tracepoints
                             /\ r.objects \subseteq Objects
                             /\ r.group \in Groups \cup {Everywhere}
                             /\ r.enforce \in BOOLEAN
                             /\ r.enforce => r.group # Everywhere
  /\ \A r \in ToSet(RateRules) : /\ r.threshold \in Nat \ {0} /\ r.window \in Nat \ {0}
                                 /\ r.objects \subseteq Objects
                                 /\ r.ref \in {AnyRef} \cup {t.ref : t \in ToSet(Rules)}
  /\ Everywhere \notin Groups
  /\ RingSize \in Nat \ {0} /\ MaxCalls \in Nat /\ MaxTime \in Nat

SecInit ==
  /\ main = "down" /\ links = {} /\ hasRing = FALSE /\ ring = <<>>
  /\ reader = "none" /\ stop = FALSE
  /\ hits = [r \in DOMAIN RateRules |-> <<>>] /\ toAlert = {}
  /\ clock = 0 /\ calls = 0 /\ submitted = 0
  /\ seen = <<>> /\ alerted = [r \in DOMAIN RateRules |-> {}]

readerVars == <<hits, toAlert, seen, alerted>>
-----------------------------------------------------------------------------
(* The main thread: start, rollback and stop.                              *)

SecKeeps == UNCHANGED <<readerVars, clock, calls, submitted>>

\* Open and load the object and install the configuration.
SecLoad ==
  /\ main = "down"
  /\ main' \in {"reader", "stop"}
  /\ UNCHANGED <<links, hasRing, ring, reader, stop>> /\ SecKeeps

\* start_event_reader.  The ring is given back if there is no thread for it.
SecReader ==
  /\ main = "reader"
  /\ \/ main' = "attach" /\ hasRing' = TRUE /\ stop' = FALSE /\ reader' = "polling"
     \/ main' = "stop" /\ UNCHANGED <<hasRing, stop, reader>>
  /\ UNCHANGED <<links, ring>> /\ SecKeeps

\* attach_security_programs, one program at a time.  What is attached is in
\* links_ also when a later one fails.
SecAttach ==
  /\ main = "attach"
  /\ \/ \E h \in Programs : IsFirst(h, Programs \ links) /\ links' = links \cup {h}
        /\ UNCHANGED main
     \/ links # Programs /\ main' = "stop" /\ UNCHANGED links
     \/ links = Programs /\ main' = "started" /\ UNCHANGED links
  /\ UNCHANGED <<hasRing, ring, reader, stop>> /\ SecKeeps

\* The line that says so, and the same at the beginning of a rollback.
SecStarted ==
  /\ main = "started" /\ main' = "up"
  /\ UNCHANGED <<links, hasRing, ring, reader, stop>> /\ SecKeeps

SecRollback ==
  /\ main = "up" /\ main' = "stop"
  /\ UNCHANGED <<links, hasRing, ring, reader, stop>> /\ SecKeeps

\* The flag is raised only if the start had come to its end.
SecRaise_started ==
  /\ main = "stop"
  /\ stop' = (links = Programs) /\ main' = "join"
  /\ UNCHANGED <<links, hasRing, ring, reader>> /\ SecKeeps

\* stop_event_reader: raise the flag, join, and only then free the ring.
SecRaise ==
  /\ main = "stop"
  /\ stop' = TRUE /\ main' = "join"
  /\ UNCHANGED <<links, hasRing, ring, reader>> /\ SecKeeps

\* The ring goes while the thread may be at work on it.
SecJoin_early ==
  /\ main = "join"
  /\ hasRing' = FALSE
  /\ main' = "detach"
  /\ UNCHANGED <<links, ring, stop, reader>> /\ SecKeeps

SecJoin ==
  /\ main = "join" /\ reader \in {"none", "done"}
  /\ reader' = "none" /\ hasRing' = FALSE
  /\ main' = "detach"
  /\ UNCHANGED <<links, ring, stop>> /\ SecKeeps

\* bpf_link__destroy for one link after the other, and the object closed, with
\* what is in the ring.
SecDetach ==
  /\ main = "detach"
  /\ \/ \E h \in links : IsFirst(h, links) /\ links' = links \ {h}
        /\ UNCHANGED <<main, ring>>
     \/ links = {} /\ main' = "closed" /\ ring' = <<>> /\ UNCHANGED links
  /\ UNCHANGED <<hasRing, reader, stop>> /\ SecKeeps
-----------------------------------------------------------------------------
(* The programs.                                                           *)

\* target_scope_matches: without a scope only to audit.
InScope(rule, group) == rule.group = group \/ (rule.group = Everywhere /\ ~rule.enforce)

\* The *_match_index functions: the first rule that names the object.
RuleOf(hook, object, group) ==
  LET Matches == {i \in DOMAIN Rules : /\ Rules[i].hook = hook /\ object \in Rules[i].objects
                                       /\ InScope(Rules[i], group)}
  IN IF Matches = {} THEN 0 ELSE Min(Matches)

\* Denied if the rule says so, except that cred_transfer only reports.
EventOf(hook, object, group) ==
  LET i == RuleOf(hook, object, group)
  IN [hook |-> hook, object |-> object, rule |-> i,
      denied |-> i # 0 /\ Rules[i].enforce /\ hook # "lsm_cred_transfer"]

\* A task calls.  LSM programs speak only of what a rule names, tracepoints of
\* everything; an event finds no room in a full ring, and the decision stands.
Call(hook, object, group) ==
  /\ calls < MaxCalls
  /\ hook \in links
  /\ hook \in Tracepoints \/ RuleOf(hook, object, group) # 0
  /\ calls' = calls + 1
  /\ IF Len(ring) < RingSize
       THEN /\ ring' = Append(ring, EventOf(hook, object, group))
            /\ submitted' = submitted + 1
       ELSE UNCHANGED <<ring, submitted>>
  /\ UNCHANGED <<main, links, hasRing, reader, stop, readerVars, clock>>

Tick ==
  /\ clock < MaxTime /\ clock' = clock + 1
  /\ UNCHANGED <<main, links, hasRing, ring, reader, stop, readerVars, calls, submitted>>
-----------------------------------------------------------------------------
(* The event thread.                                                       *)

ObservedSyscall(hook) ==
  CASE hook = "sys_enter_execve" -> "execve"
    [] hook \in {"sys_enter_connect", "lsm_socket_connect"} -> "connect"
    [] hook \in {"sys_enter_openat", "lsm_file_open"} -> "openat"
    [] hook = "lsm_capable" -> "capability"
    [] hook \in {"lsm_cred_prepare", "lsm_cred_alloc_blank", "lsm_cred_transfer",
                 "lsm_task_fix_setuid", "lsm_task_fix_setgid", "lsm_task_fix_setgroups"}
         -> "credential"
    [] OTHER -> "none"

\* The filters of a rate rule.
Concerns(rate, e) ==
  /\ rate.syscall = ObservedSyscall(e.hook)
  /\ rate.ref # AnyRef => e.rule # 0 /\ Rules[e.rule].ref = rate.ref
  /\ e.object \in rate.objects

\* The programs wake the reader only for a ring that is full.
PollEvents_full ==
  /\ reader = "polling"
  /\ \/ stop /\ reader' = "done"
     \/ ~stop /\ Len(ring) = RingSize /\ reader' = "event"
  /\ UNCHANGED <<main, links, hasRing, ring, stop, readerVars, clock, calls, submitted>>

\* poll_event_loop.  The flag is looked at between two polls only, and a poll
\* goes on as long as there are events.
PollEvents ==
  /\ reader = "polling"
  /\ \/ stop /\ reader' = "done"
     \/ ~stop /\ ring # <<>> /\ reader' = "event"
  /\ UNCHANGED <<main, links, hasRing, ring, stop, readerVars, clock, calls, submitted>>

event == Head(ring)

\* A hit at the edge of the window is too old.
HitsWith_open(r) ==
  LET all   == Append(hits[r], clock)
      Fresh == {i \in DOMAIN all : clock - all[i] < RateRules[r].window}
  IN  SubSeq(all, Min(Fresh), Len(all))

\* rule.hits after this event: what is too old leaves at the front.
HitsWith(r) ==
  LET all   == Append(hits[r], clock)
      Fresh == {i \in DOMAIN all : clock - all[i] <= RateRules[r].window}
  IN  SubSeq(all, Min(Fresh), Len(all))

Alerting(r) == /\ Concerns(RateRules[r], event)
               /\ Len(HitsWith(r)) >= RateRules[r].threshold

\* write_hit_event, and maybe_write_anomaly_event up to its line.
HandleEvent ==
  /\ reader = "event"
  /\ hits' = [r \in DOMAIN RateRules |-> IF Alerting(r) THEN <<>>
                                         ELSE IF Concerns(RateRules[r], event) THEN HitsWith(r)
                                         ELSE hits[r]]
  /\ toAlert' = {r \in DOMAIN RateRules : Alerting(r)}
  /\ seen' = Append(seen, [at |-> clock, event |-> event])
  /\ alerted' = [r \in DOMAIN RateRules |->
                   IF Alerting(r) THEN alerted[r] \cup {Len(seen')} ELSE alerted[r]]
  /\ reader' = "alert"
  /\ UNCHANGED <<main, links, hasRing, ring, stop, clock, calls, submitted>>

\* The lines of the rules that alert, in the order of the rules.
WriteAlert ==
  /\ reader = "alert" /\ toAlert # {}
  /\ toAlert' = toAlert \ {Min(toAlert)}
  /\ UNCHANGED <<main, links, hasRing, ring, reader, stop, hits, clock, calls,
                 submitted, seen, alerted>>

\* The event is consumed; the next one of this poll follows, or the next poll.
NextEvent ==
  /\ reader = "alert" /\ toAlert = {}
  /\ ring' = Tail(ring)
  /\ reader' = IF ring' # <<>> THEN "event" ELSE "polling"
  /\ UNCHANGED <<main, links, hasRing, stop, readerVars, clock, calls, submitted>>

\* The steps that write no line.
MainQuiet   == SecLoad \/ SecReader \/ SecAttach \/ SecRaise \/ SecJoin \/ SecDetach
ReaderQuiet == PollEvents \/ NextEvent
Tasks       == \E h \in ToSet(Hooks), o \in Objects, g \in Groups : Call(h, o, g)

SecMain  == MainQuiet \/ SecStarted \/ SecRollback
SecThread == ReaderQuiet \/ HandleEvent \/ WriteAlert

SecNext == SecMain \/ SecThread \/ Tasks \/ Tick

SecSpec == SecInit /\ [][SecNext]_secVars

\* Start and stop go on, both threads are scheduled; when the agent stops is up
\* to its user.
SecFairSpec ==
  /\ SecSpec
  /\ WF_secVars(SecMain /\ main # "up")
  /\ WF_secVars(SecThread)
-----------------------------------------------------------------------------
SecTypeOK ==
  /\ main \in {"down", "reader", "attach", "started", "up", "stop", "join", "detach", "closed"}
  /\ links \subseteq Programs
  /\ hasRing \in BOOLEAN
  /\ reader \in {"none", "polling", "event", "alert", "done"}
  /\ stop \in BOOLEAN
  /\ toAlert \subseteq DOMAIN RateRules
  /\ clock \in 0..MaxTime /\ calls \in 0..MaxCalls /\ submitted \in 0..calls

\* The thread never works on a ring that is gone, however a start fails or a stop
\* comes in between (security_policy.cpp:1119-1153).
ReaderHasRing == reader \notin {"none", "done"} => hasRing

\* What a rate rule means: it alerts at an event if, with this one, threshold
\* events that concern it and came after its last alert were handled within the
\* window, the ends of the window included (security_policy.cpp:1417-1424).
AlertsAsSpecified ==
  \A r \in DOMAIN RateRules :
    LET rate == RateRules[r]
        Since(k) == Max({0} \cup {j \in alerted[r] : j < k})
        Counted(k) == {j \in Since(k) + 1..k : /\ Concerns(rate, seen[j].event)
                                               /\ seen[k].at - seen[j].at <= rate.window}
    IN alerted[r] = {k \in 1..Len(seen) : k \in Counted(k) /\ Cardinality(Counted(k)) >= rate.threshold}

\* Every event that found room is recorded, unless the agent stops first
\* (security_policy.cpp:1155-1171).
EventsRecorded ==
  \A n \in 1..MaxCalls : submitted >= n ~> Len(seen) >= n \/ stop

\* A stop ends once the tasks leave the ring alone (security_policy.cpp:557-583).
StopEnds == main = "stop" ~> main = "closed"
=============================================================================
