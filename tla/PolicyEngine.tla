---------------------------- MODULE PolicyEngine ----------------------------
(***************************************************************************)
(* The transactions of the policy_engine skill                             *)
(* (agent/src/builtin_skills/policy_engine.cpp): a matching event applies  *)
(* the configured actions in order; an action that is thought to be in     *)
(* effect is not applied again; a failure undoes the transaction in        *)
(* reverse order; rollback() and stop() undo what active_actions_ names.   *)
(*                                                                         *)
(* The event thread and the main thread never run a restore at the same    *)
(* time (stop joins the thread first), but the files are shared with       *)
(* everybody else.  PolicyEventLoop has the thread's reading of events.    *)
(***************************************************************************)
EXTENDS Integers

CONSTANTS
  NumActions,   \* how many actions are configured
  Files,        \* control files and network devices
  Netdevs,      \* those that are devices: tc instead of a write
  ActionFile,   \* action -> what it changes
  ActionValue,  \* action -> the value it sets
  Guarded,      \* actions that the memory.high guard may refuse
  Values,       \* abstract contents
  Initial,      \* file -> contents at the start (a device: no root qdisc)
  Empty,        \* contents that read as an empty string
  EnvValues,    \* file -> contents that others may write to it
  Readback,     \* what reads after the kernel accepted a value
  Accepted,     \* value -> contents that control_value_matches takes for it
  Requests,     \* ids of the triggering events
  Modes,        \* "audit", "enforce"
  Disturbances  \* of {"env", "open", "reject", "guard", "journal"}

Actions == 1..NumActions
Authors == {"env", "agent", "orphan"}
Entries == [applied : BOOLEAN, old : Values, by : Authors, expect : Values]
Transactions == [Actions -> Entries]

ASSUME ActionsAssumption ==
  /\ NumActions \in Nat \ {0}
  /\ Netdevs \subseteq Files
  /\ Guarded \subseteq Actions
  /\ ActionFile \in [Actions -> Files]
  /\ ActionValue \in [Actions -> Values]
  /\ \A i \in Actions : ActionValue[i] # Empty  \* configure refuses it
  \* What tc shows of a device is named by the action that set it.
  /\ \A i \in Actions : ActionFile[i] \in Netdevs => Readback[ActionValue[i]] = ActionValue[i]
  /\ Modes # {} /\ Modes \subseteq {"audit", "enforce"}

ASSUME ContentsAssumption ==
  /\ Initial \in [Files -> Values]
  /\ Empty \in Values
  /\ EnvValues \in [Files -> SUBSET Values]
  /\ Readback \in [Values -> Values]
  /\ Accepted \in [Values -> SUBSET Values]

VARIABLES
  mode,         \* mode_
  files,        \* file -> contents
  author,       \* file -> who wrote them (history)
  pc,           \* where the running thread is
  transaction,  \* transaction.actions, or active_actions_ on stop
  active,       \* active_actions_
  index,        \* the action being applied or restored
  hasSideEffect,
  request,      \* transaction.request_id
  successful,   \* successful_request_ids_
  effective,    \* effective_desired_states_
  outcome,      \* state_: "watching", "applied", "failed"
  stopping,     \* event_thread_stop_
  before,       \* history: the files when the transaction began ...
  touched,      \* ... and those changed since other than by the engine
  lost          \* history: the files that a restore or a look gave up (see GiveUp)

contents == <<files, author, touched, lost>>
memory   == <<active, successful, effective, outcome>>
vars     == <<mode, contents, pc, transaction, index, hasSideEffect, request,
              memory, stopping, before>>

NotApplied == [applied |-> FALSE, old |-> Empty, by |-> "env", expect |-> Empty]
Untouched  == [i \in Actions |-> NotApplied]

File     == ActionFile[index]
Value    == ActionValue[index]
\* desired_state_key: the file (or device) and the value.
Key(i)   == <<ActionFile[i], ActionValue[i]>>
IsNetdev == File \in Netdevs
May(d)   == d \in Disturbances

\* Several actions set it.
Shared(f) == \E i, j \in Actions : i # j /\ ActionFile[i] = f /\ ActionFile[j] = f

\* A control file that is set to it reads as something else.
Unrecognised(i) ==
  ActionFile[i] \notin Netdevs /\ Readback[ActionValue[i]] \notin Accepted[ActionValue[i]]

\* The engine loses track of what it set: the file of an applied action cannot be
\* opened, its old value is empty, or the device cannot be shown; what it set is
\* taken for others', or others have changed a file that several actions set.
GiveUp == lost' = lost \cup {File}

Init ==
  /\ mode \in Modes
  /\ files = Initial
  /\ author = [f \in Files |-> "env"]
  /\ pc = "watch"
  /\ transaction = Untouched /\ active = Untouched
  /\ index = 1
  /\ hasSideEffect = FALSE
  /\ request \in Requests
  /\ successful = {} /\ effective = {}
  /\ outcome = "watching"
  /\ stopping = FALSE
  /\ before = files /\ touched = {} /\ lost = {}
-----------------------------------------------------------------------------
(* apply_actions.  A definition with a suffix such as "_forgets" is a      *)
(* plausible bug of the one after it.                                      *)

\* An id that already succeeded is "deduplicated": nothing happens.
BeginTransaction(r) ==
  /\ pc = "watch" /\ ~stopping
  /\ r \notin successful
  /\ request' = r
  /\ transaction' = Untouched
  /\ hasSideEffect' = FALSE
  /\ index' = 1
  /\ pc' = "apply"
  /\ before' = files /\ touched' = {}
  /\ UNCHANGED <<mode, files, author, lost, memory, stopping>>

\* Gives up, and leaves behind what was applied.
FailTransaction_noundo ==
  /\ pc' = "watch"
  /\ outcome' = "failed"
  /\ UNCHANGED <<index, hasSideEffect, request, active, successful, effective>>

\* restore_actions(transaction.actions), to be followed by
\* active_actions_ = transaction.actions and state_ = "failed".
FailTransaction ==
  /\ pc' = "restore"
  /\ index' = NumActions
  /\ UNCHANGED <<hasSideEffect, request, memory>>

NextAction ==
  /\ pc' = "apply"
  /\ index' = index + 1
  /\ UNCHANGED request

AtAction == pc = "apply" /\ index <= NumActions

\* Believed to be in effect: the file is not looked at.
Converge ==
  /\ AtAction /\ Key(index) \in effective
  /\ NextAction
  /\ UNCHANGED <<mode, contents, transaction, hasSideEffect, memory, stopping, before>>

\* The mode is looked at for devices only.
ReadOld_unaudited ==
  /\ AtAction /\ Key(index) \notin effective
  /\ UNCHANGED <<mode, contents, index, hasSideEffect, request, memory, stopping, before>>
  /\ transaction' = [transaction EXCEPT ![index].old = files[File],
                                        ![index].by = author[File]]
  /\ pc' = IF mode = "audit" /\ IsNetdev THEN "journal" ELSE "write"

\* apply_cgroup_action and apply_netdev_action up to the change.  Whether a
\* device exists is asked in enforce mode only.
ReadOld ==
  /\ AtAction /\ Key(index) \notin effective
  /\ UNCHANGED <<mode, contents, stopping, before>>
  /\ \/ /\ May("open") /\ ~(IsNetdev /\ mode = "audit")
        /\ FailTransaction
        /\ UNCHANGED transaction
     \/ /\ transaction' = [transaction EXCEPT ![index].old = files[File],
                                              ![index].by = author[File]]
        /\ \/ /\ \/ mode = "audit"                 \* "observed"
                 \/ May("guard") /\ index \in Guarded  \* "skipped"
              /\ pc' = "journal"
              /\ UNCHANGED <<index, hasSideEffect, request, memory>>
           \/ /\ mode = "enforce"
              /\ IsNetdev /\ files[File] # Initial[File]
              /\ FailTransaction
           \/ /\ mode = "enforce"
              /\ ~IsNetdev \/ files[File] = Initial[File]
              /\ pc' = "write"
              /\ UNCHANGED <<index, hasSideEffect, request, memory>>

\* The write, or tc qdisc replace.  write_value tests the stream before it
\* is flushed and does not notice a value that the kernel rejects.
WriteValue ==
  /\ pc = "write"
  /\ UNCHANGED <<mode, touched, lost, stopping, before>>
  /\ \/ /\ May("open")
        /\ FailTransaction
        /\ UNCHANGED <<files, author, transaction>>
     \/ /\ pc' = "verify"
        /\ \/ /\ files' = [files EXCEPT ![File] = Readback[Value]]
              /\ author' = [author EXCEPT ![File] = "agent"]
           \/ /\ May("reject") /\ ~IsNetdev
              /\ UNCHANGED <<files, author>>
        /\ transaction' = IF IsNetdev THEN transaction
                          ELSE [transaction EXCEPT ![index].applied = TRUE,
                                                   ![index].expect = Value]
        /\ UNCHANGED <<index, hasSideEffect, request, memory>>

\* Marks only what was verified.
VerifyValue_late ==
  /\ pc = "verify"
  /\ UNCHANGED <<mode, contents, stopping, before>>
  /\ \/ /\ files[File] = Value
        /\ transaction' = [transaction EXCEPT ![index].applied = TRUE,
                                              ![index].expect = files[File]]
        /\ pc' = "journal"
        /\ UNCHANGED <<index, hasSideEffect, request, memory>>
     \/ /\ files[File] # Value \/ May("open")
        /\ transaction' = [transaction EXCEPT ![index].applied = FALSE]
        /\ FailTransaction

\* A control file must read exactly the value, a device must show a tbf
\* qdisc: any, it is what is expected from then on.
Verified(shown) ==
  IF IsNetdev THEN shown \notin {Initial[File], Empty} ELSE shown = Value

VerifyValue ==
  /\ pc = "verify"
  /\ UNCHANGED <<mode, files, author, touched, stopping, before>>
  /\ \E shown \in {files[File]} \cup (IF May("open") THEN {Empty} ELSE {}) :
       /\ transaction' = IF IsNetdev
                         THEN [transaction EXCEPT ![index].applied = TRUE,
                                                  ![index].expect = shown]
                         ELSE transaction
       /\ IF IsNetdev /\ shown # files[File] THEN GiveUp ELSE UNCHANGED lost
       /\ \/ /\ Verified(shown)
             /\ pc' = "journal"
             /\ UNCHANGED <<index, hasSideEffect, request, memory>>
          \/ /\ ~Verified(shown)
             /\ FailTransaction

\* Takes no note of what is in effect.
JournalAction_forgets ==
  /\ pc = "journal"
  /\ UNCHANGED <<mode, contents, transaction, stopping, before, memory>>
  /\ hasSideEffect' = (hasSideEffect \/ transaction[index].applied)
  /\ NextAction

\* write_policy_journal, then the books.
JournalAction ==
  /\ pc = "journal"
  /\ UNCHANGED <<mode, contents, transaction, stopping, before>>
  /\ \/ /\ May("journal")
        /\ FailTransaction
     \/ /\ IF transaction[index].applied
           THEN /\ effective' = effective \cup {Key(index)}
                /\ hasSideEffect' = TRUE
           ELSE UNCHANGED <<effective, hasSideEffect>>
        /\ UNCHANGED <<active, successful, outcome>>
        /\ NextAction

\* active_actions_ is replaced, not merged.
FinishTransaction ==
  /\ pc = "apply" /\ index > NumActions
  /\ active' = IF hasSideEffect THEN transaction ELSE active
  /\ successful' = successful \cup {request}
  /\ outcome' = "applied"
  /\ pc' = "watch"
  /\ UNCHANGED <<mode, contents, transaction, index, hasSideEffect, request,
                 effective, stopping, before>>
-----------------------------------------------------------------------------
(* restore_actions, by the event thread for its transaction or, once that  *)
(* thread has ended, by the main thread for active_actions_.               *)

Matches(i) ==
  LET f == ActionFile[i] IN
  IF f \in Netdevs
  THEN transaction[i].expect # Empty /\ files[f] = transaction[i].expect
  ELSE files[f] \in Accepted[ActionValue[i]]

RestoreNext ==
  IF index = 1
  THEN pc' = "restored" /\ index' = index
  ELSE pc' = "restore" /\ index' = index - 1

\* Waits for the contents to match.
SkipRestore_waits ==
  /\ pc = "restore"
  /\ IF transaction[index].applied /\ ~Matches(index)
     THEN UNCHANGED <<pc, index>>
     ELSE ~transaction[index].applied /\ RestoreNext
  /\ UNCHANGED <<mode, contents, transaction, hasSideEffect, request, memory,
                 stopping, before>>

\* An action that was never applied, or whose file cannot be opened or was
\* changed by others.  If other actions set the file too, their old values are
\* no longer what they seem.
SkipRestore ==
  /\ pc = "restore"
  /\ ~transaction[index].applied \/ ~Matches(index) \/ May("open")
  /\ RestoreNext
  /\ IF transaction[index].applied /\ (Matches(index) \/ Shared(File) \/ Unrecognised(index))
       THEN GiveUp ELSE UNCHANGED lost
  /\ UNCHANGED <<mode, files, author, touched, transaction, hasSideEffect,
                 request, memory, stopping, before>>

CompareBeforeRestore ==
  /\ pc = "restore"
  /\ transaction[index].applied /\ Matches(index)
  /\ pc' = "overwrite"
  /\ UNCHANGED <<mode, contents, transaction, index, hasSideEffect, request,
                 memory, stopping, before>>

\* The entry stays in effective_desired_states_.
RestoreValue_keeps ==
  /\ pc = "overwrite"
  /\ RestoreNext
  /\ UNCHANGED <<mode, hasSideEffect, request, active, successful, outcome,
                 effective, touched, lost, stopping, before>>
  /\ transaction[index].old # Empty
  /\ transaction' = [transaction EXCEPT ![index].applied = FALSE]
  /\ files' = [files EXCEPT ![File] = Readback[transaction[index].old]]
  /\ author' = [author EXCEPT ![File] = transaction[index].by]

\* An old value that reads as empty is never written back.
RestoreValue ==
  /\ pc = "overwrite"
  /\ RestoreNext
  /\ UNCHANGED <<mode, hasSideEffect, request, active, successful, outcome,
                 stopping, before>>
  /\ \/ /\ (~IsNetdev /\ transaction[index].old = Empty) \/ May("open")
        /\ GiveUp
        /\ UNCHANGED <<files, author, touched, transaction, effective>>
     \/ /\ IsNetdev \/ transaction[index].old # Empty
        /\ transaction' = [transaction EXCEPT ![index].applied = FALSE]
        /\ effective' = effective \ {Key(index)}
        /\ UNCHANGED lost
        /\ \/ /\ files' = [files EXCEPT ![File] =
                             IF IsNetdev THEN Initial[File]
                             ELSE Readback[transaction[index].old]]
              /\ author' = [author EXCEPT ![File] =
                              IF IsNetdev THEN "env" ELSE transaction[index].by]
              /\ UNCHANGED touched
           \/ /\ May("reject") /\ ~IsNetdev
              /\ author' = [author EXCEPT ![File] =
                              IF @ = "agent" THEN "orphan" ELSE @]
              /\ touched' = touched \cup {File}
              /\ UNCHANGED files

\* The undone transaction becomes the active one, whatever was active.
FinishRestore ==
  /\ pc = "restored"
  /\ active' = transaction
  /\ IF stopping THEN pc' = "stopped" /\ UNCHANGED outcome
                 ELSE pc' = "watch" /\ outcome' = "failed"
  /\ UNCHANGED <<mode, contents, transaction, index, hasSideEffect, request,
                 successful, effective, stopping, before>>
-----------------------------------------------------------------------------
(* rollback() and stop().  The flag is seen between two batches of events; *)
(* a transaction in progress is finished first.                            *)

\* The flag is raised while the thread waits; the main thread joins it.
StopThread ==
  /\ pc \in {"watch", "stopped"}
  /\ stopping' = TRUE
  /\ transaction' = active
  /\ index' = NumActions
  /\ pc' = "restore"
  /\ UNCHANGED <<mode, contents, hasSideEffect, request, memory, before>>

EnvWrite(f, v) ==
  /\ May("env")
  /\ files' = [files EXCEPT ![f] = v]
  /\ author' = [author EXCEPT ![f] = "env"]
  /\ touched' = touched \cup {f}
  /\ UNCHANGED <<lost, mode, pc, transaction, index, hasSideEffect, request, memory,
                 stopping, before>>

Engine ==
  \/ Converge \/ ReadOld \/ WriteValue \/ VerifyValue \/ JournalAction
  \/ FinishTransaction
  \/ SkipRestore \/ CompareBeforeRestore \/ RestoreValue \/ FinishRestore

Next ==
  \/ \E r \in Requests : BeginTransaction(r)
  \/ Engine
  \/ StopThread
  \/ \E f \in Files : \E v \in EnvValues[f] : EnvWrite(f, v)

Spec == Init /\ [][Next]_vars

\* The thread that has begun a transaction or a restore goes on with it.
FairSpec == Spec /\ WF_vars(Engine)
-----------------------------------------------------------------------------
TypeOK ==
  /\ mode \in Modes
  /\ files \in [Files -> Values]
  /\ author \in [Files -> Authors]
  /\ pc \in {"watch", "apply", "write", "verify", "journal", "restore",
             "overwrite", "restored", "stopped"}
  /\ transaction \in Transactions /\ active \in Transactions
  /\ index \in 1..NumActions + 1
  /\ hasSideEffect \in BOOLEAN
  /\ request \in Requests
  /\ successful \subseteq Requests
  /\ effective \subseteq Files \X Values
  /\ outcome \in {"watching", "applied", "failed"}
  /\ stopping \in BOOLEAN
  /\ before \in [Files -> Values]
  /\ touched \subseteq Files /\ lost \subseteq Files
  /\ pc \notin {"watch", "apply", "stopped"} => index \in Actions

(* All or nothing: when a failed transaction was undone without a refusal, *)
(* every file that nobody else touched reads what it read when the         *)
(* transaction began, also when two actions of it set the same file.       *)
FailedTransactionUndone ==
  pc = "watch" /\ outcome = "failed" /\ (\A i \in Actions : ~active[i].applied) =>
    \A f \in Files \ touched : files[f] = before[f]

(* An audit-mode engine decides and records, and changes nothing.          *)
AuditChangesNothing ==
  mode = "audit" => \A f \in Files : author[f] = "env"

(* Whatever the engine set and nobody changed since, it still knows of:    *)
(* as part of the transaction in progress, of the active one, or as a      *)
(* state in effect.  Only what it has given up may be forgotten.           *)
AgentValuesKnown ==
  \A f \in Files \ lost : author[f] = "agent" =>
    \/ \E i \in Actions : Key(i) = <<f, files[f]>> /\ Key(i) \in effective
    \/ \E i \in Actions : ActionFile[i] = f /\ (transaction[i].applied \/ active[i].applied)
    \/ pc = "verify" /\ File = f

(* The old value of an action is never what the engine had set itself, but *)
(* for one case: it is what another action on the same file set, and that  *)
(* action is in effect, so that a restore of both ends at somebody else's  *)
(* value.  (For files that were not given up.)                             *)
OldValuesForeign ==
  \A i \in Actions :
    /\ transaction[i].applied /\ transaction[i].by = "agent"
    /\ ActionFile[i] \notin lost
    => \E j \in Actions \ {i} :
         /\ ActionFile[j] = ActionFile[i] /\ ActionValue[j] = transaction[i].old
         /\ Key(j) \in effective

(* On a file that nobody else writes, what the engine believes to be in    *)
(* effect is: an event that "converges" on it skips nothing that is        *)
(* missing.  (For files that one action sets.)                             *)
Private(i) ==
  /\ ~May("env") \/ EnvValues[ActionFile[i]] = {}
  /\ \A j \in Actions \ {i} : ActionFile[j] # ActionFile[i]
BelievedInEffect ==
  \A i \in Actions :
    Private(i) /\ Key(i) \in effective => files[ActionFile[i]] = ActionValue[i]

(* A transaction that has begun ends, whatever is rejected or refused in    *)
(* it, and so does a stop.                                                 *)
BegunWorkEnds ==
  (pc = "apply" ~> pc = "watch") /\ (stopping ~> pc = "stopped")
=============================================================================
