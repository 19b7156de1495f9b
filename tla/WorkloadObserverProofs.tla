----------------------- MODULE WorkloadObserverProofs -----------------------
(***************************************************************************)
(* The deltas add up (WorkloadObserver!DeltasAddUp) for any number of      *)
(* threads, ids, map entries and events, however the walk over the keys,   *)
(* the exits and the reuse of ids interleave.                              *)
(***************************************************************************)
EXTENDS WorkloadObserver, WellFoundedInduction, TLAPS

(* What is in the map of a thread, and what it did before that.            *)
Entry(i) == IF tid[i] \in Tids /\ entry[tid[i]].start = i THEN entry[tid[i]].count ELSE 0
Base(i)  == counted[i] - Entry(i)

(* A report r is backed by what was counted if p is what the next delta is *)
(* taken from: r covers the time before the entry, and of the entry no     *)
(* more than p.                                                            *)
Backed(i, r, p) ==
  r <= Base(i) \/ (p # Unknown /\ p <= Entry(i) /\ r <= Base(i) + p)

Samples == [start : Threads, count : Nat]
Counts  == Nat \cup {Unknown}

TypeOK ==
  /\ life \in [Threads -> {"unborn", "alive", "exiting", "gone"}]
  /\ tid \in [Threads -> Nat]
  /\ entry \in [Tids -> {NoEntry} \cup [start : Threads, count : Nat \ {0}]]
  /\ step \in {"wait", "keys", "lookup"}
  /\ keys \in Seq(Tids) /\ samples \in Seq(Samples)
  /\ previous \in [Threads -> Counts]
  /\ reported \in [Threads -> Nat] /\ counted \in [Threads -> Nat]
  /\ broken \subseteq Threads /\ exempt \subseteq Threads

(* An entry is under the id of its thread; only the entry of a thread that *)
(* is broken holds less than what was counted.                             *)
KernelInv ==
  /\ \A i \in Threads : tid[i] \in Tids <=> life[i] # "unborn"
  /\ \A t \in Tids : entry[t] # NoEntry => tid[entry[t].start] = t
  /\ \A i \in Threads : Base(i) \in Nat /\ (i \notin broken => Base(i) = 0)

Once(i) == \A m, n \in SamplesOf(i) : m = n

ReportInv ==
  \A i \in Threads \ exempt :
    /\ Backed(i, reported[i], previous[i])
    /\ \A n \in SamplesOf(i) :
         Once(i) => Backed(i, reported[i] + Delta(samples[n].count, previous[i]), samples[n].count)

(* Of an entry that was reported, the walk does not miss the key.          *)
Covered(i) ==
  \/ step = "wait" /\ keys = <<>>
  \/ step # "wait" /\ \E n \in 1..Len(keys) : keys[n] = tid[i]
  \/ step = "keys" /\ keys # <<>> /\ tid[i] > Last(keys)
  \/ step = "lookup" /\ SamplesOf(i) # {}

WalkInv == \A i \in Threads \ exempt : reported[i] > Base(i) => Covered(i)

(* While its entry is there, a thread's report is what was last seen.      *)
SameInv ==
  \A i \in Threads \ (exempt \cup broken) :
    /\ previous[i] = Unknown => reported[i] = 0
    /\ previous[i] # Unknown => reported[i] = previous[i] /\ previous[i] <= Entry(i)
    /\ \A n \in SamplesOf(i) : previous[i] <= samples[n].count /\ samples[n].count <= Entry(i)

Inv == TypeOK /\ KernelInv /\ ReportInv /\ WalkInv /\ SameInv

LEMMA Bounds == MaxThreads \in Nat /\ Threads \subseteq Nat \ {0} /\ Tids \subseteq Nat \ {0}
BY ObserverAssumption DEF Threads

LEMMA EntryFacts ==
  ASSUME TypeOK, NEW i \in Threads
  PROVE  /\ Entry(i) \in Nat
         /\ Entry(i) > 0 <=> tid[i] \in Tids /\ entry[tid[i]].start = i
         /\ tid[i] \in Tids /\ entry[tid[i]].start = i =>
              entry[tid[i]] # NoEntry /\ entry[tid[i]].count = Entry(i)
         /\ Base(i) \in Int /\ counted[i] = Base(i) + Entry(i)
<1>1. i # 0 /\ counted[i] \in Nat
  BY Bounds DEF TypeOK
<1>2. ASSUME tid[i] \in Tids, entry[tid[i]].start = i
      PROVE  entry[tid[i]] # NoEntry /\ entry[tid[i]].count \in Nat \ {0}
  BY <1>1, <1>2 DEF TypeOK, NoEntry
<1> QED
  BY <1>1, <1>2 DEF Entry, Base

(* A thread's entry grows, or it is gone and nothing that it did will be   *)
(* reported again.                                                         *)
Grows(i) ==
  \/ Base(i)' = Base(i) /\ Entry(i)' >= Entry(i)
  \/ Base(i)' >= Base(i) + Entry(i) /\ i \in broken'

LEMMA CountedStep ==
  ASSUME TypeOK, KernelInv, NEW i \in Threads, tid[i] \in Tids, Counted(i), UNCHANGED tid
  PROVE  /\ entry' \in [Tids -> {NoEntry} \cup [start : Threads, count : Nat \ {0}]]
         /\ counted' \in [Threads -> Nat] /\ broken' \subseteq Threads
         /\ \A t \in Tids : entry'[t] # NoEntry => tid[entry'[t].start] = t
         /\ \A j \in Threads : Grows(j) /\ (j \in broken => j \in broken')
<1>1. CASE UNCHANGED <<entry, counted, broken>>
  <2>1. \A j \in Threads : Entry(j)' = Entry(j) /\ Base(j)' = Base(j)
    BY <1>1 DEF Entry, Base
  <2>2. \A j \in Threads : Entry(j) \in Nat
    BY EntryFacts
  <2> QED
    BY <1>1, <2>1, <2>2 DEF Grows, TypeOK, KernelInv
<1>2. CASE ~UNCHANGED <<entry, counted, broken>>
  <2> DEFINE old == entry[tid[i]]
             count == IF old.start = i THEN old.count + 1 ELSE 1
  <2>1. /\ entry' = [entry EXCEPT ![tid[i]] = [start |-> i, count |-> count]]
        /\ counted' = [counted EXCEPT ![i] = @ + 1]
        /\ broken' = broken \cup ({old.start} \ {0, i})
    BY <1>2 DEF Counted
  <2>2. /\ count \in Nat \ {0}
        /\ old = NoEntry \/ (old \in [start : Threads, count : Nat \ {0}] /\ tid[old.start] = tid[i])
    BY Bounds DEF TypeOK, KernelInv, NoEntry
  <2>3. old.start \in Threads \cup {0}
    BY <2>2 DEF NoEntry
  <2> HIDE DEF count
  <2>4. /\ entry' \in [Tids -> {NoEntry} \cup [start : Threads, count : Nat \ {0}]]
        /\ counted' \in [Threads -> Nat] /\ broken' \subseteq Threads
    BY <2>1, <2>2, <2>3 DEF TypeOK
  <2>5. \A t \in Tids : entry'[t] # NoEntry => tid[entry'[t].start] = t
    BY <2>1 DEF TypeOK, KernelInv
  <2>6. ASSUME NEW j \in Threads PROVE Grows(j)
    <3>1. /\ entry[tid[i]].start = i => Entry(i) = old.count
          /\ entry[tid[i]].start # i => Entry(i) = 0
      BY DEF Entry
    <3>2. Entry(i)' = count /\ counted'[i] = counted[i] + 1
      BY <2>1 DEF Entry, TypeOK
    <3>3. CASE j = i
      <4>1. Entry(i)' = Entry(i) + 1
        BY <3>1, <3>2, <2>2 DEF count
      <4>2. Entry(i) \in Nat /\ counted[i] \in Nat
        BY EntryFacts DEF TypeOK
      <4>3. Base(i)' = counted'[i] - Entry(i)' /\ Base(i) = counted[i] - Entry(i)
        BY DEF Base
      <4>4. Base(i)' = Base(i)
        BY <3>2, <4>1, <4>2, <4>3
      <4> QED
        BY <3>3, <4>1, <4>2, <4>4 DEF Grows
    <3>4. CASE j # i
      <4>1. counted'[j] = counted[j]
        BY <2>1, <3>4 DEF TypeOK
      <4>2. CASE tid[j] = tid[i] /\ old.start = j
        <5>1. Entry(j)' = 0
          BY <2>1, <3>4, <4>2 DEF Entry, TypeOK
        <5>2. j \in broken'
          BY <2>1, <3>4, <4>2, Bounds
        <5>3. counted[j] \in Nat /\ counted[j] = Base(j) + Entry(j)
          BY EntryFacts DEF TypeOK
        <5>4. Base(j)' = counted[j]
          <6>1. Base(j)' = counted'[j] - Entry(j)'
            BY DEF Base
          <6> QED
            BY <4>1, <5>1, <5>3, <6>1
        <5> QED
          BY <5>2, <5>3, <5>4 DEF Grows
      <4>3. CASE ~(tid[j] = tid[i] /\ old.start = j)
        <5>1. Entry(j)' = Entry(j)
          BY <2>1, <3>4, <4>3 DEF Entry, TypeOK
        <5>2. Base(j)' = Base(j)
          BY <4>1, <5>1 DEF Base
        <5>3. Entry(j) \in Nat
          BY EntryFacts
        <5> QED
          BY <5>1, <5>2, <5>3 DEF Grows
      <4> QED
        BY <4>2, <4>3
    <3> QED
      BY <3>3, <3>4
  <2> QED
    BY <2>1, <2>4, <2>5, <2>6
<1> QED
  BY <1>1, <1>2

(* What an action of the kernel does, as far as the agent can tell.        *)
KernelTypes ==
  /\ life \in [Threads -> {"unborn", "alive", "exiting", "gone"}]
  /\ tid \in [Threads -> Nat]
  /\ entry \in [Tids -> {NoEntry} \cup [start : Threads, count : Nat \ {0}]]
  /\ counted \in [Threads -> Nat] /\ broken \subseteq Threads
AllGrow ==
  /\ UNCHANGED agent
  /\ \A j \in Threads : Grows(j) /\ (j \in broken => j \in broken')
  /\ \A j \in Threads : tid'[j] = tid[j] \/ tid[j] \notin Tids

LEMMA GrowingIsInv ==
  ASSUME TypeOK, KernelInv, KernelTypes', AllGrow,
         \A i \in Threads : tid'[i] \in Tids <=> life'[i] # "unborn",
         \A t \in Tids : entry'[t] # NoEntry => tid'[entry'[t].start] = t
  PROVE  TypeOK' /\ KernelInv'
<1>1. TypeOK'
  BY DEF TypeOK, KernelTypes, AllGrow, agent, Samples, Counts
<1>2. ASSUME NEW i \in Threads
      PROVE  Base(i)' \in Nat /\ (i \notin broken' => Base(i)' = 0)
  <2>1. Base(i)' \in Int
    <3>1. Entry(i)' \in Nat /\ counted'[i] \in Nat
      BY Bounds DEF KernelTypes, Entry, NoEntry
    <3> QED
      BY <3>1 DEF Base
  <2>2. Grows(i) /\ (i \in broken => i \in broken')
    BY DEF AllGrow
  <2>3. Entry(i) \in Nat /\ Base(i) \in Nat /\ (i \notin broken => Base(i) = 0)
    BY EntryFacts DEF KernelInv
  <2> QED
    BY <2>1, <2>2, <2>3 DEF Grows
<1> QED
  BY <1>1, <1>2 DEF KernelInv

LEMMA BornStep ==
  ASSUME TypeOK, KernelInv, NEW i \in Threads, NEW t \in Tids, Born(i, t)
  PROVE  TypeOK' /\ KernelInv' /\ AllGrow
<1>1. /\ tid' = [tid EXCEPT ![i] = t] /\ life' = [life EXCEPT ![i] = "alive"]
      /\ UNCHANGED <<entry, counted, broken, agent>> /\ tid[i] \notin Tids
  BY DEF Born, KernelInv
<1>2. \A s \in Tids : entry[s].start # i
  BY <1>1, Bounds DEF KernelInv, TypeOK, NoEntry
<1>3. ASSUME NEW j \in Threads
      PROVE  Entry(j)' = Entry(j)
  <2>1. CASE j = i
    BY <1>1, <1>2, <2>1 DEF Entry, TypeOK
  <2>2. CASE j # i
    BY <1>1, <2>2 DEF Entry, TypeOK
  <2> QED
    BY <2>1, <2>2
<1>4. ASSUME NEW j \in Threads
      PROVE  Grows(j) /\ (j \in broken => j \in broken')
  <2>1. Base(j)' = Base(j) /\ Entry(j) \in Nat
    BY <1>1, <1>3, EntryFacts DEF Base
  <2> QED
    BY <1>1, <1>3, <2>1 DEF Grows
<1>5. AllGrow
  BY <1>1, <1>4 DEF AllGrow, TypeOK
<1>6. KernelTypes'
  BY <1>1, Bounds DEF KernelTypes, TypeOK
<1>7. \A j \in Threads : tid'[j] \in Tids <=> life'[j] # "unborn"
  BY <1>1 DEF KernelInv, TypeOK
<1>8. ASSUME NEW s \in Tids, entry'[s] # NoEntry
      PROVE  tid'[entry'[s].start] = s
  <2>1. entry[s] # NoEntry /\ entry[s].start \in Threads \ {i} /\ tid[entry[s].start] = s
    BY <1>1, <1>2, <1>8 DEF TypeOK, KernelInv
  <2> QED
    BY <1>1, <2>1 DEF TypeOK
<1> QED
  BY <1>5, <1>6, <1>7, <1>8, GrowingIsInv

LEMMA EventStep ==
  ASSUME TypeOK, KernelInv, NEW i \in Threads, SchedEvent(i) \/ LastSwitch(i)
  PROVE  TypeOK' /\ KernelInv' /\ AllGrow
<1>1. /\ Counted(i) /\ UNCHANGED <<tid, agent>> /\ tid[i] \in Tids
      /\ life' \in [Threads -> {"unborn", "alive", "exiting", "gone"}]
      /\ \A j \in Threads : life'[j] = "unborn" <=> life[j] = "unborn"
  BY DEF SchedEvent, LastSwitch, KernelInv, TypeOK
<1>2. /\ entry' \in [Tids -> {NoEntry} \cup [start : Threads, count : Nat \ {0}]]
      /\ counted' \in [Threads -> Nat] /\ broken' \subseteq Threads
      /\ \A t \in Tids : entry'[t] # NoEntry => tid[entry'[t].start] = t
      /\ \A j \in Threads : Grows(j) /\ (j \in broken => j \in broken')
  BY <1>1, CountedStep
<1>3. AllGrow
  BY <1>1, <1>2 DEF AllGrow
<1>4. KernelTypes'
  BY <1>1, <1>2 DEF KernelTypes, TypeOK
<1> QED
  BY <1>1, <1>2, <1>3, <1>4, GrowingIsInv DEF KernelInv

LEMMA ExitStep ==
  ASSUME TypeOK, KernelInv, NEW i \in Threads, ProcessExit(i)
  PROVE  TypeOK' /\ KernelInv' /\ AllGrow
<1>1. /\ life' = [life EXCEPT ![i] = "exiting"] /\ life[i] = "alive" /\ tid[i] \in Tids
      /\ entry' = [entry EXCEPT ![tid[i]] = NoEntry]
      /\ broken' = broken \cup ({entry[tid[i]].start} \ {0})
      /\ UNCHANGED <<tid, counted, agent>>
  BY DEF ProcessExit, KernelInv
<1>2. entry[tid[i]].start \in Threads \cup {0}
  BY <1>1 DEF TypeOK, NoEntry
<1>3. KernelTypes'
  BY <1>1, <1>2 DEF KernelTypes, TypeOK
<1>4. ASSUME NEW j \in Threads
      PROVE  Grows(j) /\ (j \in broken => j \in broken')
  <2>1. Entry(j) \in Nat /\ counted[j] \in Nat /\ Base(j) = counted[j] - Entry(j)
    BY EntryFacts DEF TypeOK, Base
  <2>2. CASE tid[j] = tid[i] /\ entry[tid[i]].start = j
    <3>1. Entry(j)' = 0
      BY <1>1, <2>2, Bounds DEF Entry, TypeOK, NoEntry
    <3>2. Base(j)' = counted[j] /\ j \in broken'
      BY <1>1, <2>1, <2>2, <3>1, Bounds DEF Base
    <3> QED
      BY <1>1, <2>1, <3>2 DEF Grows
  <2>3. CASE ~(tid[j] = tid[i] /\ entry[tid[i]].start = j)
    <3>1. Entry(j)' = Entry(j)
      BY <1>1, <2>3, Bounds DEF Entry, TypeOK, NoEntry
    <3> QED
      BY <1>1, <2>1, <3>1 DEF Grows, Base
  <2> QED
    BY <2>2, <2>3
<1>5. AllGrow
  BY <1>1, <1>4 DEF AllGrow
<1>6. \A j \in Threads : tid'[j] \in Tids <=> life'[j] # "unborn"
  BY <1>1 DEF KernelInv, TypeOK
<1>7. \A t \in Tids : entry'[t] # NoEntry => tid'[entry'[t].start] = t
  BY <1>1 DEF KernelInv, TypeOK
<1> QED
  BY <1>3, <1>5, <1>6, <1>7, GrowingIsInv

(* The agent's books stay true whatever the kernel does.                   *)
LEMMA BackedStays ==
  ASSUME TypeOK, TypeOK', NEW i \in Threads, Grows(i),
         NEW r \in Nat, NEW p \in Counts, Backed(i, r, p)
  PROVE  Backed(i, r, p)'
<1>1. Entry(i) \in Nat /\ Base(i) \in Int
  BY EntryFacts
<1>2. Entry(i)' \in Nat /\ Base(i)' \in Int
  <2>1. counted'[i] \in Nat
    BY DEF TypeOK
  <2>2. Entry(i)' \in Nat
    BY Bounds DEF TypeOK, Entry, NoEntry
  <2> QED
    BY <2>1, <2>2 DEF Base
<1> QED
  BY <1>1, <1>2 DEF Backed, Grows, Counts, Unknown

LEMMA NoneAboveEntry ==
  ASSUME TypeOK, KernelInv, ReportInv, NEW i \in Threads \ exempt, reported[i] > Base(i)
  PROVE  tid[i] \in InMap /\ Entry(i) > 0
<1>1. Backed(i, reported[i], previous[i]) /\ Entry(i) \in Nat /\ Base(i) \in Int
  BY EntryFacts DEF ReportInv
<1>2. previous[i] \in Counts /\ reported[i] \in Nat
  BY DEF TypeOK
<1>3. Entry(i) > 0
  BY <1>1, <1>2 DEF Backed, Counts, Unknown
<1> QED
  BY <1>3, EntryFacts DEF InMap

LEMMA SampleFacts ==
  ASSUME TypeOK, NEW i, NEW n \in SamplesOf(i)
  PROVE  n \in 1..Len(samples) /\ samples[n].start = i /\ samples[n].count \in Nat
<1>1. samples \in Seq(Samples) /\ n \in 1..Len(samples) /\ samples[n].start = i
  BY DEF SamplesOf, TypeOK
<1>2. samples[n] \in Samples
  BY <1>1
<1> QED
  BY <1>1, <1>2 DEF Samples

LEMMA KernelKeepsBooks ==
  ASSUME Inv, TypeOK', AllGrow
  PROVE  (ReportInv /\ WalkInv /\ SameInv)'
<1> USE DEF Inv
<1>1. ASSUME NEW i \in Threads \ exempt
      PROVE  /\ Backed(i, reported[i], previous[i])'
             /\ \A n \in SamplesOf(i) : Once(i) =>
                  Backed(i, reported[i] + Delta(samples[n].count, previous[i]), samples[n].count)'
  <2>1. Grows(i)
    BY DEF AllGrow
  <2>2. /\ reported[i] \in Nat /\ reported' = reported
        /\ previous[i] \in Counts /\ previous' = previous /\ samples' = samples
    BY DEF TypeOK, AllGrow, agent
  <2>3. Backed(i, reported[i], previous[i])'
    BY <2>1, <2>2, BackedStays DEF ReportInv, Backed
  <2>4. ASSUME NEW n \in SamplesOf(i), Once(i)
        PROVE  Backed(i, reported[i] + Delta(samples[n].count, previous[i]), samples[n].count)'
    <3>1. samples[n].count \in Nat
      BY SampleFacts
    <3>2. reported[i] + Delta(samples[n].count, previous[i]) \in Nat
      BY <2>2, <3>1 DEF Delta, Counts, Unknown
    <3>3. Backed(i, reported[i] + Delta(samples[n].count, previous[i]), samples[n].count)
      BY <2>4 DEF ReportInv
    <3> DEFINE r == reported[i] + Delta(samples[n].count, previous[i])
               p == samples[n].count
    <3>4. r' = r /\ p' = p
      BY <2>2 DEF Delta
    <3>5. r \in Nat /\ p \in Counts /\ Backed(i, r, p)
      BY <3>1, <3>2, <3>3 DEF Counts
    <3> HIDE DEF r, p
    <3>6. \A x \in Nat, y \in Counts : Backed(i, x, y) => Backed(i, x, y)'
      BY <2>1, BackedStays
    <3>7. Backed(i, r, p)'
      BY <3>4, <3>5, <3>6 DEF Backed
    <3> QED
      BY <3>7 DEF r, p
  <2> QED
    BY <2>3, <2>4
<1>2. ReportInv'
  <2>1. exempt' = exempt /\ samples' = samples
    BY DEF AllGrow, agent
  <2>2. \A i \in Threads : SamplesOf(i)' = SamplesOf(i) /\ (Once(i)' <=> Once(i))
    BY <2>1 DEF SamplesOf, Once
  <2> QED
    BY <1>1, <2>1, <2>2 DEF ReportInv
<1>3. ASSUME NEW i \in Threads
      PROVE  Base(i)' >= Base(i) /\ Base(i) \in Int /\ Base(i)' \in Int
  <2>1. Grows(i) /\ Entry(i) \in Nat /\ Base(i) \in Int
    BY EntryFacts DEF AllGrow
  <2>2. Entry(i)' \in Nat /\ counted'[i] \in Nat
    BY Bounds DEF TypeOK, Entry, NoEntry
  <2>3. Base(i)' \in Int
    BY <2>2 DEF Base
  <2> QED
    BY <2>1, <2>3 DEF Grows
<1>4. WalkInv'
  <2> SUFFICES ASSUME NEW i \in Threads \ exempt', reported'[i] > Base(i)'
               PROVE  Covered(i)'
    BY DEF WalkInv
  <2>1. UNCHANGED <<step, keys, samples, reported, exempt>>
    BY DEF AllGrow, agent
  <2>2. i \in Threads \ exempt /\ reported[i] \in Nat
    BY <2>1 DEF TypeOK
  <2>3. reported[i] > Base(i)
    BY <1>3, <2>1, <2>2
  <2>4. tid[i] \in Tids
    BY <2>2, <2>3, NoneAboveEntry DEF InMap
  <2>5. tid'[i] = tid[i]
    BY <2>2, <2>4 DEF AllGrow
  <2>6. Covered(i)
    BY <2>2, <2>3 DEF WalkInv
  <2> QED
    BY <2>1, <2>5, <2>6 DEF Covered, SamplesOf
<1>5. SameInv'
  <2> SUFFICES ASSUME NEW i \in Threads \ (exempt' \cup broken')
               PROVE  /\ previous'[i] = Unknown => reported'[i] = 0
                      /\ previous'[i] # Unknown =>
                           reported'[i] = previous'[i] /\ previous'[i] <= Entry(i)'
                      /\ \A n \in SamplesOf(i) :
                           previous'[i] <= samples'[n].count /\ samples'[n].count <= Entry(i)'
    <3>1. samples' = samples
      BY DEF AllGrow, agent
    <3> QED
      BY <3>1 DEF SameInv, SamplesOf
  <2>1. UNCHANGED <<samples, previous, reported, exempt>> /\ i \notin broken /\ Grows(i)
    BY DEF AllGrow, agent
  <2>2. Entry(i)' >= Entry(i) /\ Entry(i) \in Nat /\ Entry(i)' \in Nat
    <3>1. Entry(i)' \in Nat
      BY Bounds DEF TypeOK, Entry, NoEntry
    <3> QED
      BY <2>1, <3>1, EntryFacts DEF Grows
  <2>3. previous[i] \in Nat \cup {-1} /\ \A n \in SamplesOf(i) : samples[n].count \in Nat
    BY SampleFacts DEF TypeOK, Counts, Unknown
  <2> QED
    BY <2>1, <2>2, <2>3 DEF SameInv, Unknown
<1> QED
  BY <1>2, <1>4, <1>5

(* CHOOSE takes the least and the greatest.                                *)
LEMMA Least ==
  ASSUME NEW T, T \subseteq Nat, T # {}
  PROVE  \E n \in T : \A m \in T : n <= m
<1>1. \E n \in T : \A m \in T : ~(<<m, n>> \in OpToRel(<, Nat))
  BY NatLessThanWellFounded, WFMin, Zenon
<1>2. \A m, n \in T : <<m, n>> \in OpToRel(<, Nat) <=> m < n
  BY Zenon DEF OpToRel
<1>3. \E n \in T : \A m \in T : ~(m < n)
  BY <1>1, <1>2, Zenon
<1> QED
  BY <1>3

LEMMA Induction ==
  ASSUME NEW N \in Nat, NEW T, 0 \in T, \A m \in 1..N : m - 1 \in T => m \in T
  PROVE  \A m \in 0..N : m \in T
<1> DEFINE Missing == {m \in 0..N : m \notin T}
<1> SUFFICES ASSUME Missing # {} PROVE FALSE
  OBVIOUS
<1>1. PICK m \in Missing : \A k \in Missing : m <= k
  <2>1. Missing \subseteq Nat
    OBVIOUS
  <2> HIDE DEF Missing
  <2> QED
    BY <2>1, Least
<1>2. m # 0 /\ m - 1 \notin Missing
  BY <1>1
<1> QED
  BY <1>1, <1>2

LEMMA LeastIsMin ==
  ASSUME NEW S, S \subseteq Nat, S # {}
  PROVE  Min(S) \in S /\ \A n \in S : Min(S) <= n
<1>1. \E n \in S : \A m \in S : n <= m
  BY Least
<1> QED
  BY <1>1, Zenon DEF Min

LEMMA NextKeyLeast ==
  ASSUME TypeOK, NEW key, NextKeys(key) # {}
  PROVE  Min(NextKeys(key)) \in Tids /\ \A t \in NextKeys(key) : Min(NextKeys(key)) <= t
<1>1. NextKeys(key) \subseteq Nat /\ NextKeys(key) \subseteq Tids
  BY Bounds DEF NextKeys, InMap
<1> QED
  BY <1>1, LeastIsMin
-----------------------------------------------------------------------------
(* What Deltas(i) is for a thread that a cycle has not read, or read once. *)
Summed(L, i) ==
  L = [n \in 0..Len(samples) |->
         IF n = 0 THEN 0
         ELSE IF samples[n].start = i THEN L[n - 1] + Delta(samples[n].count, PreviousOf(i))
         ELSE L[n - 1]]

LEMMA DeltasExist ==
  ASSUME TypeOK, NEW i \in Threads
  PROVE  \E L : Summed(L, i) /\ Deltas(i) = L[Len(samples)]
<1> DEFINE N == Len(samples)
           Step(l, n) == IF n = 0 THEN 0
                         ELSE IF samples[n].start = i
                         THEN l[n - 1] + Delta(samples[n].count, PreviousOf(i))
                         ELSE l[n - 1]
           T == {m \in 0..N : \E l : l = [n \in 0..m |-> Step(l, n)]}
           L == CHOOSE l : l = [n \in 0..N |-> Step(l, n)]
<1>0. N \in Nat
  BY DEF TypeOK
<1>1. Deltas(i) = L[N]
  BY Zenon DEF Deltas
<1>2. 0 \in T
  <2>1. [n \in 0..0 |-> 0] = [n \in 0..0 |-> Step([k \in 0..0 |-> 0], n)]
    OBVIOUS
  <2> HIDE DEF Step, N
  <2> QED
    BY <1>0, <2>1
<1>3. ASSUME NEW m \in 1..N, m - 1 \in T
      PROVE  m \in T
  <2>1. PICK l : l = [n \in 0..m - 1 |-> Step(l, n)]
    BY <1>3
  <2> DEFINE h == [n \in 0..m |-> IF n = m THEN Step(l, m) ELSE l[n]]
  <2>2. \A n \in 0..m : h[n] = Step(h, n)
    <3> SUFFICES ASSUME NEW n \in 0..m PROVE h[n] = Step(h, n)
      OBVIOUS
    <3>1. n # 0 => h[n - 1] = l[n - 1]
      BY <1>0
    <3>2. \A k \in 0..m - 1 : l[k] = Step(l, k)
      <4> HIDE DEF Step
      <4> QED BY <2>1
    <3>3. h[n] = Step(l, n)
      <4> HIDE DEF Step
      <4> QED BY <3>2, <1>0
    <3> HIDE DEF h
    <3> QED
      BY <3>1, <3>3
  <2>3. h = [n \in 0..m |-> Step(h, n)]
    <3>1. h = [n \in 0..m |-> h[n]]
      OBVIOUS
    <3> HIDE DEF h, Step
    <3> QED
      BY <2>2, <3>1
  <2> HIDE DEF h, Step, N
  <2> QED
    BY <1>0, <2>3
<1>4. N \in T
  <2> HIDE DEF T, N
  <2>1. \A m \in 1..N : m - 1 \in T => m \in T
    BY <1>3
  <2>2. \A m \in 0..N : m \in T
    BY <1>0, <1>2, <2>1, Induction
  <2> QED
    BY <1>0, <2>2
<1>5. L = [n \in 0..N |-> Step(L, n)]
  BY <1>4, Zenon
<1> QED
  BY <1>1, <1>5, Zenon DEF Summed

(* The delta of one sample.                                                *)
LEMMA DeltaFacts ==
  ASSUME NEW count \in Nat, NEW last \in Counts
  PROVE  /\ Delta(count, last) \in Nat /\ Delta(count, last) <= count
         /\ last # Unknown /\ last <= count => Delta(count, last) = count - last
         /\ last = Unknown => Delta(count, last) = count
BY DEF Delta, Counts, Unknown

LEMMA DeltasFacts ==
  ASSUME TypeOK, NEW i \in Threads
  PROVE  /\ Deltas(i) \in Nat
         /\ SamplesOf(i) = {} => Deltas(i) = 0
         /\ \A m \in SamplesOf(i) :
              Once(i) => Deltas(i) = Delta(samples[m].count, previous[i])
<1>0. PICK L : Summed(L, i) /\ Deltas(i) = L[Len(samples)]
  BY DeltasExist
<1> DEFINE N == Len(samples)
           d(n) == Delta(samples[n].count, previous[i])
           Mine(n) == {m \in 1..n : samples[m].start = i}
           T == {n \in 0..N : /\ L[n] \in Nat
                              /\ Mine(n) = {} => L[n] = 0
                              /\ \A m \in Mine(n) : Mine(n) \subseteq {m} => L[n] = d(m)}
<1>1. N \in Nat /\ \A n \in 1..N : d(n) \in Nat
  <2>1. samples \in Seq(Samples) /\ previous[i] \in Counts
    BY DEF TypeOK
  <2>2. \A n \in 1..N : samples[n] \in Samples
    BY <2>1
  <2>3. \A n \in 1..N : samples[n].count \in Nat
    BY <2>2 DEF Samples
  <2> QED
    BY <2>1, <2>3, DeltaFacts
<1>2. L[0] = 0
  BY <1>0, <1>1 DEF Summed
<1>3. \A n \in 1..N : L[n] = IF samples[n].start = i THEN L[n - 1] + d(n) ELSE L[n - 1]
  <2> HIDE DEF N
  <2>1. L = [n \in 0..N |-> IF n = 0 THEN 0
               ELSE IF samples[n].start = i THEN L[n - 1] + d(n) ELSE L[n - 1]]
    BY <1>0, Zenon DEF Summed, PreviousOf, N
  <2> HIDE DEF d
  <2> QED
    BY <1>1, <2>1
<1>4. 0 \in T
  BY <1>1, <1>2
<1>5. ASSUME NEW n \in 1..N, n - 1 \in T
      PROVE  n \in T
  <2> HIDE DEF d, N
  <2>1. L[n] = IF samples[n].start = i THEN L[n - 1] + d(n) ELSE L[n - 1]
    BY <1>3
  <2>2. Mine(n) = Mine(n - 1) \cup (IF samples[n].start = i THEN {n} ELSE {})
    BY <1>1
  <2>3. n \notin Mine(n - 1) /\ n \in 0..N
    BY <1>1
  <2>4. /\ L[n - 1] \in Nat
        /\ Mine(n - 1) = {} => L[n - 1] = 0
        /\ \A m \in Mine(n - 1) : Mine(n - 1) \subseteq {m} => L[n - 1] = d(m)
    BY <1>5
  <2> HIDE DEF Mine
  <2>5. CASE samples[n].start = i
    <3>1. L[n] = L[n - 1] + d(n) /\ d(n) \in Nat /\ Mine(n) = Mine(n - 1) \cup {n}
      BY <1>1, <2>1, <2>2, <2>5
    <3>2. L[n] \in Nat /\ Mine(n) # {}
      BY <2>4, <3>1
    <3>3. ASSUME NEW m \in Mine(n), Mine(n) \subseteq {m} PROVE L[n] = d(m)
      <4>1. m = n
        BY <3>1, <3>3
      <4>2. Mine(n - 1) = {}
        BY <2>3, <3>1, <3>3, <4>1
      <4> QED
        BY <2>4, <3>1, <4>1, <4>2
    <3> QED
      BY <2>3, <3>2, <3>3
  <2>6. CASE samples[n].start # i
    <3>1. L[n] = L[n - 1] /\ Mine(n) = Mine(n - 1)
      BY <2>1, <2>2, <2>6
    <3> QED
      BY <2>3, <2>4, <3>1
  <2> QED
    BY <2>5, <2>6
<1>6. N \in T
  <2> HIDE DEF T, N
  <2>1. \A n \in 1..N : n - 1 \in T => n \in T
    BY <1>5
  <2>2. \A n \in 0..N : n \in T
    BY <1>1, <1>4, <2>1, Induction
  <2> QED
    BY <1>1, <2>2
<1>7. Mine(N) = SamplesOf(i)
  BY DEF SamplesOf
<1>8. ASSUME NEW m \in SamplesOf(i), Once(i) PROVE Deltas(i) = d(m)
  <2>1. SamplesOf(i) \subseteq {m}
    BY <1>8 DEF Once
  <2> HIDE DEF d, Mine, N
  <2> QED
    BY <1>0, <1>6, <1>7, <2>1 DEF N
<1> QED
  BY <1>0, <1>6, <1>7, <1>8
-----------------------------------------------------------------------------
(* The agent's steps.                                                      *)
LEMMA CollectStep ==
  ASSUME Inv, CollectKey
  PROVE  Inv'
<1> USE DEF Inv
<1> DEFINE next == NextKeys(IF keys = <<>> THEN 0 ELSE Last(keys))
<1>1. /\ step \in {"wait", "keys"} /\ UNCHANGED <<kernel, samples, previous, reported, exempt>>
      /\ \/ next = {} /\ step' = "lookup" /\ UNCHANGED keys
         \/ next # {} /\ step' = "keys" /\ keys' = Append(keys, Min(next))
  BY DEF CollectKey
<1>2. next # {} => Min(next) \in Tids /\ \A t \in next : Min(next) <= t
  BY NextKeyLeast
<1>3. \A i \in Threads : 
        tid[i] \in InMap /\ (keys = <<>> \/ tid[i] > Last(keys)) => tid[i] \in next
  BY Bounds DEF NextKeys, InMap
<1> HIDE DEF next
<1>4. TypeOK'
  <2>1. keys \in Seq(Tids) /\ step \in {"wait", "keys", "lookup"}
    BY DEF TypeOK
  <2>2. keys' \in Seq(Tids)
    BY <1>1, <1>2, <2>1
  <2>3. step' \in {"wait", "keys", "lookup"}
    BY <1>1
  <2> QED
    BY <1>1, <2>2, <2>3 DEF TypeOK, kernel
<1>5. UNCHANGED <<tid, entry, counted, samples, previous, reported, exempt, broken>>
  BY <1>1 DEF kernel
<1>6. \A i \in Threads : Entry(i)' = Entry(i) /\ Base(i)' = Base(i)
  BY <1>5 DEF Entry, Base
<1>7. KernelInv'
  BY <1>1, <1>6 DEF KernelInv, kernel
<1>8. \A i \in Threads : SamplesOf(i)' = SamplesOf(i) /\ (Once(i)' <=> Once(i))
  BY <1>5 DEF SamplesOf, Once
<1>9. ReportInv' /\ SameInv'
  BY <1>5, <1>6, <1>8 DEF ReportInv, SameInv, Backed, Delta
<1>10. WalkInv'
  <2> SUFFICES ASSUME NEW i \in Threads \ exempt, reported[i] > Base(i)
               PROVE  Covered(i)'
    BY <1>5, <1>6 DEF WalkInv
  <2>1. tid[i] \in InMap /\ tid[i] \in Nat /\ keys \in Seq(Tids)
    BY NoneAboveEntry DEF TypeOK
  <2>2. Covered(i) /\ tid'[i] = tid[i]
    BY <1>5 DEF WalkInv
  <2>3. CASE step = "keys" /\ \E n \in 1..Len(keys) : keys[n] = tid[i]
    <3>1. PICK n \in 1..Len(keys) : keys[n] = tid[i]
      BY <2>3
    <3>2. CASE UNCHANGED keys
      BY <1>1, <2>2, <3>1, <3>2 DEF Covered
    <3>3. CASE keys' = Append(keys, Min(next)) /\ next # {}
      <4>1. n \in 1..Len(keys') /\ keys'[n] = tid[i]
        BY <1>2, <2>1, <3>1, <3>3
      <4> QED
        BY <1>1, <2>2, <4>1 DEF Covered
    <3> QED
      BY <1>1, <3>2, <3>3
  <2>4. CASE keys = <<>> \/ (keys # <<>> /\ tid[i] > Last(keys))
    <3>1. tid[i] \in next
      BY <1>3, <2>1, <2>4
    <3>2. /\ step' = "keys" /\ keys' = Append(keys, Min(next))
          /\ Min(next) \in Tids /\ Min(next) \in Nat /\ Min(next) <= tid[i]
      BY <1>1, <1>2, <3>1, Bounds
    <3>3. /\ keys' # <<>> /\ Last(keys') = Min(next)
          /\ Len(keys') \in 1..Len(keys') /\ keys'[Len(keys')] = Min(next)
      BY <2>1, <3>2 DEF Last
    <3>4. CASE tid[i] = Min(next)
      BY <2>2, <3>2, <3>3, <3>4 DEF Covered
    <3>5. CASE tid[i] > Min(next)
      BY <2>2, <3>2, <3>3, <3>5 DEF Covered
    <3> QED
      BY <2>1, <3>2, <3>4, <3>5
  <2> QED
    BY <1>1, <2>2, <2>3, <2>4 DEF Covered
<1> QED
  BY <1>4, <1>7, <1>9, <1>10

LEMMA LookUpStep ==
  ASSUME Inv, LookUp
  PROVE  Inv'
<1> USE DEF Inv
<1> DEFINE key == Head(keys)
<1>1. /\ step = "lookup" /\ keys # <<>> /\ keys' = Tail(keys)
      /\ UNCHANGED <<life, tid, entry, counted, broken, step, previous, reported>>
      /\ \/ key \notin InMap /\ UNCHANGED <<samples, exempt>>
         \/ key \in InMap /\ samples' = Append(samples, entry[key]) /\ UNCHANGED exempt
         \/ /\ key \in InMap /\ UNCHANGED samples
            /\ exempt' = exempt \cup (IF reported[entry[key].start] > 0
                                      THEN {entry[key].start} ELSE {})
  BY DEF LookUp, kernel
<1>2. keys \in Seq(Tids) /\ samples \in Seq(Samples) /\ key \in Tids /\ keys' \in Seq(Tids)
  BY <1>1 DEF TypeOK
<1>3. key \in InMap => entry[key] \in Samples /\ tid[entry[key].start] = key
                        /\ entry[key].count = Entry(entry[key].start)
  BY <1>2 DEF InMap, TypeOK, KernelInv, Samples, NoEntry, Entry
<1> HIDE DEF key
<1>13. exempt \subseteq exempt' /\ exempt' \subseteq Threads
  BY <1>1, <1>3 DEF TypeOK, Samples
<1>14. samples' \in Seq(Samples)
  <2>1. CASE samples' = samples
    BY <1>2, <2>1
  <2>2. CASE key \in InMap /\ samples' = Append(samples, entry[key])
    BY <1>2, <1>3, <2>2
  <2> QED
    BY <1>1, <2>1, <2>2
<1>4. TypeOK'
  <2>1. step' \in {"wait", "keys", "lookup"} /\ keys' \in Seq(Tids) /\ exempt' \subseteq Threads
    BY <1>1, <1>2, <1>13
  <2>2. UNCHANGED <<life, tid, entry, counted, broken, step, previous, reported>>
    BY <1>1
  <2> QED
    BY <1>14, <2>1, <2>2 DEF TypeOK, Samples, Counts
<1>5. \A i \in Threads : Entry(i)' = Entry(i) /\ Base(i)' = Base(i)
  BY <1>1 DEF Entry, Base
<1>6. KernelInv'
  BY <1>1, <1>5 DEF KernelInv
<1>7. /\ Len(samples) \in Nat
      /\ \A n \in 1..Len(samples) : n \in 1..Len(samples') /\ samples'[n] = samples[n]
      /\ \A n \in 1..Len(samples') : n \notin 1..Len(samples) =>
           n = Len(samples) + 1 /\ key \in InMap /\ samples'[n] = entry[key]
  BY <1>1, <1>2, <1>3
<1>8. ASSUME NEW i \in Threads
      PROVE  /\ SamplesOf(i) \subseteq SamplesOf(i)'
             /\ \A n \in SamplesOf(i) : samples'[n] = samples[n]
             /\ Once(i)' => Once(i)
             /\ \A n \in SamplesOf(i)' : n \notin SamplesOf(i) =>
                  /\ samples'[n].count = Entry(i)
                  /\ Once(i)' => SamplesOf(i) = {}
  <2>1. /\ SamplesOf(i) \subseteq SamplesOf(i)'
        /\ \A n \in SamplesOf(i) : samples'[n] = samples[n]
    BY <1>7 DEF SamplesOf
  <2>2. ASSUME NEW n \in SamplesOf(i)', n \notin SamplesOf(i)
        PROVE  samples'[n].count = Entry(i)
    BY <1>3, <1>7, <2>2 DEF SamplesOf
  <2> QED
    BY <2>1, <2>2 DEF Once
<1>9. ASSUME NEW i \in Threads
      PROVE  Entry(i) \in Nat /\ Base(i) \in Int /\ reported[i] \in Nat /\ previous[i] \in Counts
  BY EntryFacts DEF TypeOK
<1>10. ReportInv'
  <2> SUFFICES ASSUME NEW i \in Threads \ exempt'
               PROVE  /\ Backed(i, reported[i], previous[i])
                      /\ \A n \in SamplesOf(i)' : Once(i)' =>
                           Backed(i, reported[i] + Delta(samples'[n].count, previous[i]),
                                  samples'[n].count)
    BY <1>1, <1>5 DEF ReportInv, Backed, Delta
  <2>0. i \in Threads \ exempt
    BY <1>13
  <2>1. Backed(i, reported[i], previous[i])
    BY <2>0 DEF ReportInv
  <2>2. ASSUME NEW n \in SamplesOf(i)', Once(i)'
        PROVE  Backed(i, reported[i] + Delta(samples'[n].count, previous[i]), samples'[n].count)
    <3>1. CASE n \in SamplesOf(i)
      BY <1>8, <2>0, <2>2, <3>1 DEF ReportInv
    <3>2. CASE n \notin SamplesOf(i)
      <4> DEFINE e == Entry(i)
                 d == Delta(e, previous[i])
      <4>1. samples'[n].count = e
        BY <1>8, <3>2
      <4>2. /\ d \in Nat /\ d <= e
            /\ previous[i] # Unknown /\ previous[i] <= e => d = e - previous[i]
        BY <1>9, DeltaFacts
      <4> HIDE DEF d
      <4>3. Backed(i, reported[i] + d, e)
        BY <1>9, <2>1, <4>2 DEF Backed, Counts, Unknown
      <4> QED
        BY <4>1, <4>3 DEF d
    <3> QED
      BY <3>1, <3>2
  <2> QED
    BY <2>1, <2>2
<1>11. WalkInv'
  <2> SUFFICES ASSUME NEW i \in Threads \ exempt', reported[i] > Base(i)
               PROVE  Covered(i)'
    BY <1>1, <1>5 DEF WalkInv
  <2>0. i \in Threads \ exempt /\ reported[i] > 0
    BY <1>9, <1>13 DEF KernelInv
  <2>1. tid[i] \in InMap /\ Entry(i) > 0 /\ Covered(i) /\ tid'[i] = tid[i] /\ step' = "lookup"
    BY <1>1, <2>0, NoneAboveEntry DEF WalkInv
  <2>2. CASE SamplesOf(i) # {}
    BY <1>8, <2>1, <2>2 DEF Covered
  <2>3. CASE tid[i] = key
    <3>0. key \in InMap /\ entry[key].start = i
      BY <2>1, <2>3, EntryFacts
    <3>1. samples' = Append(samples, entry[key]) /\ entry[key].start = i
      BY <1>1, <2>0, <3>0
    <3>2. Len(samples) + 1 \in SamplesOf(i)'
      BY <1>2, <1>3, <2>1, <2>3, <3>1 DEF SamplesOf
    <3> QED
      BY <2>1, <3>2 DEF Covered
  <2>4. CASE tid[i] # key /\ \E n \in 1..Len(keys) : keys[n] = tid[i]
    <3>1. PICK n \in 1..Len(keys) : keys[n] = tid[i]
      BY <2>4
    <3>2. n # 1
      BY <2>4, <3>1 DEF key
    <3>3. n - 1 \in 1..Len(keys') /\ keys'[n - 1] = tid[i]
      BY <1>1, <1>2, <3>1, <3>2
    <3> QED
      BY <2>1, <3>3 DEF Covered
  <2> QED
    BY <1>1, <2>1, <2>2, <2>3, <2>4 DEF Covered
<1>12. SameInv'
  <2> SUFFICES ASSUME NEW i \in Threads \ (exempt' \cup broken)
               PROVE  /\ previous[i] = Unknown => reported[i] = 0
                      /\ previous[i] # Unknown =>
                           reported[i] = previous[i] /\ previous[i] <= Entry(i)
                      /\ \A n \in SamplesOf(i)' :
                           previous[i] <= samples'[n].count /\ samples'[n].count <= Entry(i)
    <3>1. UNCHANGED <<broken, previous, reported>>
      BY <1>1
    <3> QED
      BY <1>5, <3>1 DEF SameInv
  <2>0. i \in Threads \ (exempt \cup broken)
    BY <1>13
  <2>1. ASSUME NEW n \in SamplesOf(i)'
        PROVE  previous[i] <= samples'[n].count /\ samples'[n].count <= Entry(i)
    <3>1. CASE n \in SamplesOf(i)
      BY <1>8, <2>0, <3>1 DEF SameInv
    <3>2. CASE n \notin SamplesOf(i)
      BY <1>8, <1>9, <2>0, <3>2 DEF SameInv, Counts, Unknown
    <3> QED
      BY <3>1, <3>2
  <2> QED
    BY <2>0, <2>1 DEF SameInv
<1> QED
  BY <1>4, <1>6, <1>10, <1>11, <1>12

LEMMA GreatestOfOne ==
  ASSUME NEW n \in Nat
  PROVE  Max({n}) = n
BY DEF Max

LEMMA Greatest ==
  ASSUME NEW N \in Nat, NEW S, S \subseteq 1..N, S # {}
  PROVE  Max(S) \in S
<1> DEFINE T == {k \in 0..N : N - k \in S}
<1>1. PICK m \in T : \A k \in T : m <= k
  <2>1. PICK n \in S : n \in 1..N
    OBVIOUS
  <2>2. N - n \in 0..N /\ N - (N - n) = n
    BY <2>1
  <2>3. T \subseteq Nat /\ T # {}
    <3>1. N - n \in T
      BY <2>1, <2>2
    <3>2. \A k \in T : k \in 0..N
      BY Zenon
    <3>3. \A k \in 0..N : k \in Nat
      OBVIOUS
    <3> HIDE DEF T
    <3> QED
      BY <3>1, <3>2, <3>3, Zenon
  <2> QED
    BY <2>3, Least
<1>2. ASSUME NEW n \in S PROVE N - m >= n
  <2>1. n \in 1..N /\ N - n \in 0..N /\ N - (N - n) = n
    OBVIOUS
  <2>2. N - n \in T
    BY <2>1
  <2>3. m <= N - n /\ m \in 0..N
    BY <1>1, <2>2
  <2> QED
    BY <2>1, <2>3
<1> QED
  BY <1>1, <1>2, Zenon DEF Max

LEMMA ComputeStep ==
  ASSUME Inv, Compute
  PROVE  Inv'
<1> USE DEF Inv
<1>1. /\ step = "lookup" /\ keys = <<>> /\ step' = "wait" /\ samples' = <<>>
      /\ UNCHANGED <<life, tid, entry, counted, broken, keys>>
  BY DEF Compute, kernel
<1>2. /\ reported' = [i \in Threads |-> reported[i] + Deltas(i)]
      /\ previous' = [i \in Threads |-> IF SamplesOf(i) = {} THEN Unknown
                                        ELSE samples[Max(SamplesOf(i))].count]
      /\ exempt' = exempt \cup {i \in Threads : \E m, n \in SamplesOf(i) : m # n}
  BY DEF Compute
<1>3. ASSUME NEW i \in Threads
      PROVE  /\ Entry(i) \in Nat /\ Base(i) \in Int
             /\ Entry(i)' = Entry(i) /\ Base(i)' = Base(i) /\ SamplesOf(i)' = {}
             /\ reported[i] \in Nat /\ previous[i] \in Counts /\ Deltas(i) \in Nat
             /\ reported'[i] = reported[i] + Deltas(i)
  <2>1. Entry(i)' = Entry(i) /\ Base(i)' = Base(i)
    BY <1>1 DEF Entry, Base
  <2>2. SamplesOf(i)' = {}
    BY <1>1 DEF SamplesOf
  <2>3. reported[i] \in Nat /\ previous[i] \in Counts
    BY DEF TypeOK
  <2>4. reported'[i] = reported[i] + Deltas(i)
    BY <1>2
  <2> QED
    BY <2>1, <2>2, <2>3, <2>4, EntryFacts, DeltasFacts
<1>4. ASSUME NEW i \in Threads \ exempt'
      PROVE  /\ i \notin exempt /\ Once(i)
             /\ \/ SamplesOf(i) = {} /\ previous'[i] = Unknown /\ Deltas(i) = 0
                \/ \E n \in SamplesOf(i) : /\ previous'[i] = samples[n].count
                                            /\ Deltas(i) = Delta(samples[n].count, previous[i])
  <2>1. i \notin exempt /\ Once(i)
    BY <1>2 DEF Once
  <2>2. CASE SamplesOf(i) = {}
    BY <1>2, <2>1, <2>2, DeltasFacts
  <2>3. CASE SamplesOf(i) # {}
    <3>1. PICK n \in SamplesOf(i) : TRUE
      BY <2>3
    <3>2. SamplesOf(i) = {n} /\ n \in Nat
      BY <2>1, <3>1 DEF Once, SamplesOf
    <3>3. previous'[i] = samples[n].count
      BY <1>2, <3>2, GreatestOfOne
    <3>4. Deltas(i) = Delta(samples[n].count, previous[i])
      BY <2>1, <3>1, DeltasFacts
    <3> QED
      BY <2>1, <3>1, <3>3, <3>4
  <2> QED
    BY <2>2, <2>3
<1>5. TypeOK'
  <2>1. reported' \in [Threads -> Nat]
    BY <1>2, <1>3
  <2>2. ASSUME NEW i \in Threads PROVE previous'[i] \in Counts
    <3>1. CASE SamplesOf(i) = {}
      BY <1>2, <3>1 DEF Counts
    <3>2. CASE SamplesOf(i) # {}
      <4>1. Max(SamplesOf(i)) \in SamplesOf(i)
        <5>1. SamplesOf(i) \subseteq 1..Len(samples) /\ Len(samples) \in Nat
          BY DEF SamplesOf, TypeOK
        <5> QED
          BY <3>2, <5>1, Greatest
      <4> QED
        BY <1>2, <3>2, <4>1, SampleFacts DEF Counts
    <3> QED
      BY <3>1, <3>2
  <2>3. previous' \in [Threads -> Counts]
    BY <1>2, <2>2
  <2>4. exempt' \subseteq Threads
    BY <1>2 DEF TypeOK
  <2> QED
    BY <1>1, <2>1, <2>3, <2>4 DEF TypeOK
<1>6. KernelInv'
  BY <1>1, <1>3 DEF KernelInv
<1>7. ASSUME NEW i \in Threads \ exempt', SamplesOf(i) = {}
      PROVE  reported[i] <= Base(i)
  <2>1. ~Covered(i)
    BY <1>1, <1>7 DEF Covered
  <2> QED
    BY <1>3, <1>4, <2>1 DEF WalkInv
<1>8. ReportInv'
  <2> SUFFICES ASSUME NEW i \in Threads \ exempt'
               PROVE  Backed(i, reported[i], previous[i])'
    BY <1>3 DEF ReportInv
  <2>1. CASE SamplesOf(i) = {}
    <3>1. Deltas(i) = 0
      BY <1>4, <2>1
    <3> QED
      BY <1>3, <1>7, <2>1, <3>1 DEF Backed
  <2>2. CASE SamplesOf(i) # {}
    <3>1. PICK n \in SamplesOf(i) : /\ previous'[i] = samples[n].count
                                   /\ Deltas(i) = Delta(samples[n].count, previous[i])
      BY <1>4, <2>2
    <3>2. Backed(i, reported[i] + Deltas(i), samples[n].count)
      BY <1>4, <3>1 DEF ReportInv
    <3> QED
      BY <1>3, <3>1, <3>2 DEF Backed
  <2> QED
    BY <2>1, <2>2
<1>9. WalkInv'
  BY <1>1 DEF WalkInv, Covered
<1>10. SameInv'
  <2> SUFFICES ASSUME NEW i \in Threads \ exempt', i \notin broken
               PROVE  /\ previous'[i] = Unknown => reported'[i] = 0
                      /\ previous'[i] # Unknown =>
                           reported'[i] = previous'[i] /\ previous'[i] <= Entry(i)
    BY <1>1, <1>3 DEF SameInv
  <2>1. Base(i) = 0
    BY DEF KernelInv
  <2>2. CASE SamplesOf(i) = {}
    <3>1. Deltas(i) = 0 /\ previous'[i] = Unknown /\ reported[i] <= 0
      BY <1>4, <1>7, <2>1, <2>2
    <3> QED
      BY <1>3, <3>1
  <2>3. CASE SamplesOf(i) # {}
    <3>1. PICK n \in SamplesOf(i) : /\ previous'[i] = samples[n].count
                                   /\ Deltas(i) = Delta(samples[n].count, previous[i])
      BY <1>4, <2>3
    <3>2. samples[n].count \in Nat
      BY SampleFacts
    <3>3. /\ previous[i] = Unknown => reported[i] = 0
          /\ previous[i] # Unknown => reported[i] = previous[i]
          /\ previous[i] <= samples[n].count /\ samples[n].count <= Entry(i)
      BY <1>4 DEF SameInv
    <3>4. /\ previous[i] # Unknown => Deltas(i) = samples[n].count - previous[i]
          /\ previous[i] = Unknown => Deltas(i) = samples[n].count
      BY <1>3, <3>1, <3>2, <3>3, DeltaFacts
    <3> QED
      BY <1>3, <3>1, <3>2, <3>3, <3>4 DEF Counts, Unknown
  <2> QED
    BY <2>2, <2>3
<1> QED
  BY <1>5, <1>6, <1>8, <1>9, <1>10
-----------------------------------------------------------------------------
LEMMA Invariant == Spec => []Inv
<1>1. Init => Inv
  <2> SUFFICES ASSUME Init PROVE Inv
    OBVIOUS
  <2>1. TypeOK
    BY Bounds DEF Init, TypeOK, Samples, Counts
  <2>2. KernelInv /\ \A i \in Threads : Base(i) = 0
    BY Bounds DEF Init, KernelInv, Base, Entry, NoEntry
  <2>3. \A i \in Threads : SamplesOf(i) = {}
    BY DEF Init, SamplesOf
  <2>4. ReportInv
    BY <2>2, <2>3 DEF Init, ReportInv, Backed
  <2>5. WalkInv
    BY <2>2 DEF Init, WalkInv
  <2>6. SameInv
    BY <2>3 DEF Init, SameInv
  <2> QED
    BY <2>1, <2>2, <2>4, <2>5, <2>6 DEF Inv
<1>2. Inv /\ [Next]_vars => Inv'
  <2> SUFFICES ASSUME Inv, [Next]_vars PROVE Inv'
    OBVIOUS
  <2>1. CASE TypeOK' /\ KernelInv' /\ AllGrow
    BY <2>1, KernelKeepsBooks DEF Inv
  <2>2. CASE \E i \in Threads, t \in Tids : Born(i, t)
    BY <2>1, <2>2, BornStep DEF Inv
  <2>3. CASE \E i \in Threads : SchedEvent(i) \/ LastSwitch(i)
    BY <2>1, <2>3, EventStep DEF Inv
  <2>4. CASE \E i \in Threads : ProcessExit(i)
    BY <2>1, <2>4, ExitStep DEF Inv
  <2>5. CASE Cycle
    BY <2>5, CollectStep, LookUpStep, ComputeStep DEF Cycle
  <2>6. CASE UNCHANGED vars
    <3>1. UNCHANGED <<life, tid, entry, counted, broken, step, keys, samples, previous, reported, exempt>>
      BY <2>6 DEF vars, kernel, agent
    <3> QED
      BY <3>1 DEF Inv, TypeOK, KernelInv, ReportInv, WalkInv, SameInv, Base, Entry, Backed,
                  SamplesOf, Once, Delta, Covered
  <2> QED
    BY <2>2, <2>3, <2>4, <2>5, <2>6 DEF Next
<1> QED
  BY <1>1, <1>2, PTL DEF Spec

(* The kernel's map and the agent's books always have the shape they       *)
(* should.                                                                 *)
THEOREM TypeCorrect == Spec => []TypeOK
<1>1. Inv => TypeOK
  BY DEF Inv
<1> QED
  BY <1>1, Invariant, PTL

(* For any number of threads, ids and map entries, however short-lived the *)
(* threads and however their ids are reused while the agent walks the map: *)
(* what is reported of a thread never exceeds what it did, and is exactly  *)
(* what was last seen of it while its entry stands.                        *)
THEOREM NothingInvented == Spec => []DeltasAddUp
<1>1. Inv => DeltasAddUp
  <2> SUFFICES ASSUME Inv, NEW i \in Threads \ exempt
               PROVE  /\ reported[i] <= counted[i]
                      /\ i \notin broken /\ previous[i] # Unknown => reported[i] = previous[i]
    BY DEF DeltasAddUp
  <2>1. Backed(i, reported[i], previous[i]) /\ reported[i] \in Nat /\ previous[i] \in Counts
    BY DEF Inv, ReportInv, TypeOK
  <2>2. Entry(i) \in Nat /\ Base(i) \in Int /\ counted[i] = Base(i) + Entry(i)
    BY EntryFacts DEF Inv
  <2>3. reported[i] <= counted[i]
    BY <2>1, <2>2 DEF Backed, Counts, Unknown
  <2> QED
    BY <2>3 DEF Inv, SameInv
<1> QED
  BY <1>1, Invariant, PTL
=============================================================================
