------------------------- MODULE AgentSkillsProofs -------------------------
(***************************************************************************)
(* What AgentSkills guarantees for any skills, dependencies and faults,    *)
(* any number of agents and of actions of others: the order of the start   *)
(* respects the dependencies, manager and skills keep SkillContract, an    *)
(* agent that ends leaves nothing of its own, and takes nothing away that  *)
(* is not its own.                                                         *)
(***************************************************************************)
EXTENDS AgentSkills, WellFoundedInduction, TLAPS

(* Induction over numbers: a set of them has a least element.              *)
LEMMA Least ==
  ASSUME NEW T, T \subseteq Nat, T # {}
  PROVE  \E n \in T : \A m \in T : n <= m
<1>1. \E n \in T : \A m \in T : ~(<<m, n>> \in OpToRel(<, Nat))
  BY NatLessThanWellFounded, WFMin, Zenon
<1>2. \A m, n \in T : <<m, n>> \in OpToRel(<, Nat) <=> m < n
  BY Zenon DEF OpToRel
<1>3. \E n \in T : \A m \in T : ~(m < n)
  BY <1>1, <1>2, Zenon
<1> QED
  BY <1>3

LEMMA Induction ==
  ASSUME NEW N \in Nat, NEW T, 0 \in T, \A m \in 1..N : m - 1 \in T => m \in T
  PROVE  \A m \in 0..N : m \in T
<1> DEFINE Missing == {m \in 0..N : m \notin T}
<1> SUFFICES ASSUME Missing # {} PROVE FALSE
  OBVIOUS
<1>1. PICK m \in Missing : \A k \in Missing : m <= k
  <2>1. Missing \subseteq Nat
    OBVIOUS
  <2> HIDE DEF Missing
  <2> QED
    BY <2>1, Least
<1>2. m # 0 /\ m - 1 \notin Missing
  BY <1>1
<1> QED
  BY <1>1, <1>2
-----------------------------------------------------------------------------
(* The recursive functions of the sort are what their definitions say.     *)
Chosen(L, S) ==
  L = [n \in 0..Len(config.list) |->
         IF n = 0 THEN <<>>
         ELSE IF config.list[n] \in S THEN Append(L[n - 1], config.list[n])
         ELSE L[n - 1]]

LEMMA ListedExists ==
  ASSUME NEW X, config.list \in Seq(X), NEW S
  PROVE  \E L : Chosen(L, S) /\ Listed(S) = L[Len(config.list)]
<1> DEFINE N == Len(config.list)
           Step(l, n) == IF n = 0 THEN <<>>
                         ELSE IF config.list[n] \in S THEN Append(l[n - 1], config.list[n])
                         ELSE l[n - 1]
           T == {m \in 0..N : \E l : l = [n \in 0..m |-> Step(l, n)]}
           L == CHOOSE l : l = [n \in 0..N |-> Step(l, n)]
<1>0. N \in Nat
  OBVIOUS
<1>1. Listed(S) = L[N]
  BY Zenon DEF Listed
<1>2. 0 \in T
  <2>1. [n \in 0..0 |-> <<>>] = [n \in 0..0 |-> Step([k \in 0..0 |-> <<>>], n)]
    OBVIOUS
  <2> HIDE DEF Step, N
  <2> QED
    BY <1>0, <2>1
<1>3. ASSUME NEW m \in 1..N, m - 1 \in T
      PROVE  m \in T
  <2>1. PICK l : l = [n \in 0..m - 1 |-> Step(l, n)]
    BY <1>3
  <2> DEFINE h == [n \in 0..m |-> IF n = m THEN Step(l, m) ELSE l[n]]
  <2>2. \A n \in 0..m : h[n] = Step(h, n)
    <3> SUFFICES ASSUME NEW n \in 0..m PROVE h[n] = Step(h, n)
      OBVIOUS
    <3>1. n # 0 => h[n - 1] = l[n - 1]
      OBVIOUS
    <3>2. \A k \in 0..m - 1 : l[k] = Step(l, k)
      <4> HIDE DEF Step
      <4> QED BY <2>1
    <3>3. h[n] = Step(l, n)
      <4> HIDE DEF Step
      <4> QED BY <3>2
    <3> HIDE DEF h
    <3> QED
      BY <3>1, <3>3
  <2>3. h = [n \in 0..m |-> Step(h, n)]
    <3>1. h = [n \in 0..m |-> h[n]]
      OBVIOUS
    <3> HIDE DEF h, Step
    <3> QED
      BY <2>2, <3>1
  <2> HIDE DEF h, Step, N
  <2> QED
    BY <1>0, <2>3
<1>4. N \in T
  <2> HIDE DEF T, N
  <2>1. \A m \in 1..N : m - 1 \in T => m \in T
    BY <1>3
  <2>2. \A m \in 0..N : m \in T
    BY <1>0, <1>2, <2>1, Induction
  <2> QED
    BY <1>0, <2>2
<1>5. L = [n \in 0..N |-> Step(L, n)]
  BY <1>4, Zenon
<1> QED
  BY <1>1, <1>5, Zenon DEF Chosen

SortStep(F) ==
  F = [k \in 0..Len(config.list) |->
         IF k = 0
         THEN [ready |-> Listed({s \in config.enabled : config.deps[s] = {}}), done |-> <<>>]
         ELSE Pop[F[k - 1]]]

LEMMA SortedExists ==
  ASSUME NEW X, config.list \in Seq(X)
  PROVE  SortStep(Sorted)
<1> DEFINE N == Len(config.list)
           Step(l, n) == IF n = 0
                         THEN [ready |-> Listed({s \in config.enabled : config.deps[s] = {}}), done |-> <<>>]
                         ELSE Pop[l[n - 1]]
           T == {m \in 0..N : \E l : l = [n \in 0..m |-> Step(l, n)]}
<1>0. N \in Nat
  OBVIOUS
<1>1. Sorted = CHOOSE l : l = [n \in 0..N |-> Step(l, n)]
  BY Zenon DEF Sorted
<1>2. 0 \in T
  <2> DEFINE e == [ready |-> Listed({s \in config.enabled : config.deps[s] = {}}), done |-> <<>>]
  <2>1. [n \in 0..0 |-> e] = [n \in 0..0 |-> Step([k \in 0..0 |-> e], n)]
    OBVIOUS
  <2> HIDE DEF Step, N
  <2> QED
    BY <1>0, <2>1
<1>3. ASSUME NEW m \in 1..N, m - 1 \in T
      PROVE  m \in T
  <2>1. PICK l : l = [n \in 0..m - 1 |-> Step(l, n)]
    BY <1>3
  <2> DEFINE h == [n \in 0..m |-> IF n = m THEN Step(l, m) ELSE l[n]]
  <2>2. \A n \in 0..m : h[n] = Step(h, n)
    <3> SUFFICES ASSUME NEW n \in 0..m PROVE h[n] = Step(h, n)
      OBVIOUS
    <3>1. n # 0 => h[n - 1] = l[n - 1]
      OBVIOUS
    <3>2. \A k \in 0..m - 1 : l[k] = Step(l, k)
      <4> HIDE DEF Step
      <4> QED BY <2>1
    <3>3. h[n] = Step(l, n)
      <4> HIDE DEF Step
      <4> QED BY <3>2
    <3> HIDE DEF h
    <3> QED
      BY <3>1, <3>3
  <2>3. h = [n \in 0..m |-> Step(h, n)]
    <3>1. h = [n \in 0..m |-> h[n]]
      OBVIOUS
    <3> HIDE DEF h, Step
    <3> QED
      BY <2>2, <3>1
  <2> HIDE DEF h, Step, N
  <2> QED
    BY <1>0, <2>3
<1>4. N \in T
  <2> HIDE DEF T, N
  <2>1. \A m \in 1..N : m - 1 \in T => m \in T
    BY <1>3
  <2>2. \A m \in 0..N : m \in T
    BY <1>0, <1>2, <2>1, Induction
  <2> QED
    BY <1>0, <2>2
<1>5. Sorted = [n \in 0..N |-> Step(Sorted, n)]
  BY <1>1, <1>4, Zenon
<1> QED
  BY <1>5, Zenon DEF SortStep
-----------------------------------------------------------------------------
(* The sort.                                                               *)
Distinct(s) == \A i, j \in 1..Len(s) : s[i] = s[j] => i = j
Members(s)  == {s[i] : i \in 1..Len(s)}

GoodConfig ==
  /\ config.list \in Seq(Skills) /\ Distinct(config.list)
  /\ config.enabled \subseteq Skills
  /\ \A s \in Skills : config.deps[s] \subseteq Skills

LEMMA EmptyFacts ==
  ASSUME NEW X
  PROVE  <<>> \in Seq(X) /\ Distinct(<<>>) /\ Members(<<>>) = {}
BY DEF Distinct, Members

LEMMA AppendFacts ==
  ASSUME NEW X, NEW s \in Seq(X), NEW x \in X
  PROVE  /\ Append(s, x) \in Seq(X) /\ Len(Append(s, x)) = Len(s) + 1
         /\ \A i \in 1..Len(s) : Append(s, x)[i] = s[i]
         /\ Append(s, x)[Len(s) + 1] = x
         /\ Members(Append(s, x)) = Members(s) \cup {x}
         /\ Distinct(s) /\ x \notin Members(s) => Distinct(Append(s, x))
<1>1. /\ Append(s, x) \in Seq(X) /\ Len(Append(s, x)) = Len(s) + 1
      /\ \A i \in 1..Len(s) : Append(s, x)[i] = s[i]
      /\ Append(s, x)[Len(s) + 1] = x
  OBVIOUS
<1> QED
  BY <1>1 DEF Members, Distinct

LEMMA ConcatFacts ==
  ASSUME NEW X, NEW a \in Seq(X), NEW b \in Seq(X), Distinct(a), Distinct(b),
         Members(a) \cap Members(b) = {}
  PROVE  /\ a \o b \in Seq(X) /\ Distinct(a \o b)
         /\ Members(a \o b) = Members(a) \cup Members(b)
<1> DEFINE r == a \o b
<1>1. /\ r \in Seq(X) /\ Len(r) = Len(a) + Len(b)
      /\ \A i \in 1..Len(r) : r[i] = IF i <= Len(a) THEN a[i] ELSE b[i - Len(a)]
  OBVIOUS
<1> HIDE DEF r
<1>2. Len(a) \in Nat /\ Len(b) \in Nat
  OBVIOUS
<1>3. \A i \in 1..Len(a) : i \in 1..Len(r) /\ r[i] = a[i] /\ r[i] \in Members(a)
  BY <1>1, <1>2 DEF Members
<1>4. \A i \in 1..Len(r) : i > Len(a) => /\ i - Len(a) \in 1..Len(b)
                                        /\ r[i] = b[i - Len(a)]
  BY <1>1, <1>2
<1>5. \A i \in 1..Len(r) : i > Len(a) => r[i] \in Members(b)
  BY <1>4 DEF Members
<1>6. Distinct(r)
  <2> SUFFICES ASSUME NEW i \in 1..Len(r), NEW j \in 1..Len(r), r[i] = r[j] PROVE i = j
    BY DEF Distinct
  <2>1. CASE i <= Len(a) /\ j <= Len(a)
    BY <1>2, <1>3, <2>1 DEF Distinct
  <2>2. CASE i > Len(a) /\ j > Len(a)
    <3>1. i - Len(a) = j - Len(a)
      BY <1>4, <2>2 DEF Distinct
    <3> QED
      BY <1>2, <3>1
  <2>3. CASE i <= Len(a) /\ j > Len(a)
    BY <1>2, <1>3, <1>5, <2>3
  <2>4. CASE i > Len(a) /\ j <= Len(a)
    BY <1>2, <1>3, <1>5, <2>4
  <2> QED
    BY <1>2, <2>1, <2>2, <2>3, <2>4
<1>7. Members(r) \subseteq Members(a) \cup Members(b)
  BY <1>2, <1>3, <1>5 DEF Members
<1>8. \A i \in 1..Len(b) : b[i] \in Members(r)
  <2> SUFFICES ASSUME NEW i \in 1..Len(b) PROVE b[i] \in Members(r)
    OBVIOUS
  <2>1. PICK k \in 1..Len(r) : k > Len(a) /\ k - Len(a) = i
    <3>1. /\ Len(a) + i \in 1..Len(r) /\ Len(a) + i > Len(a)
          /\ (Len(a) + i) - Len(a) = i
      BY <1>1, <1>2
    <3> QED
      BY <3>1
  <2>2. r[k] = b[i]
    BY <1>4, <2>1
  <2> QED
    BY <2>2 DEF Members
<1>9. Members(a) \subseteq Members(r)
  BY <1>3 DEF Members
<1> QED
  BY <1>1, <1>6, <1>7, <1>8, <1>9 DEF r, Members

(* What is listed for S is in S, in no position twice.                     *)
LEMMA ListedFacts ==
  ASSUME GoodConfig, NEW S
  PROVE  /\ Listed(S) \in Seq(Skills) /\ Distinct(Listed(S))
         /\ Members(Listed(S)) \subseteq S
<1> DEFINE N == Len(config.list)
<1>0. N \in Nat /\ \A n \in 1..N : config.list[n] \in Skills
  BY DEF GoodConfig
<1>1. PICK L : Chosen(L, S) /\ Listed(S) = L[N]
  BY ListedExists DEF GoodConfig
<1> DEFINE Before(m) == {config.list[n] : n \in 1..m}
           T == {m \in 0..N : /\ L[m] \in Seq(Skills) /\ Distinct(L[m])
                              /\ Members(L[m]) \subseteq S \cap Before(m)}
<1>2. 0 \in T
  <2>1. L[0] = <<>>
    BY <1>0, <1>1 DEF Chosen
  <2>2. 0 \in 0..N
    BY <1>0
  <2>3. L[0] \in Seq(Skills) /\ Distinct(L[0]) /\ Members(L[0]) = {}
    BY <2>1, EmptyFacts
  <2> HIDE DEF N, Before
  <2> QED
    BY <2>2, <2>3
<1>3. ASSUME NEW m \in 1..N, m - 1 \in T
      PROVE  m \in T
  <2>1. L[m] = IF config.list[m] \in S THEN Append(L[m - 1], config.list[m]) ELSE L[m - 1]
    <3>1. m \in 0..Len(config.list) /\ m # 0
      BY <1>0
    <3> QED
      BY <1>1, <3>1, Zenon DEF Chosen
  <2>2. /\ L[m - 1] \in Seq(Skills) /\ Distinct(L[m - 1])
        /\ Members(L[m - 1]) \subseteq S \cap Before(m - 1)
    BY <1>3
  <2>3. Before(m) = Before(m - 1) \cup {config.list[m]}
    BY <1>0
  <2>4. config.list[m] \notin Before(m - 1)
    BY <1>0 DEF GoodConfig, Distinct
  <2>5. config.list[m] \in Skills /\ m \in 0..N
    BY <1>0
  <2> HIDE DEF Before, N
  <2>6. CASE config.list[m] \in S
    <3>1. L[m] = Append(L[m - 1], config.list[m])
      BY <2>1, <2>6
    <3>2. config.list[m] \notin Members(L[m - 1])
      BY <2>2, <2>4
    <3>3. L[m] \in Seq(Skills) /\ Distinct(L[m])
          /\ Members(L[m]) = Members(L[m - 1]) \cup {config.list[m]}
      BY <2>2, <2>5, <3>1, <3>2, AppendFacts
    <3> QED
      BY <2>2, <2>3, <2>5, <2>6, <3>3
  <2>7. CASE config.list[m] \notin S
    BY <2>1, <2>2, <2>3, <2>5, <2>7
  <2> QED
    BY <2>6, <2>7
<1>4. N \in T
  <2> HIDE DEF T, N
  <2>1. \A m \in 1..N : m - 1 \in T => m \in T
    BY <1>3
  <2>2. \A m \in 0..N : m \in T
    BY <1>0, <1>2, <2>1, Induction
  <2> QED
    BY <1>0, <2>2
<1> QED
  BY <1>1, <1>4

(* The skills a sequence of skills starts depend on skills before them.    *)
Sound(o) ==
  /\ o \in Seq(Skills) /\ Distinct(o)
  /\ \A i \in 1..Len(o) : /\ o[i] \in config.enabled
                          /\ config.deps[o[i]] \subseteq {o[j] : j \in 1..i - 1}

(* What is ready depends on what is done only, and is not done.            *)
Ready(q, o) ==
  /\ q \in Seq(Skills) /\ Distinct(q)
  /\ \A s \in Members(q) : /\ s \in config.enabled /\ s \notin Members(o)
                           /\ config.deps[s] \subseteq Members(o)

LEMMA SortKeeps ==
  ASSUME GoodConfig, NEW o, NEW q, Sound(o), Ready(q, o), q # <<>>,
         NEW d, d = Append(o, Head(q)),
         NEW r, r = Tail(q) \o Freed(Head(q), Members(d))
  PROVE  Sound(d) /\ Ready(r, d)
<1> DEFINE skill == Head(q)
           freed == Freed(skill, Members(d))
<1>1. skill = q[1] /\ skill \in Members(q) /\ skill \in Skills /\ o \in Seq(Skills)
  BY DEF Ready, Sound, Members
<1>2. /\ d \in Seq(Skills) /\ Len(d) = Len(o) + 1 /\ Distinct(d)
      /\ \A i \in 1..Len(o) : d[i] = o[i]
      /\ d[Len(o) + 1] = skill
      /\ Members(d) = Members(o) \cup {skill}
  BY <1>1, AppendFacts DEF Ready, Sound
<1>3. Sound(d)
  <2> SUFFICES ASSUME NEW i \in 1..Len(d)
               PROVE  /\ d[i] \in config.enabled
                      /\ config.deps[d[i]] \subseteq {d[j] : j \in 1..i - 1}
    BY <1>2 DEF Sound
  <2>1. CASE i \in 1..Len(o)
    <3>1. {d[j] : j \in 1..i - 1} = {o[j] : j \in 1..i - 1}
      BY <1>1, <1>2, <2>1
    <3> QED
      BY <1>2, <2>1, <3>1 DEF Sound
  <2>2. CASE i = Len(o) + 1
    <3>1. {d[j] : j \in 1..i - 1} = Members(o)
      BY <1>1, <1>2, <2>2 DEF Members
    <3> QED
      BY <1>1, <1>2, <2>2, <3>1 DEF Ready
  <2>3. i \in 1..Len(o) \/ i = Len(o) + 1
    BY <1>1, <1>2
  <2> QED
    BY <2>1, <2>2, <2>3
<1>4. /\ freed \in Seq(Skills) /\ Distinct(freed)
      /\ \A s \in Members(freed) : /\ s \in config.enabled /\ skill \in config.deps[s]
                                   /\ config.deps[s] \subseteq Members(d)
  BY ListedFacts DEF Freed
<1>5. /\ Tail(q) \in Seq(Skills) /\ Distinct(Tail(q))
      /\ \A s \in Members(Tail(q)) : s \in Members(q) /\ s # skill
  <2>1. /\ Tail(q) \in Seq(Skills) /\ Len(Tail(q)) = Len(q) - 1
        /\ \A i \in 1..Len(Tail(q)) : Tail(q)[i] = q[i + 1]
    BY DEF Ready
  <2> QED
    BY <1>1, <2>1 DEF Ready, Distinct, Members
<1>6. \A s \in Members(freed) : s \notin Members(d) /\ s \notin Members(q)
  <2> SUFFICES ASSUME NEW s \in Members(freed) PROVE s \notin Members(d) /\ s \notin Members(q)
    OBVIOUS
  <2>1. skill \in config.deps[s] /\ skill \notin Members(o)
    BY <1>1, <1>4 DEF Ready
  <2>2. s \notin Members(o)
    <3> SUFFICES ASSUME NEW i \in 1..Len(o), s = o[i] PROVE FALSE
      BY DEF Members
    <3>1. config.deps[s] \subseteq {o[j] : j \in 1..i - 1}
      BY DEF Sound
    <3>2. 1..i - 1 \subseteq 1..Len(o)
      BY <1>1
    <3>3. config.deps[s] \subseteq Members(o)
      BY <3>1, <3>2 DEF Members
    <3> QED
      BY <2>1, <3>3
  <2>3. s \notin Members(q)
    BY <2>1 DEF Ready
  <2> QED
    BY <1>1, <1>2, <2>2, <2>3
<1>7. /\ r \in Seq(Skills) /\ Members(r) = Members(Tail(q)) \cup Members(freed)
      /\ Distinct(r)
  <2>1. Members(Tail(q)) \cap Members(freed) = {}
    BY <1>5, <1>6
  <2> DEFINE a == Tail(q)
  <2>2. r = a \o freed
    OBVIOUS
  <2>3. /\ a \in Seq(Skills) /\ freed \in Seq(Skills) /\ Distinct(a) /\ Distinct(freed)
        /\ Members(a) \cap Members(freed) = {}
    BY <1>4, <1>5, <2>1
  <2> HIDE DEF a, freed
  <2>4. /\ a \o freed \in Seq(Skills) /\ Distinct(a \o freed)
        /\ Members(a \o freed) = Members(a) \cup Members(freed)
    BY <2>3, ConcatFacts
  <2> QED
    BY <2>2, <2>4 DEF a
<1>8. Ready(r, d)
  <2> SUFFICES ASSUME NEW s \in Members(r)
               PROVE  /\ s \in config.enabled /\ s \notin Members(d)
                      /\ config.deps[s] \subseteq Members(d)
    BY <1>7 DEF Ready
  <2>1. CASE s \in Members(Tail(q))
    BY <1>2, <1>5, <2>1 DEF Ready
  <2>2. CASE s \in Members(freed)
    BY <1>4, <1>6, <2>2
  <2> QED
    BY <1>7, <2>1, <2>2
<1> QED
  BY <1>3, <1>8

LEMMA SoundStays ==
  ASSUME Sound(order), UNCHANGED config, UNCHANGED order
  PROVE  Sound(order)'
<1>1. order' \in Seq(Skills) /\ Distinct(order)'
  BY DEF Sound, Distinct
<1>2. ASSUME NEW i \in 1..Len(order')
      PROVE  /\ order'[i] \in config'.enabled
             /\ config'.deps[order'[i]] \subseteq {order'[j] : j \in 1..i - 1}
  <2>1. i \in 1..Len(order)
    OBVIOUS
  <2>2. /\ order[i] \in config.enabled
        /\ config.deps[order[i]] \subseteq {order[j] : j \in 1..i - 1}
    BY <2>1, Zenon DEF Sound
  <2> QED
    BY <2>2
<1> QED
  BY <1>1, <1>2, Zenon DEF Sound

(* Every skill is started after the skills that it depends on.             *)
THEOREM OrderIsSound ==
  ASSUME GoodConfig
  PROVE  Sound(StartOrder)
<1> DEFINE N == Len(config.list)
           T == {k \in 0..N : /\ Sorted[k] \in [ready : Seq(Skills), done : Seq(Skills)]
                              /\ Sound(Sorted[k].done) /\ Ready(Sorted[k].ready, Sorted[k].done)}
           e == Listed({s \in config.enabled : config.deps[s] = {}})
<1>0. N \in Nat /\ SortStep(Sorted)
  BY SortedExists DEF GoodConfig
<1>1. Sound(<<>>)
  BY DEF Sound, Distinct
<1>2. 0 \in T
  <2>1. Sorted[0] = [ready |-> e, done |-> <<>>]
    BY <1>0 DEF SortStep
  <2>2. Ready(e, <<>>)
    <3>1. /\ e \in Seq(Skills) /\ Distinct(e)
          /\ Members(e) \subseteq {s \in config.enabled : config.deps[s] = {}}
      BY ListedFacts
    <3> HIDE DEF e
    <3> QED
      BY <3>1, EmptyFacts DEF Ready
  <2>3. e \in Seq(Skills) /\ <<>> \in Seq(Skills)
    BY <2>2, EmptyFacts DEF Ready
  <2> HIDE DEF e
  <2> QED
    <3>1. Sorted[0].ready = e /\ Sorted[0].done = <<>>
      BY <2>1
    <3>2. Sorted[0] \in [ready : Seq(Skills), done : Seq(Skills)]
      BY <2>1, <2>3
    <3>3. 0 \in 0..N
      BY <1>0
    <3> QED
      BY <1>1, <2>2, <3>1, <3>2, <3>3
<1>3. ASSUME NEW k \in 1..N, k - 1 \in T
      PROVE  k \in T
  <2> DEFINE last == Sorted[k - 1]
             d == Append(last.done, Head(last.ready))
             r == Tail(last.ready) \o Freed(Head(last.ready), {d[i] : i \in DOMAIN d})
  <2>1. Sorted[k] = IF last.ready = <<>> THEN last ELSE [ready |-> r, done |-> d]
    <3>1. k \in 0..Len(config.list) /\ k # 0
      BY <1>0
    <3>2. Sorted[k] = Pop[last]
      BY <1>0, <3>1, Zenon DEF SortStep
    <3>3. last \in [ready : Seq(Skills), done : Seq(Skills)]
      BY <1>3
    <3> QED
      BY <3>2, <3>3, Zenon DEF Pop, SortState
  <2>2. Sound(last.done) /\ Ready(last.ready, last.done)
    BY <1>3
  <2>3. CASE last.ready = <<>>
    <3>1. Sorted[k] = Sorted[k - 1]
      BY <2>1, <2>3
    <3>2. k \in 0..N
      BY <1>0
    <3> QED
      BY <1>3, <3>1, <3>2
  <2>4. CASE last.ready # <<>>
    <3>1. d \in Seq(Skills)
      BY <2>2, <2>4 DEF Sound, Ready
    <3>2. {d[i] : i \in DOMAIN d} = Members(d)
      BY <3>1 DEF Members
    <3>3. r = Tail(last.ready) \o Freed(Head(last.ready), Members(d))
      BY <3>2
    <3>4. Sound(d) /\ Ready(r, d)
      <4> HIDE DEF last, r
      <4> QED
        BY <2>2, <2>4, <3>3, SortKeeps
    <3>5. r \in Seq(Skills)
      BY <3>4 DEF Ready
    <3> HIDE DEF d, r
    <3>6. Sorted[k] = [ready |-> r, done |-> d]
      BY <2>1, <2>4
    <3>7. Sorted[k].ready = r /\ Sorted[k].done = d
      BY <3>6
    <3>8. Sorted[k] \in [ready : Seq(Skills), done : Seq(Skills)]
      BY <3>1, <3>5, <3>6
    <3>9. k \in 0..N
      BY <1>0
    <3> QED
      BY <3>4, <3>7, <3>8, <3>9
  <2> QED
    BY <2>3, <2>4
<1>4. N \in T
  <2> HIDE DEF T, N
  <2>1. \A m \in 1..N : m - 1 \in T => m \in T
    BY <1>3
  <2>2. \A m \in 0..N : m \in T
    BY <1>0, <1>2, <2>1, Induction
  <2> QED
    BY <1>0, <2>2
<1> QED
  BY <1>1, <1>4 DEF StartOrder
-----------------------------------------------------------------------------
(* The manager and the skills.                                             *)
Down     == {"rolling_back", "stopping", "ending", "handler"}
Below(n) == {order[j] : j \in 1..n}

ManagerInv ==
  /\ config \in Configs /\ Sound(order) /\ phase \in Phases
  /\ call \in {"none", "start", "rollback", "stop"}
  /\ call = "start" => phase = "starting"
  /\ call \in {"rollback", "stop"} => phase \in Down
  /\ call # "none" => at \in 1..Len(order)
  /\ phase = "starting" => at \in 1..Len(order) + 1
  /\ phase \in Down => at \in 0..Len(order)

(* A skill is in the middle of a call only if it is the one called, and in *)
(* the steps of its start only if that is what was called.                 *)
Busy(step, name, starting) ==
  /\ step # "idle" => call # "none" /\ order[at] = name
  /\ step \in starting => call = "start"

XdpStarting == {"attach", "verify", "look"}
QosStarting == {"hook", "attach", "replace", "verify", "look"}
PolStarting == {"mkdir", "stat", "lease", "attach", "pin", "undo", "cleanup_journal",
                "cleanup_open", "remove_open"}

BusyInv ==
  /\ Busy(xdpAt, "network_xdp", XdpStarting)
  /\ Busy(qosAt, "network_qos", QosStarting)
  /\ Busy(polAt, "network_policy", PolStarting)
  /\ plainRunning \subseteq Plain

(* In a start the skills before the position run, on the way down at most  *)
(* those up to it.                                                         *)
RunningInv ==
  /\ phase = "load" => RunningSkills = {}
  /\ phase = "starting" => RunningSkills = Below(at - 1)
  /\ phase = "running" => RunningSkills \subseteq Below(Len(order))
  /\ phase \in Down => RunningSkills \subseteq Below(at)

LifeInv == ManagerInv /\ BusyInv /\ RunningInv

LEMMA ConfigGood ==
  ASSUME config \in Configs
  PROVE  GoodConfig
BY SkillsAssumption DEF GoodConfig, Distinct

LEMMA LifeInit ==
  ASSUME Init
  PROVE  LifeInv
<1>1. ManagerInv
  BY EmptyFacts DEF Init, ManagerInit, ManagerInv, Sound, Phases, Down, Distinct
<1>2. BusyInv
  BY DEF Init, BusyInv, Busy, XdpInit, QosInit, PolInit, XdpStarting, QosStarting, PolStarting
<1>3. RunningSkills = {}
  BY DEF Init, XdpInit, QosInit, PolInit, RunningSkills
<1> QED
  BY <1>1, <1>2, <1>3 DEF LifeInv, RunningInv, Init, ManagerInit, Down

(* The call that is active ends: a start that is "ok" and nothing else     *)
(* makes the skill run, a rollback or a stop that is "ok" leaves it not    *)
(* running.                                                                *)
Ends(s, result) ==
  /\ call # "none" /\ s = order[at] /\ Return(result)
  /\ result \in Returns
  /\ \/ call = "start" /\ result = "ok" /\ RunningSkills' = RunningSkills \cup {s}
     \/ call = "start" /\ result # "ok" /\ RunningSkills' \in {RunningSkills, RunningSkills \ {s}}
     \/ call # "start" /\ result = "ok" /\ RunningSkills' = RunningSkills \ {s}
     \/ call # "start" /\ result = "thrown" /\ RunningSkills' \in {RunningSkills, RunningSkills \ {s}}

LEMMA RunningChange ==
  ASSUME plainRunning \subseteq Plain
  PROVE  /\ plainRunning' = plainRunning /\ UNCHANGED <<qosRunning, polRunning, xdpRunning>>
              => RunningSkills' = RunningSkills
         /\ plainRunning' = plainRunning /\ UNCHANGED <<qosRunning, polRunning>> =>
              /\ xdpRunning' => RunningSkills' = RunningSkills \cup {"network_xdp"}
              /\ ~xdpRunning' => RunningSkills' = RunningSkills \ {"network_xdp"}
         /\ plainRunning' = plainRunning /\ UNCHANGED <<xdpRunning, polRunning>> =>
              /\ qosRunning' => RunningSkills' = RunningSkills \cup {"network_qos"}
              /\ ~qosRunning' => RunningSkills' = RunningSkills \ {"network_qos"}
         /\ plainRunning' = plainRunning /\ UNCHANGED <<xdpRunning, qosRunning>> =>
              /\ polRunning' => RunningSkills' = RunningSkills \cup {"network_policy"}
              /\ ~polRunning' => RunningSkills' = RunningSkills \ {"network_policy"}
         /\ \A s \in Plain : UNCHANGED <<qosRunning, polRunning, xdpRunning>> =>
              /\ plainRunning' = plainRunning \cup {s} => RunningSkills' = RunningSkills \cup {s}
              /\ plainRunning' = plainRunning \ {s} => RunningSkills' = RunningSkills \ {s}
BY DEF RunningSkills, Plain, Network

(* A network skill's part of such an end: its running_ becomes `now`.       *)
Outcome(result, old, now) ==
  \/ call = "start" /\ result = "ok" /\ now
  \/ call = "start" /\ result = "failed" /\ (now => old)
  \/ call \in {"rollback", "stop"} /\ result = "ok" /\ ~now

LEMMA XdpEnds ==
  ASSUME ManagerInv, BusyInv, XdpNext, UNCHANGED <<qosVars, polVars, plainRunning>>
  PROVE  /\ \/ UNCHANGED <<managerVars, RunningSkills>>
            \/ \E result \in Returns : Ends("network_xdp", result)
         /\ Busy(xdpAt, "network_xdp", XdpStarting)'
<1>1. /\ plainRunning \subseteq Plain
      /\ UNCHANGED <<plainRunning, qosRunning, polRunning>>
      /\ call \in {"none", "start", "rollback", "stop"}
      /\ xdpRunning => RunningSkills = RunningSkills \cup {"network_xdp"}
  BY DEF ManagerInv, BusyInv, qosVars, polVars, RunningSkills, Network
<1>2. call # "none" /\ order[at] = "network_xdp"
  BY DEF BusyInv, Busy, XdpNext, XdpStart, XdpAttach, XdpVerify, XdpLook, XdpDetach,
     XdpRollback, XdpIn, InCall
<1>3. \/ /\ UNCHANGED <<managerVars, xdpRunning>>
         /\ xdpAt' \in XdpStarting => call = "start"
      \/ \E result \in Returns : XdpDone(result) /\ Outcome(result, xdpRunning, xdpRunning')
  <2>1. CASE XdpStart
    BY <2>1 DEF XdpStart, XdpIn, InCall, XdpGo, Outcome, Returns, XdpStarting
  <2>2. CASE XdpAttach
    BY <2>2 DEF XdpAttach, XdpIn, InCall, XdpGo, XdpStarting
  <2>3. CASE XdpVerify
    BY <2>3 DEF XdpVerify, XdpIn, InCall, XdpGo, Outcome, Returns, XdpStarting
  <2>4. CASE XdpLook
    BY <1>1, <1>2, <2>4 DEF XdpLook, XdpGo, XdpResult, Outcome, Returns, XdpStarting
  <2>5. CASE XdpDetach
    BY <1>1, <1>2, <2>5 DEF XdpDetach, XdpResult, Outcome, Returns
  <2> QED
    BY <2>1, <2>2, <2>3, <2>4, <2>5 DEF XdpNext
<1>4. CASE UNCHANGED <<managerVars, xdpRunning>> /\ (xdpAt' \in XdpStarting => call = "start")
  BY <1>1, <1>2, <1>4, RunningChange DEF Busy, managerVars
<1>5. CASE \E result \in Returns : XdpDone(result) /\ Outcome(result, xdpRunning, xdpRunning')
  <2>1. PICK result \in Returns : XdpDone(result) /\ Outcome(result, xdpRunning, xdpRunning')
    BY <1>5
  <2>2. Busy(xdpAt, "network_xdp", XdpStarting)'
    BY <2>1 DEF Busy, XdpDone, XdpStarting
  <2>3. /\ xdpRunning' => RunningSkills' = RunningSkills \cup {"network_xdp"}
        /\ ~xdpRunning' => RunningSkills' = RunningSkills \ {"network_xdp"}
    BY <1>1, RunningChange
  <2>4. Ends("network_xdp", result)
    BY <1>1, <1>2, <2>1, <2>3, Zenon DEF Ends, Outcome, XdpDone
  <2> QED
    BY <2>2, <2>4
<1> QED
  BY <1>3, <1>4, <1>5

LEMMA QosEnds ==
  ASSUME ManagerInv, BusyInv, QosNext, UNCHANGED <<polVars, xdpVars, plainRunning>>
  PROVE  /\ \/ UNCHANGED <<managerVars, RunningSkills>>
            \/ \E result \in Returns : Ends("network_qos", result)
         /\ Busy(qosAt, "network_qos", QosStarting)'
<1>1. /\ plainRunning \subseteq Plain
      /\ UNCHANGED <<plainRunning, polRunning, xdpRunning>>
      /\ call \in {"none", "start", "rollback", "stop"}
      /\ qosRunning => RunningSkills = RunningSkills \cup {"network_qos"}
  BY DEF ManagerInv, BusyInv, polVars, xdpVars, RunningSkills, Network
<1>2. /\ call # "none" /\ order[at] = "network_qos"
      /\ qosAt \in QosStarting => call = "start"
  BY DEF BusyInv, Busy, QosStarting, QosNext, QosStart, QosHook, QosAttach, QosReplace, QosVerify, QosLook, QosDelete, QosDetach, QosRollback, QosIn, InCall
<1>3. \/ /\ UNCHANGED <<managerVars, qosRunning>>
         /\ qosAt' \in QosStarting => call = "start"
      \/ \E result \in Returns : QosDone(result) /\ Outcome(result, qosRunning, qosRunning')
  <2>1. CASE QosStart
    BY <1>1, <1>2, <2>1 DEF QosStart, QosIn, InCall, QosGo, QosResult, QosRollback, Outcome, Returns, QosStarting
  <2>2. CASE QosHook
    BY <1>1, <1>2, <2>2 DEF QosHook, QosIn, InCall, QosGo, QosResult, QosRollback, Outcome, Returns, QosStarting
  <2>3. CASE QosAttach
    BY <1>1, <1>2, <2>3 DEF QosAttach, QosIn, InCall, QosGo, QosResult, QosRollback, Outcome, Returns, QosStarting
  <2>4. CASE QosReplace
    BY <1>1, <1>2, <2>4 DEF QosReplace, QosIn, InCall, QosGo, QosResult, QosRollback, Outcome, Returns, QosStarting
  <2>5. CASE QosVerify
    BY <1>1, <1>2, <2>5 DEF QosVerify, QosIn, InCall, QosGo, QosResult, QosRollback, Outcome, Returns, QosStarting
  <2>6. CASE QosLook
    BY <1>1, <1>2, <2>6 DEF QosLook, QosIn, InCall, QosGo, QosResult, QosRollback, Outcome, Returns, QosStarting
  <2>7. CASE QosDelete
    BY <1>1, <1>2, <2>7 DEF QosDelete, QosIn, InCall, QosGo, QosResult, QosRollback, Outcome, Returns, QosStarting
  <2>8. CASE QosDetach
    BY <1>1, <1>2, <2>8 DEF QosDetach, QosIn, InCall, QosGo, QosResult, QosRollback, Outcome, Returns, QosStarting
  <2> QED
    BY <2>1, <2>2, <2>3, <2>4, <2>5, <2>6, <2>7, <2>8 DEF QosNext
<1>4. CASE UNCHANGED <<managerVars, qosRunning>> /\ (qosAt' \in QosStarting => call = "start")
  BY <1>1, <1>2, <1>4, RunningChange DEF Busy, managerVars
<1>5. CASE \E result \in Returns : QosDone(result) /\ Outcome(result, qosRunning, qosRunning')
  <2>1. PICK result \in Returns : QosDone(result) /\ Outcome(result, qosRunning, qosRunning')
    BY <1>5
  <2>2. Busy(qosAt, "network_qos", QosStarting)'
    BY <2>1 DEF Busy, QosDone, QosStarting
  <2>3. /\ qosRunning' => RunningSkills' = RunningSkills \cup {"network_qos"}
        /\ ~qosRunning' => RunningSkills' = RunningSkills \ {"network_qos"}
    BY <1>1, RunningChange
  <2>4. Ends("network_qos", result)
    BY <1>1, <1>2, <2>1, <2>3, Zenon DEF Ends, Outcome, QosDone
  <2> QED
    BY <2>2, <2>4
<1> QED
  BY <1>3, <1>4, <1>5

LEMMA PolEnds ==
  ASSUME ManagerInv, BusyInv, PolNext, UNCHANGED <<qosVars, xdpVars, plainRunning>>
  PROVE  /\ \/ UNCHANGED <<managerVars, RunningSkills>>
            \/ \E result \in Returns : Ends("network_policy", result)
         /\ Busy(polAt, "network_policy", PolStarting)'
<1>1. /\ plainRunning \subseteq Plain
      /\ UNCHANGED <<plainRunning, qosRunning, xdpRunning>>
      /\ call \in {"none", "start", "rollback", "stop"}
      /\ polRunning => RunningSkills = RunningSkills \cup {"network_policy"}
  BY DEF ManagerInv, BusyInv, qosVars, xdpVars, RunningSkills, Network
<1>2. /\ call # "none" /\ order[at] = "network_policy"
      /\ polAt \in PolStarting => call = "start"
  BY DEF BusyInv, Busy, PolStarting, PolNext, PolStart, PolMkdir, PolStat, PolLease, PolAttach, PolPin, PolUndo, PolCleanup, PolRemove, PolIn, InCall, Cleaning
<1>3. \/ /\ UNCHANGED <<managerVars, polRunning>>
         /\ polAt' \in PolStarting => call = "start"
      \/ \E result \in Returns : PolDone(result) /\ Outcome(result, polRunning, polRunning')
  <2>1. CASE PolStart
    BY <1>1, <1>2, <2>1 DEF PolStart, PolIn, InCall, PolGo, CleanupDone, Cleaning, Outcome, Returns, PolStarting
  <2>2. CASE PolMkdir
    BY <1>1, <1>2, <2>2 DEF PolMkdir, PolIn, InCall, PolGo, CleanupDone, Cleaning, Outcome, Returns, PolStarting
  <2>3. CASE PolStat
    BY <1>1, <1>2, <2>3 DEF PolStat, PolIn, InCall, PolGo, CleanupDone, Cleaning, Outcome, Returns, PolStarting
  <2>4. CASE PolLease
    BY <1>1, <1>2, <2>4 DEF PolLease, PolIn, InCall, PolGo, CleanupDone, Cleaning, Outcome, Returns, PolStarting
  <2>5. CASE PolAttach
    BY <1>1, <1>2, <2>5 DEF PolAttach, PolIn, InCall, PolGo, CleanupDone, Cleaning, Outcome, Returns, PolStarting
  <2>6. CASE PolPin
    BY <1>1, <1>2, <2>6 DEF PolPin, PolIn, InCall, PolGo, CleanupDone, Cleaning, Outcome, Returns, PolStarting
  <2>7. CASE PolUndo
    BY <1>1, <1>2, <2>7 DEF PolUndo, PolIn, InCall, PolGo, CleanupDone, Cleaning, Outcome, Returns, PolStarting
  <2>8. CASE PolCleanup
    BY <1>1, <1>2, <2>8 DEF PolCleanup, PolIn, InCall, PolGo, CleanupDone, Cleaning, Outcome, Returns, PolStarting
  <2>9. CASE PolRemove
    BY <1>1, <1>2, <2>9 DEF PolRemove, PolIn, InCall, PolGo, CleanupDone, Cleaning, Outcome, Returns, PolStarting
  <2> QED
    BY <2>1, <2>2, <2>3, <2>4, <2>5, <2>6, <2>7, <2>8, <2>9 DEF PolNext
<1>4. CASE UNCHANGED <<managerVars, polRunning>> /\ (polAt' \in PolStarting => call = "start")
  BY <1>1, <1>2, <1>4, RunningChange DEF Busy, managerVars
<1>5. CASE \E result \in Returns : PolDone(result) /\ Outcome(result, polRunning, polRunning')
  <2>1. PICK result \in Returns : PolDone(result) /\ Outcome(result, polRunning, polRunning')
    BY <1>5
  <2>2. Busy(polAt, "network_policy", PolStarting)'
    BY <2>1 DEF Busy, PolDone, PolStarting
  <2>3. /\ polRunning' => RunningSkills' = RunningSkills \cup {"network_policy"}
        /\ ~polRunning' => RunningSkills' = RunningSkills \ {"network_policy"}
    BY <1>1, RunningChange
  <2>4. Ends("network_policy", result)
    BY <1>1, <1>2, <2>1, <2>3, Zenon DEF Ends, Outcome, PolDone
  <2> QED
    BY <2>2, <2>4
<1> QED
  BY <1>3, <1>4, <1>5

LEMMA PlainEnds ==
  ASSUME ManagerInv, BusyInv, NEW s \in Plain, PlainCall(s), UNCHANGED kernelVars
  PROVE  /\ \E result \in Returns : Ends(s, result)
         /\ BusyInv'
<1>1. /\ UNCHANGED <<qosRunning, polRunning, xdpRunning, xdpAt, qosAt, polAt>>
      /\ plainRunning \subseteq Plain
      /\ call # "none" /\ s = order[at]
      /\ call \in {"none", "start", "rollback", "stop"}
  BY DEF kernelVars, qosVars, polVars, xdpVars, BusyInv, PlainCall, ManagerInv
<1>2. xdpAt = "idle" /\ qosAt = "idle" /\ polAt = "idle"
  BY <1>1 DEF BusyInv, Busy, Plain, Network
<1>3. plainRunning' \subseteq Plain
  BY <1>1 DEF PlainCall
<1>4. BusyInv'
  BY <1>1, <1>2, <1>3 DEF BusyInv, Busy, XdpStarting, QosStarting, PolStarting
<1>5. /\ plainRunning' = plainRunning => RunningSkills' = RunningSkills
      /\ plainRunning' = plainRunning \cup {s} => RunningSkills' = RunningSkills \cup {s}
      /\ plainRunning' = plainRunning \ {s} => RunningSkills' = RunningSkills \ {s}
  BY <1>1, RunningChange
<1>6. \E result \in Returns : Ends(s, result)
  <2>1. CASE call = "start" /\ plainRunning' = plainRunning \cup {s} /\ Return("ok")
    BY <1>1, <1>5, <2>1 DEF Ends, Returns
  <2>2. CASE call = "start" /\ UNCHANGED plainRunning /\ Return("failed")
    BY <1>1, <1>5, <2>2 DEF Ends, Returns
  <2>3. CASE call # "start" /\ plainRunning' = plainRunning \ {s} /\ Return("ok")
    BY <1>1, <1>5, <2>3 DEF Ends, Returns
  <2>4. CASE Return("thrown") /\ plainRunning' \in {plainRunning, plainRunning \ {s}}
    BY <1>1, <1>5, <2>4 DEF Ends, Returns
  <2> QED
    BY <2>1, <2>2, <2>3, <2>4 DEF PlainCall
<1> QED
  BY <1>4, <1>6

(* A step of the agent is one of the manager between two calls, one inside *)
(* a call, or the end of one.                                              *)
LEMMA StepShape ==
  ASSUME ManagerInv, BusyInv, AgentStep
  PROVE  /\ \/ ManagerNext /\ UNCHANGED RunningSkills
            \/ UNCHANGED <<managerVars, RunningSkills>>
            \/ \E s, result : Ends(s, result)
         /\ BusyInv'
<1>0. plainRunning \subseteq Plain
  BY DEF BusyInv
<1>1. CASE ManagerNext /\ UNCHANGED <<kernelVars, plainRunning>>
  <2>1. call = "none"
    BY <1>1 DEF ManagerInv, ManagerNext, Load, Call, Advance, RunEnds, Down
  <2>2. xdpAt = "idle" /\ qosAt = "idle" /\ polAt = "idle"
    BY <2>1 DEF BusyInv, Busy
  <2>3. UNCHANGED <<qosRunning, polRunning, xdpRunning, xdpAt, qosAt, polAt, plainRunning>>
    BY <1>1 DEF kernelVars, qosVars, polVars, xdpVars
  <2>4. BusyInv'
    BY <1>0, <2>2, <2>3 DEF BusyInv, Busy, XdpStarting, QosStarting, PolStarting
  <2> QED
    BY <1>0, <1>1, <2>3, <2>4, RunningChange
<1>2. CASE (\E s \in Plain : PlainCall(s)) /\ UNCHANGED kernelVars
  BY <1>2, PlainEnds
<1>3. CASE QosNext /\ UNCHANGED <<polVars, xdpVars, plainRunning>>
  <2>1. UNCHANGED <<xdpAt, polAt, plainRunning>>
    BY <1>3 DEF polVars, xdpVars
  <2>2. qosAt = "idle" => QosStart \/ QosLook
    BY <1>3 DEF QosNext, QosHook, QosAttach, QosReplace, QosVerify, QosDelete, QosDetach, QosIn
  <2>3. order[at] = "network_qos"
    BY <2>2 DEF BusyInv, Busy, QosStart, QosLook, QosRollback, QosIn, InCall
  <2>4. xdpAt = "idle" /\ polAt = "idle"
    BY <2>3 DEF BusyInv, Busy
  <2>5. BusyInv'
    <3>1. Busy(qosAt, "network_qos", QosStarting)'
      BY <1>3, QosEnds
    <3> QED
      BY <1>0, <2>1, <2>4, <3>1 DEF BusyInv, Busy, XdpStarting, PolStarting
  <2> QED
    BY <1>3, <2>5, QosEnds
<1>4. CASE PolNext /\ UNCHANGED <<qosVars, xdpVars, plainRunning>>
  <2>1. UNCHANGED <<xdpAt, qosAt, plainRunning>>
    BY <1>4 DEF qosVars, xdpVars
  <2>2. polAt = "idle" => PolStart \/ PolUndo
    BY <1>4 DEF PolNext, PolMkdir, PolStat, PolLease, PolAttach, PolPin, PolCleanup, PolRemove,
       PolIn, Cleaning
  <2>3. order[at] = "network_policy"
    BY <2>2 DEF BusyInv, Busy, PolStart, PolUndo, PolIn, InCall
  <2>4. xdpAt = "idle" /\ qosAt = "idle"
    BY <2>3 DEF BusyInv, Busy
  <2>5. BusyInv'
    <3>1. Busy(polAt, "network_policy", PolStarting)'
      BY <1>4, PolEnds
    <3> QED
      BY <1>0, <2>1, <2>4, <3>1 DEF BusyInv, Busy, XdpStarting, QosStarting
  <2> QED
    BY <1>4, <2>5, PolEnds
<1>5. CASE XdpNext /\ UNCHANGED <<qosVars, polVars, plainRunning>>
  <2>1. UNCHANGED <<qosAt, polAt, plainRunning>>
    BY <1>5 DEF qosVars, polVars
  <2>2. xdpAt = "idle" => XdpStart \/ XdpLook
    BY <1>5 DEF XdpNext, XdpAttach, XdpVerify, XdpDetach, XdpIn
  <2>3. order[at] = "network_xdp"
    BY <2>2 DEF BusyInv, Busy, XdpStart, XdpLook, XdpRollback, XdpIn, InCall
  <2>4. qosAt = "idle" /\ polAt = "idle"
    BY <2>3 DEF BusyInv, Busy
  <2>5. BusyInv'
    <3>1. Busy(xdpAt, "network_xdp", XdpStarting)'
      BY <1>5, XdpEnds
    <3> QED
      BY <1>0, <2>1, <2>4, <3>1 DEF BusyInv, Busy, QosStarting, PolStarting
  <2> QED
    BY <1>5, <2>5, XdpEnds
<1> QED
  BY <1>1, <1>2, <1>3, <1>4, <1>5 DEF AgentStep

(* The skill that is called depends on skills started before it only, and  *)
(* none of those before it depends on it.                                  *)
LEMMA AtFacts ==
  ASSUME Sound(order), at \in 1..Len(order)
  PROVE  /\ Below(at) = Below(at - 1) \cup {order[at]}
         /\ order[at] \notin Below(at - 1)
         /\ order[at] \in Skills \cap config.enabled
         /\ config.deps[order[at]] \subseteq Below(at - 1)
         /\ \A t \in Below(at) : order[at] \notin config.deps[t]
<1>0. /\ Len(order) \in Nat /\ order \in Seq(Skills)
      /\ \A i \in 1..Len(order) : order[i] \in Skills
  BY DEF Sound
<1>1. Below(at) = Below(at - 1) \cup {order[at]}
  BY <1>0 DEF Below
<1>2. order[at] \notin Below(at - 1)
  BY <1>0 DEF Below, Sound, Distinct
<1>3. /\ order[at] \in Skills \cap config.enabled
      /\ config.deps[order[at]] \subseteq Below(at - 1)
  BY <1>0 DEF Below, Sound
<1>4. ASSUME NEW t \in Below(at) PROVE order[at] \notin config.deps[t]
  <2>1. PICK j \in 1..at : t = order[j]
    BY DEF Below
  <2>2. j \in 1..Len(order)
    BY <1>0, <2>1
  <2>3. config.deps[order[j]] \subseteq {order[i] : i \in 1..j - 1}
    BY <2>2 DEF Sound
  <2>4. order[at] \notin {order[i] : i \in 1..j - 1}
    BY <1>0, <2>1, <2>2 DEF Sound, Distinct
  <2> QED
    BY <2>1, <2>3, <2>4
<1> QED
  BY <1>1, <1>2, <1>3, <1>4

(* What a step makes of the contract's variables.                          *)
Kept == Contract!Next \/ UNCHANGED <<config, RunningSkills, phase \notin {"load", "starting", "running"}>>

LEMMA EndsKeep ==
  ASSUME ManagerInv, RunningInv, NEW s, NEW result, Ends(s, result)
  PROVE  ManagerInv' /\ RunningInv' /\ Kept
<1>1. /\ at \in 1..Len(order) /\ s = order[at] /\ Len(order) \in Nat /\ Sound(order)
      /\ UNCHANGED <<config, order>> /\ call' = "none" /\ result \in Returns
      /\ phase \in {"starting"} \cup Down
      /\ call = "start" <=> phase = "starting"
  BY DEF ManagerInv, Ends, Return, Sound, Down
<1>2. /\ Below(at) = Below(at - 1) \cup {s}
      /\ s \notin Below(at - 1)
      /\ s \in Skills \cap config.enabled
      /\ config.deps[s] \subseteq Below(at - 1)
      /\ \A t \in Below(at) : s \notin config.deps[t]
  BY <1>1, AtFacts
<1>3. Sound(order)' /\ \A n : Below(n)' = Below(n)
  <2>1. \A n : Below(n)' = Below(n)
    BY <1>1 DEF Below
  <2> QED
    BY <1>1, <2>1, SoundStays
<1>4. CASE phase = "starting" /\ result = "ok"
  <2>1. /\ at' = at + 1 /\ phase' = "starting"
        /\ RunningSkills = Below(at - 1) /\ RunningSkills' = Below(at)
    BY <1>1, <1>2, <1>4 DEF Ends, Return, RunningInv
  <2>2. ManagerInv'
    BY <1>1, <1>3, <2>1 DEF ManagerInv, Down, Phases
  <2>3. RunningInv'
    <3>1. at' - 1 = at
      BY <1>1, <2>1
    <3>2. Below(at - 1)' = Below(at)
      BY <1>1, <3>1 DEF Below
    <3> QED
      BY <2>1, <3>2 DEF RunningInv, Down
  <2>4. Contract!Start(s)
    BY <1>1, <1>2, <1>4, <2>1 DEF Contract!Start
  <2> QED
    BY <1>2, <2>2, <2>3, <2>4 DEF Kept, Contract!Next
<1>5. CASE phase = "starting" /\ result # "ok"
  <2>1. /\ at' = Len(order) /\ phase' \in {"rolling_back", "handler"}
        /\ RunningSkills = Below(at - 1) /\ RunningSkills' = RunningSkills
    BY <1>1, <1>2, <1>5 DEF Ends, Return, RunningInv, Enter, Thrown, Returns
  <2>2. ManagerInv'
    BY <1>1, <1>3, <2>1 DEF ManagerInv, Down, Phases
  <2>3. RunningInv'
    <3>1. Below(at - 1) \subseteq Below(Len(order))
      BY <1>1 DEF Below
    <3> QED
      BY <1>3, <2>1, <3>1 DEF RunningInv, Down, Below
  <2>4. Contract!BeginEnd
    BY <1>1, <1>5, <2>1 DEF Contract!BeginEnd
  <2> QED
    BY <2>2, <2>3, <2>4 DEF Kept, Contract!Next
<1>6. CASE phase \in Down
  <2>1. RunningSkills \subseteq Below(at) /\ RunningSkills' \in {RunningSkills, RunningSkills \ {s}}
    BY <1>1, <1>6 DEF Ends, RunningInv, Down
  <2>2. \/ at' = at - 1 /\ phase' = phase /\ RunningSkills' = RunningSkills \ {s}
        \/ at' = Len(order) /\ phase' = "handler"
        \/ at' = 0 /\ phase' = "exited"
    BY <1>1, <1>6 DEF Ends, Return, Enter, Thrown, Returns, Down
  <2>3. ManagerInv'
    BY <1>1, <1>3, <1>6, <2>2 DEF ManagerInv, Down, Phases
  <2>4. RunningInv'
    <3>1. Below(at) \subseteq Below(Len(order))
      BY <1>1 DEF Below
    <3>2. CASE at' = at - 1 /\ phase' = phase /\ RunningSkills' = RunningSkills \ {s}
      <4>1. RunningSkills' \subseteq Below(at - 1)
        BY <1>2, <2>1, <3>2
      <4> QED
        BY <1>1, <1>6, <3>2, <4>1 DEF RunningInv, Down, Below
    <3> QED
      BY <1>1, <2>1, <2>2, <3>1, <3>2 DEF RunningInv, Down, Below
  <2>5. (phase \notin {"load", "starting", "running"})' = (phase \notin {"load", "starting", "running"})
    BY <1>6, <2>2 DEF Down
  <2>6. CASE RunningSkills' = RunningSkills
    BY <1>1, <2>3, <2>4, <2>5, <2>6 DEF Kept
  <2>7. CASE RunningSkills' # RunningSkills
    <3>1. Contract!Stop(s)
      BY <1>1, <1>2, <1>6, <2>1, <2>2, <2>5, <2>7 DEF Contract!Stop, Down
    <3> QED
      BY <1>2, <2>3, <2>4, <3>1 DEF Kept, Contract!Next
  <2> QED
    BY <2>6, <2>7
<1> QED
  BY <1>1, <1>4, <1>5, <1>6

LEMMA ManagerKeeps ==
  ASSUME ManagerInv, RunningInv, ManagerNext, UNCHANGED RunningSkills
  PROVE  ManagerInv' /\ RunningInv' /\ Kept
<1>1. UNCHANGED config /\ Sound(order) /\ Len(order) \in Nat
  BY DEF ManagerNext, Load, Call, Advance, RunEnds, ManagerInv, Sound
<1>2. CASE Load
  <2>1. Sound(StartOrder)
    BY ConfigGood, OrderIsSound DEF ManagerInv
  <2>2. order' = StartOrder /\ call = "none" /\ call' = "none" /\ RunningSkills = {}
    BY <1>2 DEF Load, ManagerInv, RunningInv, Down
  <2>3. Sound(order)' /\ Len(order') \in Nat
    <3>1. Sound(order')
      BY <2>1, <2>2, Zenon
    <3>2. order' \in Seq(Skills) /\ Distinct(order')
      BY <3>1 DEF Sound
    <3>3. Distinct(order)'
      BY <3>2 DEF Distinct
    <3>4. Sound(order)'
      <4>1. \A i \in 1..Len(order') : /\ order'[i] \in config.enabled
                                      /\ config.deps[order'[i]] \subseteq {order'[j] : j \in 1..i - 1}
        BY <3>1, Zenon DEF Sound
      <4> QED
        BY <1>1, <3>2, <3>3, <4>1, Zenon DEF Sound
    <3> QED
      BY <3>2, <3>4
  <2>4. \/ phase' = "handler" /\ at' = Len(order')
        \/ phase' = "starting" /\ at' = 1
    BY <1>2 DEF Load
  <2>5. ManagerInv'
    BY <1>1, <2>2, <2>3, <2>4 DEF ManagerInv, Down, Phases
  <2>6. RunningInv'
    BY <1>1, <2>2, <2>4 DEF RunningInv, Down, Below
  <2>7. Kept
    BY <1>1, <1>2, <2>4 DEF Kept, Contract!Next, Contract!BeginEnd, Load
  <2> QED
    BY <2>5, <2>6, <2>7
<1>3. CASE Call
  <2>1. /\ UNCHANGED <<order, phase, at>> /\ at \in 1..Len(order)
        /\ call' = FunctionOf /\ FunctionOf # "none"
    BY <1>3 DEF Call
  <2>2. ManagerInv'
    BY <1>1, <2>1 DEF ManagerInv, FunctionOf, Down, Sound
  <2> QED
    BY <1>1, <2>1, <2>2 DEF RunningInv, Below, Kept
<1>4. CASE Advance
  <2>1. /\ UNCHANGED <<order, call>> /\ call = "none" /\ phase \in {"starting"} \cup Down
        /\ at \notin 1..Len(order) /\ Enter(After)
    BY <1>4 DEF Advance, FunctionOf, Down
  <2>2. \/ /\ phase = "starting" /\ phase' = "running" /\ at' = 0
        \/ /\ phase \in Down /\ phase' \in {"stopping", "handler"} /\ at' = Len(order)
        \/ /\ phase \in Down /\ phase' = "exited" /\ at' = 0
    BY <2>1 DEF Enter, After, Down
  <2>3. ManagerInv'
    BY <1>1, <2>1, <2>2 DEF ManagerInv, Down, Phases, Sound
  <2>4. RunningInv'
    <3>1. CASE phase = "starting" /\ phase' = "running"
      <4>1. at - 1 = Len(order)
        BY <1>1, <2>1, <3>1 DEF ManagerInv
      <4> QED
        BY <2>1, <3>1, <4>1 DEF RunningInv, Down, Below
    <3>2. CASE phase \in Down
      <4>1. at = 0 /\ RunningSkills = {}
        BY <1>1, <2>1, <3>2 DEF ManagerInv, RunningInv, Below
      <4> QED
        BY <2>2, <3>2, <4>1 DEF RunningInv, Down
    <3> QED
      BY <2>2, <3>1, <3>2
  <2>5. Kept
    BY <1>1, <2>2 DEF Kept, Down
  <2> QED
    BY <2>3, <2>4, <2>5
<1>5. CASE RunEnds
  <2>1. /\ UNCHANGED <<order, call>> /\ phase = "running" /\ phase' \in {"ending", "handler"}
        /\ at' = Len(order)
    BY <1>5 DEF RunEnds, Enter
  <2>2. ManagerInv'
    BY <1>1, <2>1 DEF ManagerInv, Down, Phases, Sound
  <2>3. RunningInv'
    BY <1>1, <2>1 DEF RunningInv, Down, Below
  <2>4. Contract!BeginEnd
    BY <1>1, <2>1 DEF Contract!BeginEnd
  <2> QED
    BY <2>2, <2>3, <2>4 DEF Kept, Contract!Next
<1> QED
  BY <1>2, <1>3, <1>4, <1>5 DEF ManagerNext

(* Every step of an agent, of the others and between two agents.           *)
LEMMA LifeStep ==
  ASSUME LifeInv, [Next]_vars
  PROVE  LifeInv' /\ Kept
<1> USE DEF LifeInv
<1>0. plainRunning \subseteq Plain
  BY DEF BusyInv
<1>1. CASE AgentStep
  <2>1. CASE UNCHANGED <<managerVars, RunningSkills>>
    <3>1. BusyInv'
      BY <1>1, StepShape
    <3>2. UNCHANGED <<config, order, phase, at, call, RunningSkills>>
      BY <2>1 DEF managerVars
    <3> QED
      BY <3>1, <3>2 DEF ManagerInv, RunningInv, Below, Kept, Sound
  <2> QED
    BY <1>1, <2>1, StepShape, ManagerKeeps, EndsKeep
<1>2. CASE Disturb \/ UNCHANGED vars
  <2>1. /\ UNCHANGED <<config, order, phase, at, call, plainRunning>>
        /\ UNCHANGED <<xdpRunning, qosRunning, polRunning, xdpAt, qosAt, polAt>>
    BY <1>2 DEF Disturb, vars, kernelVars, managerVars, QosOther, PolOther, XdpOther, qosVars, polVars, xdpVars
  <2>2. UNCHANGED RunningSkills
    BY <1>0, <2>1, RunningChange
  <2> QED
    BY <2>1, <2>2 DEF ManagerInv, RunningInv, BusyInv, Busy, Below, Kept, Sound
<1>3. CASE NewAgent
  <2>1. /\ UNCHANGED config /\ order' = <<>> /\ phase' = "load" /\ at' = 0 /\ call' = "none"
        /\ plainRunning' = {} /\ ~qosRunning' /\ ~polRunning' /\ ~xdpRunning'
        /\ xdpAt' = "idle" /\ qosAt' = "idle" /\ polAt' = "idle"
    BY <1>3 DEF NewAgent, Renew, QosReset, PolReset, XdpReset
  <2>2. RunningSkills' = {}
    BY <2>1 DEF RunningSkills
  <2>3. ManagerInv'
    BY <2>1, EmptyFacts DEF ManagerInv, Sound, Phases, Down, Distinct
  <2> QED
    BY <2>1, <2>2, <2>3 DEF RunningInv, BusyInv, Busy, Down, Kept, Contract!Next, Contract!Renew,
       XdpStarting, QosStarting, PolStarting
<1> QED
  BY <1>1, <1>2, <1>3 DEF Next

(* Manager and skills keep the contract: a skill runs only on top of those *)
(* it depends on, none is taken away under one that needs it, and none     *)
(* starts on the way down (skill_manager.cpp:126-213, main.cpp:529-589).   *)
THEOREM Refines == Spec => KeepsContract
<1>1. Init => LifeInv
  BY LifeInit
<1>2. LifeInv /\ [Next]_vars => LifeInv' /\ Kept
  BY LifeStep
<1>3. Init => Contract!Init
  BY DEF Init, ManagerInit, XdpInit, QosInit, PolInit, Contract!Init, RunningSkills
<1>4. Kept => [Contract!Next]_(Contract!contractVars)
  BY DEF Kept, Contract!contractVars
<1> QED
  BY <1>1, <1>2, <1>3, <1>4, PTL DEF Spec, KeepsContract, Contract!Spec
-----------------------------------------------------------------------------
(* What each network skill knows of its piece of the kernel: first what    *)
(* holds whatever others do, then what holds as long as nobody interferes. *)
XdpHeld ==
  /\ xdp \in {"none", "own", "old", "other"}
  /\ xdpAt = "detach" /\ xdp \in {"old", "other"} => "xdp" \in unseen
  /\ ~excused => /\ xdp = "own" => xdpAttached \/ xdpAt = "verify"
                 /\ xdpAttached => xdp = "own" /\ xdpRunning

QosHeld ==
  /\ tbfAttached => qdiscAfter # NoOutput /\ qdiscAfter[1] \in {"own", "rival"}
  /\ phase \in {"load", "starting"} /\ tbfAttached => qosRunning
  /\ hookCreated \/ tcAttached => qosRunning \/ qosAt # "idle"
  /\ qosAt = "hook" => ~hookCreated /\ ~tcAttached
  /\ qosAt \in {"hook", "attach", "replace"} /\ root # "none" => "root" \in unseen
  /\ qosAt = "verify" => root # "old"
  /\ qosAt = "delete" /\ root \in {"old", "other", "rival"}
       => "root" \in unseen \/ (root = "rival" /\ Adopted)
  /\ ~excused => /\ root = "own" => tbfAttached \/ qosAt = "verify"
                 /\ tbfAttached => qosRunning /\ qdiscAfter = Output
                 /\ qosAt = "detach" => ~tbfAttached
                 /\ "own" \in filters => tcAttached

(* A directory has an inode number that no earlier one had.                *)
PolHeld ==
  /\ inodes \in Nat
  /\ group = NoGroup \/ group \in [inode : 1..inodes, owner : {"own", "old", "other"}]
  /\ lease \in [created : BOOLEAN, inode : 0..inodes]
  /\ linked => (polRunning /\ polAt = "idle") \/ polAt \in {"pin", "undo"}
  /\ polAt = "pin" => linked
  /\ polAt \in {"mkdir", "stat"} => ~hasLease
  /\ group.owner \in {"old", "other"} =>
       /\ lease.created /\ (polAt = "stat" \/ group.inode = lease.inode) => "lease" \in unseen
       /\ polAt \in {"remove", "remove_open"} => unseen \cap {"group", "lease"} # {}
  /\ ~excused => /\ pin = "own" => linked
                 /\ group.owner = "own" /\ ~occupied =>
                      /\ lease.created
                      /\ polAt = "stat" \/ (hasLease /\ group.inode = lease.inode)

(* A start begins with a skill that does not run.                          *)
LEMMA StartsFresh ==
  ASSUME ManagerInv, RunningInv, call = "start"
  PROVE  order[at] \notin RunningSkills
BY AtFacts DEF ManagerInv, RunningInv

LEMMA XdpKeeps ==
  ASSUME XdpHeld, [Next]_vars
  PROVE  XdpHeld'
<1>1. CASE XdpNext /\ AgentStep
  <2>1. /\ unseen' = (unseen \ Looked) \cup Missed
        /\ ~excused' => ~excused /\ ~UndoFault
    BY <1>1 DEF AgentStep
  <2>2. CASE XdpStart
    BY <2>1, <2>2 DEF XdpHeld, XdpStart, XdpIn, XdpGo, XdpDone
  <2>3. CASE XdpAttach
    BY <2>1, <2>3 DEF XdpHeld, XdpAttach, XdpIn, XdpGo
  <2>4. CASE XdpVerify
    <3>1. ~excused' => ~excused /\ (xdp # "own" \/ xdpAt' # "look")
      BY <2>1, <2>4 DEF UndoFault, XdpVerify, XdpIn
    <3> QED
      BY <2>4, <3>1 DEF XdpHeld, XdpVerify, XdpGo, XdpDone, XdpQuery, XdpIn
  <2>5. CASE XdpLook
    <3>1. xdp \in {"old", "other"} /\ xdpAt' = "detach" => "xdp" \in unseen'
      BY <2>1, <2>5 DEF XdpLook, Looked, Missed
    <3>2. ~excused' => ~excused
      BY <2>1
    <3> QED
      BY <2>5, <3>1, <3>2 DEF XdpHeld, XdpLook, XdpGo, XdpDone, XdpRollback, XdpIn
  <2>6. CASE XdpDetach
    <3>1. ~excused' => xdp' # "own"
      BY <2>1, <2>6 DEF UndoFault, XdpDetach
    <3> QED
      BY <2>6, <3>1 DEF XdpHeld, XdpDetach, XdpDone
  <2> QED
    BY <1>1, <2>2, <2>3, <2>4, <2>5, <2>6 DEF XdpNext
<1>2. CASE UNCHANGED xdpVars /\ AgentStep
  <2>1. xdpAt = "detach" /\ "xdp" \in unseen => "xdp" \in unseen'
    BY <1>2 DEF AgentStep, Looked, XdpRollback, XdpIn
  <2>2. ~excused' => ~excused
    BY <1>2 DEF AgentStep
  <2> QED
    BY <1>2, <2>1, <2>2 DEF XdpHeld, xdpVars
<1>3. AgentStep => XdpNext \/ UNCHANGED xdpVars
  BY DEF AgentStep, kernelVars
<1>4. CASE Disturb
  BY <1>4 DEF Disturb, XdpHeld, XdpOther, xdpVars
<1>5. CASE NewAgent
  BY <1>5 DEF NewAgent, XdpHeld, XdpReset
<1>6. CASE UNCHANGED vars
  BY <1>6 DEF vars, kernelVars, xdpVars, XdpHeld
<1> QED
  BY <1>1, <1>2, <1>3, <1>4, <1>5, <1>6 DEF Next

LEMMA QosStepKeeps ==
  ASSUME LifeInv, QosHeld, AgentStep, QosNext, UNCHANGED <<polVars, xdpVars, plainRunning>>
  PROVE  QosHeld'
<1>1. /\ unseen' = (unseen \ Looked) \cup Missed
      /\ ~excused' => ~excused /\ ~UndoFault
  BY DEF AgentStep
<1>2. call = "start" /\ order[at] = "network_qos" => ~qosRunning /\ ~tbfAttached /\ phase = "starting"
  <2>1. call = "start" => order[at] \notin RunningSkills /\ phase = "starting"
    BY StartsFresh DEF LifeInv, ManagerInv
  <2>2. qosRunning => "network_qos" \in RunningSkills
    BY DEF RunningSkills, Network
  <2> QED
    BY <2>1, <2>2 DEF QosHeld
<1>3. call # "none" /\ (phase \in {"load", "starting"} => call = "start")
  BY DEF QosNext, QosStart, QosHook, QosAttach, QosReplace, QosVerify, QosLook, QosDelete,
     QosDetach, QosRollback, QosIn, InCall, LifeInv, BusyInv, Busy, ManagerInv, Down
<1>5. phase' \in {"load", "starting"} => phase \in {"load", "starting"}
  BY DEF QosNext, QosStart, QosHook, QosAttach, QosReplace, QosVerify, QosLook, QosDelete,
     QosDetach, QosDone, QosGo, managerVars, Return, Enter, Thrown
<1>6. CASE QosStart
  <2>1. call = "start" /\ order[at] = "network_qos"
    BY <1>6 DEF QosStart, QosIn, InCall
  <2>2. root # "none" /\ qosAt' = "hook" => "root" \in unseen'
    BY <1>1, <1>6 DEF Looked, Missed, QosStart
  <2> QED
    BY <1>1, <1>2, <1>6, <2>1, <2>2 DEF QosHeld, QosStart, QosIn, QosGo, QosDone, qosKernel,
       qosFlags, Output
<1>7. CASE QosHook
  <2>1. call = "start" /\ order[at] = "network_qos" /\ qosAt = "hook"
    BY <1>7 DEF QosHook, QosIn, InCall
  <2>2. "root" \in unseen => "root" \in unseen'
    BY <1>1, <2>1 DEF Looked, QosRollback, QosIn
  <2> QED
    BY <1>1, <1>2, <1>7, <2>1, <2>2 DEF QosHeld, QosHook, QosGo
<1>8. CASE QosAttach
  <2>1. call = "start" /\ order[at] = "network_qos" /\ qosAt = "attach"
    BY <1>8 DEF QosAttach, QosIn, InCall
  <2>2. "root" \in unseen => "root" \in unseen'
    BY <1>1, <2>1 DEF Looked, QosRollback, QosIn
  <2> QED
    BY <1>1, <1>2, <1>8, <2>1, <2>2 DEF QosHeld, QosAttach, QosGo
<1>9. CASE QosReplace
  <2>1. call = "start" /\ order[at] = "network_qos" /\ qosAt = "replace"
    BY <1>9 DEF QosReplace, QosIn, InCall
  <2> QED
    BY <1>1, <1>2, <1>9, <2>1 DEF QosHeld, QosReplace, QosGo, qosFlags
<1>10. CASE QosVerify
  <2>1. call = "start" /\ order[at] = "network_qos" /\ qosAt = "verify"
    BY <1>10 DEF QosVerify, QosIn, InCall
  <2>2. ~excused' /\ root = "own" => qosAt' # "look"
    BY <1>1, <2>1 DEF UndoFault
  <2>3. PICK seen \in Shown :
          /\ qdiscAfter' = seen
          /\ IF IsTbf(seen)
               THEN tbfAttached' = TRUE /\ qosRunning' = TRUE /\ QosDone("ok")
               ELSE QosGo("look") /\ UNCHANGED <<tbfAttached, qosRunning>>
    BY <1>10 DEF QosVerify
  <2>4. UNCHANGED <<root, hook, filters, hookCreated, tcAttached>>
    BY <1>10 DEF QosVerify, qosKernel
  <2>5. CASE IsTbf(seen)
    <3>1. seen = Output /\ Output' = Output /\ seen[1] = root /\ seen # NoOutput
      BY <2>3, <2>4, <2>5 DEF IsTbf, Shown, Output, NoOutput
    <3>2. seen[1] \in {"own", "rival"}
      BY <2>1, <2>5, <3>1 DEF IsTbf, QosHeld
    <3> QED
      BY <1>1, <2>1, <2>3, <2>4, <2>5, <3>1, <3>2 DEF QosHeld, QosDone
  <2>6. CASE ~IsTbf(seen)
    BY <1>1, <1>2, <2>1, <2>2, <2>3, <2>4, <2>6 DEF QosHeld, QosGo
  <2> QED
    BY <2>5, <2>6
<1>11. CASE QosLook
  <2>1. UNCHANGED <<root, hook, filters, hookCreated, tcAttached, tbfAttached, qdiscAfter,
                    qosRunning, phase>>
    BY <1>11 DEF QosLook, qosKernel, qosFlags, QosGo, managerVars
  <2>2. /\ qosAt' \in {"delete", "detach"}
        /\ qosAt' = "delete" => root = "own" \/ (root = "rival" /\ Adopted)
    <3>1. PICK seen \in Shown :
            qosAt' = IF tbfAttached /\ qdiscAfter # NoOutput /\ seen = qdiscAfter
                       THEN "delete" ELSE "detach"
      BY <1>11 DEF QosLook, QosGo
    <3>2. CASE tbfAttached /\ qdiscAfter # NoOutput /\ seen = qdiscAfter
      <4>1. seen = Output /\ seen[1] \in {"own", "rival"} /\ seen = qdiscAfter
        BY <3>2 DEF Shown, QosHeld
      <4> QED
        BY <3>1, <3>2, <4>1 DEF Output, Adopted
    <3> QED
      BY <3>1, <3>2
  <2>3. ~excused' => (qosAt' = "detach" => ~tbfAttached)
    BY <1>1, <1>11 DEF UndoFault, QosHeld, QosLook
  <2>4. Output' = Output /\ Adopted' = Adopted
    BY <2>1 DEF Output, Adopted
  <2>5. ~excused' => qosAt # "verify"
    BY <1>11 DEF QosLook, QosRollback, QosIn
  <2> QED
    BY <1>1, <2>1, <2>2, <2>3, <2>4, <2>5 DEF QosHeld
<1>12. CASE QosDelete
  <2>1. ~excused' => root' = "none"
    BY <1>1, <1>12 DEF UndoFault, QosDelete
  <2> QED
    BY <1>1, <1>12, <2>1 DEF QosHeld, QosDelete, QosGo, managerVars
<1>13. CASE QosDetach
  <2>1. ~excused' => "own" \notin filters'
    BY <1>1, <1>13 DEF UndoFault, QosDetach
  <2>2. /\ ~hookCreated' /\ ~tcAttached' /\ ~qosRunning' /\ qosAt' = "idle"
        /\ UNCHANGED <<root, hook, tbfAttached, qdiscAfter>> /\ qosAt = "detach"
    BY <1>13 DEF QosDetach, QosDone
  <2>3. phase \in {"load", "starting"} => ~tbfAttached
    BY <1>2, <1>3, <2>2 DEF LifeInv, BusyInv, Busy
  <2> QED
    BY <1>1, <1>5, <2>1, <2>2, <2>3 DEF QosHeld
<1> QED
  BY <1>6, <1>7, <1>8, <1>9, <1>10, <1>11, <1>12, <1>13 DEF QosNext

LEMMA QosKeeps ==
  ASSUME LifeInv, QosHeld, [Next]_vars
  PROVE  QosHeld'
<1>1. CASE QosNext /\ AgentStep /\ UNCHANGED <<polVars, xdpVars, plainRunning>>
  BY <1>1, QosStepKeeps
<1>2. CASE UNCHANGED qosVars /\ AgentStep
  <2>1. /\ "root" \in unseen /\ qosAt # "idle" /\ qosAt # "look" => "root" \in unseen'
        /\ ~excused' => ~excused
    BY <1>2 DEF AgentStep, Looked, QosRollback, QosIn
  <2>2. UNCHANGED <<root, hook, filters, hookCreated, tcAttached, tbfAttached, qdiscAfter,
                    qosRunning, qosAt>>
    BY <1>2 DEF qosVars, qosKernel, qosFlags
  <2>3. phase' \in {"load", "starting"} => phase \in {"load", "starting"}
    <3>1. CASE ManagerNext
      BY <3>1 DEF ManagerNext, Load, Call, Advance, RunEnds, Enter, After, FunctionOf
    <3>2. CASE UNCHANGED managerVars
      BY <3>2 DEF managerVars
    <3>3. CASE \E s, result : Ends(s, result)
      <4>1. PICK s, result : Ends(s, result)
        BY <3>3
      <4> QED
        BY <4>1 DEF Ends, Return, Enter, Thrown, Returns
    <3> QED
      BY <1>2, <3>1, <3>2, <3>3, StepShape DEF LifeInv
  <2>4. Output' = Output /\ Adopted' = Adopted
    BY <2>2 DEF Output, Adopted
  <2> QED
    BY <2>1, <2>2, <2>3, <2>4 DEF QosHeld
<1>3. AgentStep => \/ QosNext /\ UNCHANGED <<polVars, xdpVars, plainRunning>>
                   \/ UNCHANGED qosVars
  BY DEF AgentStep, kernelVars
<1>4. CASE Disturb
  <2>1. /\ "root" \in unseen => "root" \in unseen' 
        /\ excused' = TRUE /\ UNCHANGED phase
        /\ UNCHANGED <<hookCreated, tcAttached, tbfAttached, qdiscAfter, qosRunning, qosAt>>
        /\ UNCHANGED root \/ ("root" \in unseen' /\ root' # "old")
        /\ Adopted' = Adopted
    BY <1>4 DEF Disturb, managerVars, QosOther, qosVars, qosKernel, qosFlags, Adopted
  <2> QED
    BY <2>1 DEF QosHeld
<1>5. CASE NewAgent
  BY <1>5 DEF NewAgent, QosHeld, QosReset, Inherited
<1>6. CASE UNCHANGED vars
  BY <1>6 DEF vars, kernelVars, managerVars, qosVars, qosKernel, qosFlags, QosHeld, Output, Adopted
<1> QED
  BY <1>1, <1>2, <1>3, <1>4, <1>5, <1>6 DEF Next

LEMMA PolStepKeeps ==
  ASSUME LifeInv, PolHeld, AgentStep, PolNext,
         call = "start" /\ polAt = "idle" /\ order[at] = "network_policy" => ~hasLease
  PROVE  PolHeld'
<1>1. /\ unseen' = (unseen \ Looked) \cup Missed
      /\ ~excused' => ~excused /\ ~UndoFault
  BY DEF AgentStep
<1>2. "lease" \in unseen => "lease" \in unseen'
  BY <1>1 DEF Looked
<1>3. call = "start" /\ order[at] = "network_policy" => ~polRunning
  <2>1. call = "start" => order[at] \notin RunningSkills
    BY StartsFresh DEF LifeInv
  <2> QED
    BY <2>1 DEF RunningSkills, Network
<1>4. CASE PolStart
  <2>1. call = "start" /\ order[at] = "network_policy" /\ polAt = "idle"
    BY <1>4 DEF PolStart, PolIn, InCall
  <2>2. /\ UNCHANGED <<group, occupied, inodes, pin, lease, hasLease, linked>>
        /\ polAt' \in {"idle", "mkdir"}
    BY <1>4 DEF PolStart, PolGo, PolDone, polKernel, polFlags
  <2> QED
    BY <1>1, <1>2, <1>3, <2>1, <2>2 DEF PolHeld
<1>5. CASE PolMkdir
  <2>1. /\ polAt = "mkdir" /\ polAt' = "stat" /\ UNCHANGED <<pin, hasLease, linked, polRunning>>
        /\ lease' = [created |-> ~Exists, inode |-> 0]
    BY <1>5 DEF PolMkdir, PolIn, PolGo, NoLease
  <2>2. ~hasLease /\ (~excused => group.owner # "own" \/ occupied)
    BY <2>1 DEF PolHeld
  <2>3. CASE Exists
    <3>0. lease' = [created |-> FALSE, inode |-> 0]
      BY <2>1, <2>3, Zenon
    <3>1. UNCHANGED <<group, occupied, inodes>> /\ ~lease'.created /\ lease'.inode = 0
      BY <1>5, <2>3, <3>0 DEF PolMkdir
    <3>2. lease' \in [created : BOOLEAN, inode : 0..inodes']
      BY <3>0, <3>1 DEF PolHeld
    <3> QED
      BY <1>1, <1>2, <2>1, <2>2, <3>1, <3>2 DEF PolHeld
  <2>4. CASE ~Exists
    <3>1. /\ inodes' = inodes + 1 /\ group' = [inode |-> inodes + 1, owner |-> "own"]
          /\ lease' = [created |-> TRUE, inode |-> 0]
      BY <1>5, <2>1, <2>4 DEF PolMkdir, Create
    <3> QED
      BY <1>1, <2>1, <2>2, <3>1 DEF PolHeld
  <2> QED
    BY <2>3, <2>4
<1>6. CASE PolStat
  <2>1. polAt = "stat" /\ UNCHANGED <<group, occupied, inodes, pin, linked, polRunning>>
    BY <1>6 DEF PolStat, PolIn, polKernel
  <2>2. CASE /\ Exists
             /\ lease' = [lease EXCEPT !.inode = group.inode] /\ hasLease' = TRUE
             /\ polAt' = "lease"
    <3>1. /\ lease' = [created |-> lease.created, inode |-> group.inode]
          /\ group.inode \in 1..inodes
      BY <2>2 DEF PolHeld, Exists
    <3> QED
      BY <1>1, <1>2, <2>1, <2>2, <3>1 DEF PolHeld
  <2>3. CASE polAt' = "idle" /\ UNCHANGED <<lease, hasLease>>
    <3>1. ~excused' => ~Exists
      BY <1>1, <1>6, <2>3 DEF UndoFault, PolStat
    <3>2. Exists \/ group.owner = "none"
      BY DEF Exists, NoGroup
    <3> QED
      BY <1>1, <1>2, <2>1, <2>3, <3>1, <3>2 DEF PolHeld
  <2> QED
    BY <1>6, <2>2, <2>3 DEF PolStat, PolGo, PolDone
<1>7. CASE PolLease
  BY <1>1, <1>2, <1>7 DEF PolHeld, PolLease, PolIn, PolGo, PolDone, polKernel, polFlags
<1>8. CASE PolAttach
  BY <1>1, <1>2, <1>8 DEF PolHeld, PolAttach, PolIn, PolGo, polKernel
<1>9. CASE PolPin
  BY <1>1, <1>2, <1>9 DEF PolHeld, PolPin, PolIn, PolGo, PolDone, polFlags
<1>10. CASE PolUndo
  <2>1. /\ polAt \in {"undo", "idle"} /\ ~linked'
        /\ UNCHANGED <<group, occupied, inodes, lease, hasLease>>
        /\ polAt' \in {"cleanup", "idle"}
    BY <1>10 DEF PolUndo, PolIn, PolGo, PolDone
  <2>2. ~excused' => pin' # "own"
    <3>1. pin' = "own" => pin = "own"
      BY <1>10 DEF PolUndo
    <3> QED
      BY <1>1, <2>1, <3>1 DEF UndoFault, PolHeld
  <2> QED
    BY <1>1, <1>2, <2>1, <2>2 DEF PolHeld
<1>11. CASE PolCleanup
  <2>1. polAt \in Cleaning /\ UNCHANGED <<group, occupied, inodes, pin, lease, linked>>
        /\ ~linked
    BY <1>11 DEF PolCleanup, polKernel, Cleaning, PolHeld
  <2>2. CASE /\ Removable /\ UNCHANGED <<hasLease, polRunning>>
             /\ polAt' \in {"remove_open", "remove"}
    <3>1. group.owner \in {"old", "other"} => "lease" \in unseen'
      BY <1>2, <2>2 DEF PolHeld, Removable
    <3> QED
      BY <1>1, <1>2, <2>1, <2>2, <3>1 DEF PolHeld, Cleaning
  <2>3. CASE polAt' = "idle"
    <3>1. ~excused' => ~Removable
      BY <1>1, <2>1, <2>3 DEF UndoFault
    <3>2. ~excused' => ~(group.owner = "own" /\ ~occupied)
      <4>1. group.owner = "own" => Exists
        BY DEF Exists, NoGroup
      <4> QED
        BY <1>1, <2>1, <3>1, <4>1 DEF PolHeld, Removable, Cleaning
    <3> QED
      BY <1>1, <1>2, <2>1, <2>3, <3>2 DEF PolHeld, Cleaning
  <2> QED
    BY <1>11, <2>2, <2>3 DEF PolCleanup, PolGo, CleanupDone, PolDone
<1>12. CASE PolRemove
  <2>1. /\ polAt \in {"remove", "remove_open"} /\ polAt' = "idle"
        /\ UNCHANGED <<occupied, inodes, pin, lease, linked>>
        /\ group' = IF occupied THEN group ELSE NoGroup
        /\ ~linked
    BY <1>12 DEF PolRemove, CleanupDone, PolDone, PolHeld
  <2> QED
    BY <1>1, <1>2, <2>1 DEF PolHeld, NoGroup
<1> QED
  BY <1>4, <1>5, <1>6, <1>7, <1>8, <1>9, <1>10, <1>11, <1>12 DEF PolNext

LEMMA PolKeeps ==
  ASSUME LifeInv, PolHeld, [Next]_vars,
         call = "start" /\ polAt = "idle" /\ order[at] = "network_policy" => ~hasLease
  PROVE  PolHeld'
<1>1. CASE PolNext /\ AgentStep
  BY <1>1, PolStepKeeps
<1>2. CASE UNCHANGED polVars /\ AgentStep
  <2>1. /\ "lease" \in unseen => "lease" \in unseen'
        /\ "group" \in unseen /\ polAt \in {"remove", "remove_open"} => "group" \in unseen'
        /\ ~excused' => ~excused
    BY <1>2 DEF AgentStep, Looked, PolIn, Cleaning
  <2> QED
    BY <1>2, <2>1 DEF PolHeld, polVars, polKernel, polFlags
<1>3. AgentStep => PolNext \/ UNCHANGED polVars
  BY DEF AgentStep, kernelVars
<1>4. CASE Disturb
  <2>1. /\ unseen \subseteq unseen' /\ excused' = TRUE
        /\ UNCHANGED <<pin, lease, hasLease, linked, polRunning, polAt>>
        /\ \/ UNCHANGED <<group, inodes>>
           \/ group' = NoGroup /\ UNCHANGED inodes
           \/ /\ inodes' = inodes + 1 /\ group' = [inode |-> inodes + 1, owner |-> "other"]
              /\ IF polAt = "stat" THEN "lease" \in unseen' ELSE "group" \in unseen'
    BY <1>4 DEF Disturb, PolOther, Create, polVars, polKernel, polFlags
  <2>2. CASE UNCHANGED <<group, inodes>>
    BY <2>1, <2>2 DEF PolHeld
  <2>3. CASE group' = NoGroup /\ UNCHANGED inodes
    BY <2>1, <2>3 DEF PolHeld, NoGroup
  <2>4. CASE /\ inodes' = inodes + 1 /\ group' = [inode |-> inodes + 1, owner |-> "other"]
             /\ IF polAt = "stat" THEN "lease" \in unseen' ELSE "group" \in unseen'
    BY <2>1, <2>4 DEF PolHeld
  <2> QED
    BY <2>1, <2>2, <2>3, <2>4
<1>5. CASE NewAgent
  <2>1. /\ UNCHANGED inodes /\ lease' = [created |-> FALSE, inode |-> 0] /\ ~hasLease' /\ ~linked'
        /\ polAt' = "idle" /\ pin' # "own"
        /\ group' = IF group.owner = "own" THEN [group EXCEPT !.owner = "old"] ELSE group
    BY <1>5 DEF NewAgent, PolReset, NoLease
  <2>2. group' = NoGroup \/ group' \in [inode : 1..inodes, owner : {"old", "other"}]
    BY <2>1 DEF PolHeld, NoGroup
  <2> QED
    BY <2>1, <2>2 DEF PolHeld, NoGroup
<1>6. CASE UNCHANGED vars
  BY <1>6 DEF vars, kernelVars, polVars, polKernel, polFlags, PolHeld
<1> QED
  BY <1>1, <1>2, <1>3, <1>4, <1>5, <1>6 DEF Next

(* A lease is given back by the rollback or the stop of its skill: a start *)
(* that failed leaves it to them.  An agent that ends in good order has    *)
(* called them all.                                                        *)
LeaseInv ==
  /\ phase = "load" => ~hasLease
  /\ phase = "starting" /\ hasLease => "network_policy" \in Below(at - 1) \/ polAt # "idle"
  /\ phase = "running" /\ hasLease => "network_policy" \in Below(Len(order))
  /\ phase \in Down /\ hasLease => "network_policy" \in Below(at)
  /\ phase = "exited" /\ ~excused => RunningSkills = {} /\ ~hasLease

LEMMA LeaseFresh ==
  ASSUME LifeInv, LeaseInv, call = "start", polAt = "idle", order[at] = "network_policy"
  PROVE  ~hasLease
<1>1. phase = "starting" /\ at \in 1..Len(order) /\ Sound(order)
  BY DEF LifeInv, ManagerInv
<1>2. "network_policy" \notin Below(at - 1)
  BY <1>1, AtFacts
<1> QED
  BY <1>1, <1>2 DEF LeaseInv

(* What a call of network_policy does with the lease.                      *)
LEMMA PolLeaseStep ==
  ASSUME LifeInv, PolNext
  PROVE  /\ call # "none" /\ order[at] = "network_policy"
         /\ \/ /\ UNCHANGED managerVars /\ polAt' # "idle"
               /\ hasLease' => hasLease \/ call = "start"
            \/ \E result \in {"ok", "failed"} :
                 /\ Return(result) /\ polAt' = "idle"
                 /\ call # "start" => result = "ok" /\ ~hasLease'
<1>1. /\ call # "none" /\ order[at] = "network_policy"
      /\ polAt \in PolStarting => call = "start"
  BY DEF LifeInv, BusyInv, Busy, PolStarting, PolNext, PolStart, PolMkdir, PolStat, PolLease,
     PolAttach, PolPin, PolUndo, PolCleanup, PolRemove, PolIn, InCall, Cleaning
<1>2. CASE PolStart
  BY <1>1, <1>2 DEF PolStart, PolIn, InCall, PolGo, PolDone, polFlags
<1>3. CASE PolMkdir
  BY <1>1, <1>3 DEF PolMkdir, PolGo
<1>4. CASE PolStat
  BY <1>1, <1>4 DEF PolStat, PolIn, InCall, PolGo, PolDone
<1>5. CASE PolLease
  BY <1>1, <1>5 DEF PolLease, PolIn, InCall, PolGo, PolDone, polFlags
<1>6. CASE PolAttach
  BY <1>1, <1>6 DEF PolAttach, PolGo
<1>7. CASE PolPin
  BY <1>1, <1>7 DEF PolPin, PolIn, InCall, PolGo, PolDone, polFlags
<1>8. CASE PolUndo
  BY <1>1, <1>8 DEF PolUndo, PolGo, PolDone
<1>9. CASE PolCleanup
  <2>1. CASE /\ PolGo(IF polAt = "cleanup_open" THEN "remove_open" ELSE "remove")
             /\ UNCHANGED <<hasLease, polRunning>>
    BY <1>1, <2>1 DEF PolGo
  <2>2. CASE CleanupDone
    BY <1>1, <2>2 DEF CleanupDone, PolDone, PolStarting
  <2> QED
    BY <1>9, <2>1, <2>2 DEF PolCleanup
<1>10. CASE PolRemove
  BY <1>1, <1>10 DEF PolRemove, CleanupDone, PolDone, PolStarting
<1> QED
  BY <1>1, <1>2, <1>3, <1>4, <1>5, <1>6, <1>7, <1>8, <1>9, <1>10 DEF PolNext

(* The end of a call, of network_policy or of another skill.               *)
LEMMA LeaseEnds ==
  ASSUME LifeInv, LeaseInv, call # "none", NEW result \in Returns, Return(result),
         polAt' = "idle",
         \/ UNCHANGED hasLease /\ polAt = "idle" /\ order[at] # "network_policy"
         \/ order[at] = "network_policy" /\ (call # "start" => result = "ok" /\ ~hasLease'),
         excused' \/ ~UndoFault
  PROVE  LeaseInv'
<1>0. UNCHANGED order
  BY DEF Return
<1>1. /\ at \in 1..Len(order) /\ Len(order) \in Nat /\ Sound(order)
      /\ UNCHANGED order /\ phase \in {"starting"} \cup Down
      /\ call = "start" <=> phase = "starting"
  BY <1>0 DEF LifeInv, ManagerInv, Sound, Down
<1>2. /\ Below(at) = Below(at - 1) \cup {order[at]}
      /\ Below(at) \subseteq Below(Len(order))
  BY <1>1, AtFacts DEF Below
<1>3. \A n : Below(n)' = Below(n)
  BY <1>1 DEF Below
<1>4. CASE phase = "starting"
  <2>1. hasLease' => "network_policy" \in Below(at)
    BY <1>1, <1>2, <1>4 DEF LeaseInv
  <2>2. CASE result = "ok"
    <3>1. at' - 1 = at /\ phase' = "starting"
      BY <1>1, <1>4, <2>2 DEF Return
    <3>2. Below(at - 1)' = Below(at)
      BY <1>1, <3>1 DEF Below
    <3> QED
      BY <2>1, <3>1, <3>2 DEF LeaseInv, Down
  <2>3. CASE result # "ok"
    <3>1. at' = Len(order) /\ phase' \in {"rolling_back", "handler"}
      BY <1>1, <1>4, <2>3 DEF Return, Enter, Thrown, Returns
    <3>2. Below(at)' = Below(Len(order))
      BY <1>1, <3>1 DEF Below
    <3> QED
      BY <1>2, <2>1, <3>1, <3>2 DEF LeaseInv, Down
  <2> QED
    BY <2>2, <2>3
<1>5. CASE phase \in Down
  <2>1. hasLease' => /\ hasLease /\ "network_policy" \in Below(at)
                     /\ "network_policy" # order[at]
    BY <1>1, <1>5 DEF LeaseInv, Down
  <2>2. CASE at' = at - 1 /\ phase' = phase
    <3>1. Below(at)' = Below(at - 1)
      BY <1>1, <2>2 DEF Below
    <3> QED
      BY <1>2, <1>5, <2>1, <2>2, <3>1 DEF LeaseInv, Down
  <2>3. CASE at' = Len(order) /\ phase' = "handler"
    <3>1. Below(at)' = Below(Len(order))
      BY <1>1, <2>3 DEF Below
    <3> QED
      BY <1>2, <2>1, <2>3, <3>1 DEF LeaseInv, Down
  <2>4. CASE phase' = "exited" /\ phase = "handler"
    <3>1. excused'
      BY <1>1, <2>4 DEF UndoFault
    <3> QED
      BY <2>4, <3>1 DEF LeaseInv, Down
  <2> QED
    BY <1>1, <1>5, <2>2, <2>3, <2>4 DEF Return, Enter, Thrown, Returns, Down
<1> QED
  BY <1>1, <1>4, <1>5

LEMMA LeaseKeeps ==
  ASSUME LifeInv, LeaseInv, [Next]_vars
  PROVE  LeaseInv'
<1>0. Len(order) \in Nat
  BY DEF LifeInv, ManagerInv, Sound
<1>1. CASE AgentStep /\ PolNext
  <2>1. /\ call # "none" /\ order[at] = "network_policy"
        /\ excused' \/ ~UndoFault
    BY <1>1, PolLeaseStep DEF AgentStep
  <2>2. CASE /\ UNCHANGED managerVars /\ polAt' # "idle"
             /\ hasLease' => hasLease \/ call = "start"
    <3>1. /\ UNCHANGED <<order, phase, at, call>> /\ phase \in {"starting"} \cup Down
          /\ call = "start" => phase = "starting"
      BY <2>1, <2>2 DEF managerVars, LifeInv, ManagerInv
    <3>2. Below(at)' = Below(at)
      BY <3>1 DEF Below
    <3> QED
      BY <2>2, <3>1, <3>2 DEF LeaseInv, Down
  <2>3. CASE \E result \in {"ok", "failed"} :
                 /\ Return(result) /\ polAt' = "idle"
                 /\ call # "start" => result = "ok" /\ ~hasLease'
    BY <2>1, <2>3, LeaseEnds DEF Returns
  <2> QED
    BY <1>1, <2>2, <2>3, PolLeaseStep
<1>2. CASE AgentStep /\ UNCHANGED polVars
  <2>0. /\ ~excused' => ~excused
        /\ excused' \/ ~UndoFault
        /\ UNCHANGED <<hasLease, polAt>>
    BY <1>2 DEF AgentStep, polVars, polFlags
  <2>1. CASE ManagerNext /\ UNCHANGED RunningSkills
    <3>1. call = "none" /\ polAt = "idle"
      BY <2>1 DEF LifeInv, ManagerInv, BusyInv, Busy, ManagerNext, Load, Call, Advance, RunEnds, Down
    <3>2. CASE Load
      BY <2>0, <3>1, <3>2 DEF Load, LeaseInv, Down
    <3>3. CASE Call
      <4>1. UNCHANGED <<order, phase, at>> /\ phase \in {"starting"} \cup Down
        BY <3>3 DEF Call, FunctionOf, Down
      <4>2. Below(at)' = Below(at) /\ Below(at - 1)' = Below(at - 1)
        BY <4>1 DEF Below
      <4> QED
        BY <2>0, <4>1, <4>2 DEF LeaseInv, Down
    <3>4. CASE Advance
      <4>1. /\ UNCHANGED <<order, call>> /\ phase \in {"starting"} \cup Down
            /\ at \notin 1..Len(order) /\ Enter(After)
        BY <3>4 DEF Advance, FunctionOf, Down
      <4>2. CASE phase = "starting"
        <5>1. at - 1 = Len(order) /\ phase' = "running"
          BY <1>0, <4>1, <4>2 DEF LifeInv, ManagerInv, Enter, After
        <5>2. Below(Len(order))' = Below(at - 1)
          BY <4>1, <5>1 DEF Below
        <5> QED
          BY <2>0, <3>1, <4>2, <5>1, <5>2 DEF LeaseInv, Down
      <4>3. CASE phase \in Down
        <5>1. at = 0 /\ Below(at) = {}
          BY <1>0, <4>1, <4>3 DEF LifeInv, ManagerInv, Below
        <5>2. ~hasLease /\ RunningSkills = {}
          BY <4>3, <5>1 DEF LeaseInv, LifeInv, RunningInv
        <5>3. phase' \in {"stopping", "handler", "exited"}
          BY <4>1, <4>3 DEF Enter, After, Down
        <5> QED
          BY <2>0, <2>1, <5>2, <5>3 DEF LeaseInv
      <4> QED
        BY <4>1, <4>2, <4>3
    <3>5. CASE RunEnds
      <4>1. UNCHANGED order /\ phase = "running" /\ phase' \in {"ending", "handler"} /\ at' = Len(order)
        BY <3>5 DEF RunEnds, Enter
      <4>2. Below(at)' = Below(Len(order))
        BY <4>1 DEF Below
      <4> QED
        BY <2>0, <4>1, <4>2 DEF LeaseInv, Down
    <3> QED
      BY <2>1, <3>2, <3>3, <3>4, <3>5 DEF ManagerNext
  <2>2. CASE UNCHANGED <<managerVars, RunningSkills>>
    <3>1. UNCHANGED <<order, phase, at>>
      BY <2>2 DEF managerVars
    <3>2. Below(at)' = Below(at) /\ Below(at - 1)' = Below(at - 1) /\ Below(Len(order))' = Below(Len(order))
      BY <3>1 DEF Below
    <3> QED
      BY <2>0, <2>2, <3>1, <3>2 DEF LeaseInv, Down
  <2>3. ASSUME NEW s, NEW result, Ends(s, result), s # "network_policy"
        PROVE  LeaseInv'
    <3>1. call # "none" /\ order[at] # "network_policy" /\ result \in Returns /\ Return(result)
      BY <2>3 DEF Ends
    <3>2. polAt = "idle"
      BY <3>1 DEF LifeInv, BusyInv, Busy
    <3> QED
      BY <2>0, <3>1, <3>2, LeaseEnds
  <2>4. CASE ManagerNext /\ UNCHANGED <<kernelVars, plainRunning>>
    <3>1. UNCHANGED RunningSkills
      BY <2>4, RunningChange DEF LifeInv, BusyInv, kernelVars, qosVars, polVars, xdpVars
    <3> QED
      BY <2>1, <2>4, <3>1
  <2>5. CASE (\E s \in Plain : PlainCall(s)) /\ UNCHANGED kernelVars
    <3>1. PICK s \in Plain : PlainCall(s)
      BY <2>5
    <3>2. s # "network_policy"
      BY DEF Plain, Network
    <3> QED
      BY <2>3, <2>5, <3>1, <3>2, PlainEnds DEF LifeInv
  <2>6. CASE QosNext /\ UNCHANGED <<polVars, xdpVars, plainRunning>>
    BY <2>2, <2>3, <2>6, QosEnds DEF LifeInv
  <2>7. CASE XdpNext /\ UNCHANGED <<qosVars, polVars, plainRunning>>
    BY <2>2, <2>3, <2>7, XdpEnds DEF LifeInv
  <2>8. CASE PolNext
    BY <1>1, <1>2, <2>8
  <2> QED
    BY <1>2, <2>4, <2>5, <2>6, <2>7, <2>8 DEF AgentStep
<1>3. AgentStep => PolNext \/ UNCHANGED polVars
  BY DEF AgentStep, kernelVars
<1>4. CASE Disturb \/ UNCHANGED vars
  <2>1. /\ UNCHANGED <<order, phase, at, hasLease, polAt, RunningSkills>>
        /\ ~excused' => ~excused
    <3>1. /\ UNCHANGED <<order, phase, at, hasLease, polAt, plainRunning, qosRunning, polRunning, xdpRunning>>
          /\ ~excused' => ~excused
      BY <1>4 DEF Disturb, vars, kernelVars, managerVars, QosOther, PolOther, XdpOther, qosVars,
         polVars, polFlags, xdpVars
    <3> QED
      BY <3>1, RunningChange DEF LifeInv, BusyInv
  <2>2. /\ Below(at)' = Below(at) /\ Below(at - 1)' = Below(at - 1)
        /\ Below(Len(order))' = Below(Len(order))
    BY <2>1 DEF Below
  <2> QED
    BY <2>1, <2>2 DEF LeaseInv, Down
<1>5. CASE NewAgent
  BY <1>5 DEF NewAgent, Renew, PolReset, LeaseInv, Down
<1> QED
  BY <1>1, <1>2, <1>3, <1>4, <1>5 DEF Next

HeldInv == LifeInv /\ XdpHeld /\ QosHeld /\ PolHeld /\ LeaseInv

LEMMA HeldInit ==
  ASSUME Init
  PROVE  HeldInv
<1>1. LifeInv
  BY LifeInit
<1>2. XdpHeld /\ QosHeld
  BY DEF Init, XdpInit, QosInit, XdpHeld, QosHeld
<1>3. PolHeld
  BY DEF Init, PolInit, PolHeld, NoGroup, NoLease
<1>4. LeaseInv
  BY DEF Init, ManagerInit, PolInit, LeaseInv, Down
<1> QED
  BY <1>1, <1>2, <1>3, <1>4 DEF HeldInv

LEMMA HeldStep ==
  ASSUME HeldInv, [Next]_vars
  PROVE  HeldInv'
<1>1. LifeInv /\ XdpHeld /\ QosHeld /\ PolHeld /\ LeaseInv
  BY DEF HeldInv
<1>2. LifeInv' /\ LeaseInv'
  BY <1>1, LifeStep, LeaseKeeps
<1>3. XdpHeld' /\ QosHeld'
  BY <1>1, XdpKeeps, QosKeeps
<1>4. PolHeld'
  BY <1>1, LeaseFresh, PolKeeps
<1> QED
  BY <1>2, <1>3, <1>4 DEF HeldInv

(* The agent that has ended leaves nothing of its own in the kernel unless *)
(* others acted or a command of the undo failed.                           *)
THEOREM EndIsClean == Spec => []EndLeavesNothing
<1>1. ASSUME HeldInv PROVE EndLeavesNothing
  <2> SUFFICES ASSUME phase = "exited", ~excused
               PROVE  /\ xdp # "own" /\ root # "own" /\ "own" \notin filters
                      /\ ~linked /\ pin # "own"
                      /\ group.owner = "own" => occupied
    BY DEF EndLeavesNothing
  <2>1. call = "none" /\ xdpAt = "idle" /\ qosAt = "idle" /\ polAt = "idle"
    BY <1>1 DEF HeldInv, LifeInv, ManagerInv, BusyInv, Busy, Down
  <2>2. ~xdpRunning /\ ~qosRunning /\ ~polRunning /\ ~hasLease
    BY <1>1 DEF HeldInv, LeaseInv, RunningSkills, Network
  <2>3. xdp # "own"
    BY <1>1, <2>1, <2>2 DEF HeldInv, XdpHeld
  <2>4. root # "own" /\ "own" \notin filters
    BY <1>1, <2>1, <2>2 DEF HeldInv, QosHeld
  <2>5. ~linked /\ pin # "own" /\ (group.owner = "own" => occupied)
    BY <1>1, <2>1, <2>2 DEF HeldInv, PolHeld
  <2> QED
    BY <2>3, <2>4, <2>5
<1> QED
  BY <1>1, HeldInit, HeldStep, PTL DEF Spec

(* The agent takes away no program, qdisc, hook, filter or cgroup that is  *)
(* not its own, unless it was put there after the agent had looked, or was *)
(* taken for the agent's own when it looked.                               *)
THEOREM OthersAreLeftAlone == Spec => ForeignKept
<1> DEFINE Foreign ==
      /\ xdp \in {"old", "other"} => xdp' = xdp \/ "xdp" \in unseen
      /\ root \in {"old", "other", "rival"} =>
           root' = root \/ "root" \in unseen \/ (root = "rival" /\ Adopted)
      /\ group.owner \in {"old", "other"} =>
           group' = group \/ unseen \cap {"group", "lease"} # {}
      /\ hook # "none" => hook' = hook
      /\ ~hookCreated => filters \ {"own"} \subseteq filters'
<1>1. ASSUME HeldInv, AgentStep PROVE Foreign
  <2>1. xdp \in {"old", "other"} => xdp' = xdp \/ "xdp" \in unseen
    BY <1>1 DEF HeldInv, XdpHeld, AgentStep, kernelVars, xdpVars, XdpNext, XdpStart, XdpAttach,
       XdpVerify, XdpLook, XdpDetach
  <2>2. root \in {"old", "other", "rival"} =>
          root' = root \/ "root" \in unseen \/ (root = "rival" /\ Adopted)
    BY <1>1 DEF HeldInv, QosHeld, AgentStep, kernelVars, qosVars, qosKernel, QosNext, QosStart,
       QosHook, QosAttach, QosReplace, QosVerify, QosLook, QosDelete, QosDetach, QosIn
  <2>3. group.owner \in {"old", "other"} =>
          group' = group \/ unseen \cap {"group", "lease"} # {}
    <3> SUFFICES ASSUME group.owner \in {"old", "other"}
                 PROVE  group' = group \/ unseen \cap {"group", "lease"} # {}
      OBVIOUS
    <3>1. Exists
      BY DEF Exists, NoGroup
    <3> QED
      BY <1>1, <3>1 DEF HeldInv, PolHeld, AgentStep, kernelVars, polVars, polKernel, PolNext,
         PolStart, PolMkdir, PolStat, PolLease, PolAttach, PolPin, PolUndo, PolCleanup, PolRemove
  <2>4. /\ hook # "none" => hook' = hook
        /\ ~hookCreated => filters \ {"own"} \subseteq filters'
    BY <1>1 DEF AgentStep, kernelVars, qosVars, qosKernel, QosNext, QosStart,
       QosHook, QosAttach, QosReplace, QosVerify, QosLook, QosDelete, QosDetach
  <2> QED
    BY <2>1, <2>2, <2>3, <2>4
<1>2. HeldInv /\ [Next]_vars => [AgentStep => Foreign]_vars
  <2> HIDE DEF Foreign
  <2> QED
    BY <1>1
<1> QED
  BY <1>2, HeldInit, HeldStep, PTL DEF Spec, ForeignKept
=============================================================================
