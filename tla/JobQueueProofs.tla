--------------------------- MODULE JobQueueProofs ---------------------------
(***************************************************************************)
(* Proofs about the array heap, for any jobs, any order of them and any    *)
(* length: the array stays a heap, job.index stays sound, and the array    *)
(* implements the bag of entries that the scheduler model works with.      *)
(* The loops of container/heap are functions of the number of turns taken; *)
(* what they leave is shown by induction on that number.                   *)
(***************************************************************************)
EXTENDS JobQueue, SequenceTheorems, Sums

-----------------------------------------------------------------------------
(* Loops *)

\* What holds at 0 and with every number at the next one holds up to n.
LEMMA Turns ==
    ASSUME NEW n \in Nat, NEW P, 0 \in P,
           \A k \in 0 .. n : k \in P /\ k < n => k + 1 \in P
    PROVE  n \in P
<1> SUFFICES ASSUME n \notin P PROVE FALSE
  OBVIOUS
<1> DEFINE B == {k \in 0 .. n : k \notin P}
<1>1. B \in SUBSET Nat /\ B # {}
  OBVIOUS
<1>2. PICK m \in B : \A k \in B : m <= k
  BY <1>1, LeastNatural
<1>3. m \in 0 .. n /\ m \notin P /\ m # 0
  BY <1>2
<1>4. m - 1 \in 0 .. n /\ m - 1 < n /\ (m - 1) + 1 = m /\ ~(m <= m - 1)
  BY <1>3
<1>5. m - 1 \in P
  BY <1>2, <1>4
<1> QED
  BY <1>3, <1>4, <1>5

\* The states of a loop that starts in x and takes n turns.
Loop(g, x, step, n) ==
    g = [k \in 0 .. n |-> IF k = 0 THEN x ELSE step[g[k - 1]]]

\* A loop has its states.
LEMMA LoopExists ==
    ASSUME NEW T, NEW x \in T, NEW step \in [T -> T], NEW n \in Nat
    PROVE  \E g \in [0 .. n -> T] : Loop(g, x, step, n)
<1> DEFINE P == {m \in Nat : \E g \in [0 .. m -> T] : Loop(g, x, step, m)}
<1>1. 0 \in P
  <2> DEFINE g == [k \in 0 .. 0 |-> x]
  <2>1. g \in [0 .. 0 -> T]
    OBVIOUS
  <2>2. Loop(g, x, step, 0)
    BY DEF Loop
  <2> QED
    BY <2>1, <2>2
<1>2. ASSUME NEW m \in 0 .. n, m \in P
      PROVE  m + 1 \in P
  <2>1. PICK g \in [0 .. m -> T] : Loop(g, x, step, m)
    BY <1>2
  <2> DEFINE f == [k \in 0 .. m + 1 |-> IF k = m + 1 THEN step[g[m]] ELSE g[k]]
  <2>2. f \in [0 .. m + 1 -> T]
    OBVIOUS
  <2>3. ASSUME NEW k \in 0 .. m + 1
        PROVE  f[k] = IF k = 0 THEN x ELSE step[f[k - 1]]
    <3>1. CASE k = 0
      BY <3>1, <2>1 DEF Loop
    <3>2. CASE k = m + 1
      BY <3>2
    <3>3. CASE k # 0 /\ k # m + 1
      <4>1. k \in 0 .. m /\ k - 1 \in 0 .. m
        BY <3>3
      <4>2. g[k] = step[g[k - 1]]
        BY <2>1, <3>3, <4>1 DEF Loop
      <4> QED
        BY <3>3, <4>1, <4>2
    <3> QED
      BY <3>1, <3>2, <3>3
  <2>4. Loop(f, x, step, m + 1)
    BY <2>3 DEF Loop
  <2> QED
    BY <2>2, <2>4
<1>3. n \in P
  <2> HIDE DEF P
  <2> QED
    BY <1>1, <1>2, Turns
<1> QED
  BY <1>3

-----------------------------------------------------------------------------
(* Positions *)

\* The parent of a position, and who its children are.
LEMMA Halves ==
    ASSUME NEW p \in Nat, p > 1
    PROVE  /\ p \div 2 \in Nat /\ 1 <= p \div 2 /\ p \div 2 < p
           /\ p = 2 * (p \div 2) \/ p = 2 * (p \div 2) + 1
  OBVIOUS

-----------------------------------------------------------------------------
(* Arrays *)

\* Arrays of n entries, with the jobs' indices.
Arrays(n) == [q : [1 .. n -> Jobs], ix : [Jobs -> Nat]]

\* Entry p is not before its parent.
Placed(h, p) == Order[h.q[p \div 2]] <= Order[h.q[p]]

\* An index that is set is the position of an entry of its job.
Sound(h, n) == \A j \in Jobs : h.ix[j] # 0 => h.ix[j] \in 1 .. n /\ h.q[h.ix[j]] = j

\* The positions that hold a job.
Holds(h, j, n) == {p \in 1 .. n : h.q[p] = j}

\* g has the entries of h in some order, and no index is lost.
Shuffled(h, g, n) ==
    /\ g \in Arrays(n) /\ Sound(g, n)
    /\ \A j \in Jobs : Cardinality(Holds(g, j, n)) = Cardinality(Holds(h, j, n))
    /\ \A j \in Jobs : h.ix[j] # 0 => g.ix[j] # 0

\* What is shuffled twice is shuffled.
LEMMA ShuffledTwice ==
    ASSUME NEW n, NEW h, NEW g, NEW f, Shuffled(h, g, n), Shuffled(g, f, n)
    PROVE  Shuffled(h, f, n)
  BY DEF Shuffled

\* An array is a shuffle of itself.
LEMMA ShuffledSelf ==
    ASSUME NEW n, NEW h \in Arrays(n), Sound(h, n)
    PROVE  Shuffled(h, h, n)
  BY DEF Shuffled

\* g is h after entries i and k changed places.
Swapped(h, g, i, k, n) ==
    /\ g \in Arrays(n) /\ g.q[i] = h.q[k] /\ g.q[k] = h.q[i]
    /\ \A p \in 1 .. n : p # i /\ p # k => g.q[p] = h.q[p]
    /\ \A j \in Jobs :
          g.ix[j] = IF j = h.q[i] THEN k ELSE IF j = h.q[k] THEN i ELSE h.ix[j]

\* What Swap does to the entries.
LEMMA SwapEntries ==
    ASSUME NEW n \in Nat, NEW h \in Arrays(n), NEW i \in 1 .. n, NEW k \in 1 .. n
    PROVE  Swapped(h, Swap(h, i, k), i, k, n)
<1>1. PICK a : a = [h.q EXCEPT ![i] = h.q[k], ![k] = h.q[i]]
  OBVIOUS
<1>2. PICK b : b = [h.ix EXCEPT ![h.q[k]] = i, ![h.q[i]] = k]
  OBVIOUS
<1>3. h.q \in [1 .. n -> Jobs] /\ h.ix \in [Jobs -> Nat]
  BY DEF Arrays
<1>4. h.q[i] \in Jobs /\ h.q[k] \in Jobs /\ i \in Nat /\ k \in Nat
  BY <1>3
<1>5. /\ a \in [1 .. n -> Jobs] /\ a[i] = h.q[k] /\ a[k] = h.q[i]
      /\ \A p \in 1 .. n : p # i /\ p # k => a[p] = h.q[p]
  BY <1>1, <1>3, <1>4
<1>6. /\ b \in [Jobs -> Nat]
      /\ \A j \in Jobs : b[j] = IF j = h.q[i] THEN k ELSE IF j = h.q[k] THEN i ELSE h.ix[j]
  BY <1>2, <1>3, <1>4
<1>7. PICK g : g = Swap(h, i, k)
  OBVIOUS
<1>8. g = [q |-> a, ix |-> b]
  BY <1>1, <1>2, <1>7 DEF Swap
<1>9. Swapped(h, g, i, k, n)
  BY <1>5, <1>6, <1>8 DEF Arrays, Swapped
<1> QED
  BY <1>7, <1>9

\* Swap shuffles: the indices it sets are those of the entries it moves.
LEMMA SwapShuffles ==
    ASSUME NEW n \in Nat, NEW h \in Arrays(n), Sound(h, n),
           NEW i \in 1 .. n, NEW k \in 1 .. n
    PROVE  Shuffled(h, Swap(h, i, k), n)
<1>1. PICK g : g = Swap(h, i, k)
  OBVIOUS
<1>0. Swapped(h, g, i, k, n)
  BY <1>1, SwapEntries
<1>2. /\ g \in Arrays(n) /\ g.q[i] = h.q[k] /\ g.q[k] = h.q[i]
      /\ \A p \in 1 .. n : p # i /\ p # k => g.q[p] = h.q[p]
      /\ \A j \in Jobs : g.ix[j] = IF j = h.q[i] THEN k ELSE IF j = h.q[k] THEN i ELSE h.ix[j]
  BY <1>0 DEF Swapped
<1>3. Sound(g, n)
  <2> SUFFICES ASSUME NEW j \in Jobs, g.ix[j] # 0
               PROVE  g.ix[j] \in 1 .. n /\ g.q[g.ix[j]] = j
    BY DEF Sound
  <2>1. CASE j = h.q[i]
    BY <2>1, <1>2
  <2>2. CASE j # h.q[i] /\ j = h.q[k]
    BY <2>2, <1>2
  <2>3. CASE j # h.q[i] /\ j # h.q[k]
    <3>1. g.ix[j] = h.ix[j] /\ h.ix[j] \in 1 .. n /\ h.q[h.ix[j]] = j
      BY <2>3, <1>2 DEF Sound
    <3>2. h.ix[j] # i /\ h.ix[j] # k
      BY <3>1, <2>3
    <3> QED
      BY <3>1, <3>2, <1>2
  <2> QED
    BY <2>1, <2>2, <2>3
<1>4. ASSUME NEW j \in Jobs
      PROVE  Cardinality(Holds(g, j, n)) = Cardinality(Holds(h, j, n))
  <2>1. PICK S : S = Holds(h, j, n)
    OBVIOUS
  <2>2. PICK U : U = Holds(g, j, n)
    OBVIOUS
  <2> DEFINE move(p) == IF p = i THEN k ELSE IF p = k THEN i ELSE p
             f == [p \in S |-> move(p)]
  <2>3. IsFiniteSet(S)
    <3>1. S \subseteq 1 .. n /\ IsFiniteSet(1 .. n)
      BY <2>1, FS_Interval DEF Holds
    <3> QED
      BY <3>1, FS_Subset
  <2>4. \A p \in S : move(p) \in U
    BY <1>2, <2>1, <2>2 DEF Holds
  <2>5. \A p \in U : move(p) \in S /\ move(move(p)) = p
    BY <1>2, <2>1, <2>2 DEF Holds
  <2>6. \A p, r \in S : move(p) = move(r) => p = r
    OBVIOUS
  <2>7. f \in Bijection(S, U)
    <3>1. f \in [S -> U] /\ \A p, r \in S : f[p] = f[r] => p = r
      BY <2>4, <2>6
    <3>2. \A p \in U : \E r \in S : f[r] = p
      BY <2>5
    <3> QED
      BY <3>1, <3>2 DEF Bijection, Injection, Surjection, IsInjective
  <2>8. ExistsBijection(S, U)
    BY <2>7 DEF ExistsBijection
  <2> QED
    BY <2>1, <2>2, <2>3, <2>8, FS_Bijection
<1>5. ASSUME NEW j \in Jobs, h.ix[j] # 0
      PROVE  g.ix[j] # 0
  BY <1>2, <1>5
<1> QED
  BY <1>1, <1>2, <1>3, <1>4, <1>5 DEF Shuffled

-----------------------------------------------------------------------------
(* up *)

\* The states of a loop over an array of n entries.
Sifts(n) == [h : Arrays(n), i : 1 .. n]

\* The first m entries are a heap.
Heaped(h, m) == \A p \in 2 .. m : Placed(h, p)

\* Among the first m entries only entry s.i may be before its parent, and its
\* children are not before its parent.
UpInv(s, m) ==
    /\ s.i <= m
    /\ \A p \in 2 .. m : p # s.i => Placed(s.h, p)
    /\ s.i > 1 => \A c \in 2 .. m :
                    c \div 2 = s.i => Order[s.h.q[s.i \div 2]] <= Order[s.h.q[c]]

\* A loop state has an array and a position; jobs have places in the order.
LEMMA SiftType ==
    ASSUME NEW n \in Nat, NEW s \in Sifts(n)
    PROVE  /\ s.h \in Arrays(n) /\ s.i \in 1 .. n
           /\ \A p \in 1 .. n : s.h.q[p] \in Jobs /\ Order[s.h.q[p]] \in Nat
  BY QueueAssumption DEF Sifts, Arrays

\* A turn of up ends the loop or swaps the entry with its parent.
LEMMA UpTurn ==
    ASSUME NEW n \in Nat, NEW s \in Sifts(n)
    PROVE  \/ /\ UpStep(s) = s
              /\ s.i = 1 \/ Placed(s.h, s.i)
           \/ /\ s.i > 1 /\ Order[s.h.q[s.i]] < Order[s.h.q[s.i \div 2]]
              /\ UpStep(s) \in Sifts(n)
              /\ UpStep(s).i = s.i \div 2
              /\ UpStep(s).h = Swap(s.h, s.i \div 2, s.i)
<1>1. /\ s.h \in Arrays(n) /\ s.i \in 1 .. n
      /\ \A p \in 1 .. n : s.h.q[p] \in Jobs /\ Order[s.h.q[p]] \in Nat
  BY SiftType
<1>2. CASE s.i > 1 /\ Less(s.h, s.i, s.i \div 2)
  <2>1. UpStep(s) = [h |-> Swap(s.h, s.i \div 2, s.i), i |-> s.i \div 2]
    BY <1>2 DEF UpStep
  <2>2. s.i \div 2 \in 1 .. n
    BY <1>1, <1>2, Halves
  <2>3. Swap(s.h, s.i \div 2, s.i) \in Arrays(n)
    BY <1>1, <2>2, SwapEntries DEF Swapped
  <2> QED
    BY <1>2, <2>1, <2>2, <2>3 DEF Sifts, Less
<1>3. CASE ~(s.i > 1 /\ Less(s.h, s.i, s.i \div 2))
  <2>1. UpStep(s) = s
    BY <1>3 DEF UpStep
  <2>2. s.i = 1 \/ Placed(s.h, s.i)
    <3>1. CASE s.i = 1
      BY <3>1
    <3>2. CASE s.i > 1
      <4>1. s.i \div 2 \in 1 .. n
        BY <1>1, <3>2, Halves
      <4> QED
        BY <1>1, <1>3, <3>2, <4>1 DEF Less, Placed
    <3> QED
      BY <1>1, <3>1, <3>2
  <2> QED
    BY <2>1, <2>2
<1> QED
  BY <1>2, <1>3

\* A swap with the parent moves the misplaced entry to the parent's place.
LEMMA UpSwap ==
    ASSUME NEW n \in Nat, NEW m \in 0 .. n, NEW s \in Sifts(n), NEW t \in Sifts(n),
           UpInv(s, m), s.i > 1, Order[s.h.q[s.i]] < Order[s.h.q[s.i \div 2]],
           t.i = s.i \div 2, Swapped(s.h, t.h, s.i \div 2, s.i, n)
    PROVE  UpInv(t, m)
<1>1. PICK i, r : i = s.i /\ r = s.i \div 2
  OBVIOUS
<1>2. PICK f : f = [p \in 1 .. n |-> Order[s.h.q[p]]]
  OBVIOUS
<1>3. PICK g : g = [p \in 1 .. n |-> Order[t.h.q[p]]]
  OBVIOUS
<1>4. i \in 1 .. n /\ i <= m /\ r \in 1 .. n /\ r < i /\ i \div 2 = r /\ i > 1
  BY <1>1, SiftType, Halves DEF UpInv
<1>5. \A p \in 1 .. n : f[p] \in Nat /\ g[p] \in Nat
  BY <1>2, <1>3, SiftType
<1>6. /\ \A p \in 2 .. m : p # i => f[p \div 2] <= f[p]
      /\ \A c \in 2 .. m : c \div 2 = i => f[r] <= f[c]
      /\ f[i] < f[r]
  <2>1. \A p \in 2 .. m : p \in 1 .. n /\ p \div 2 \in 1 .. n
    BY Halves
  <2> QED
    BY <1>1, <1>2, <1>4, <2>1 DEF UpInv, Placed
<1>7. /\ g[r] = f[i] /\ g[i] = f[r]
      /\ \A p \in 1 .. n : p # r /\ p # i => g[p] = f[p]
  BY <1>1, <1>2, <1>3, <1>4 DEF Swapped
<1>8. ASSUME NEW p \in 2 .. m, p # r
      PROVE  g[p \div 2] <= g[p]
  <2>1. p \in 1 .. n /\ p \div 2 \in 1 .. n /\ p \div 2 < p
    BY Halves
  <2>2. CASE p = i
    BY <1>4, <1>5, <1>6, <1>7, <2>2
  <2>3. CASE p # i /\ p \div 2 = i
    BY <1>4, <1>5, <1>6, <1>7, <1>8, <2>1, <2>3
  <2>4. CASE p # i /\ p \div 2 = r
    <3>1. f[r] <= f[p] /\ g[p] = f[p] /\ g[r] = f[i] /\ f[i] < f[r]
      BY <1>6, <1>7, <1>8, <2>1, <2>4
    <3> QED
      BY <1>4, <1>5, <2>1, <2>4, <3>1
  <2>5. CASE p # i /\ p \div 2 # i /\ p \div 2 # r
    BY <1>5, <1>6, <1>7, <1>8, <2>1, <2>5
  <2> QED
    BY <2>2, <2>3, <2>4, <2>5
<1>9. ASSUME r > 1, NEW c \in 2 .. m, c \div 2 = r
      PROVE  g[r \div 2] <= g[c]
  <2>1. r \in 2 .. m /\ r \div 2 \in 1 .. n /\ r \div 2 < r /\ c \in 1 .. n
    BY <1>4, <1>9, Halves
  <2>2. g[r \div 2] = f[r \div 2] /\ f[r \div 2] <= f[r]
    BY <1>4, <1>6, <1>7, <2>1
  <2>3. f[r] <= g[c]
    <3>1. CASE c = i
      BY <1>4, <1>5, <1>7, <3>1
    <3>2. CASE c # i
      <4>1. c # r
        BY <1>9, <2>1
      <4> QED
        BY <1>6, <1>7, <1>9, <2>1, <3>2, <4>1
    <3> QED
      BY <3>1, <3>2
  <2>4. /\ f[r \div 2] \in Nat /\ f[r] \in Nat /\ g[c] \in Nat
    BY <1>4, <1>5, <2>1
  <2> QED
    BY <2>2, <2>3, <2>4
<1>10. \A p \in 2 .. m : p # t.i => Placed(t.h, p)
  <2> SUFFICES ASSUME NEW p \in 2 .. m, p # r PROVE Placed(t.h, p)
    BY <1>1
  <2>1. p \in 1 .. n /\ p \div 2 \in 1 .. n
    BY Halves
  <2> QED
    BY <1>3, <1>8, <2>1 DEF Placed
<1>11. ASSUME t.i > 1, NEW c \in 2 .. m, c \div 2 = t.i
       PROVE  Order[t.h.q[t.i \div 2]] <= Order[t.h.q[c]]
  <2>1. t.i = r /\ r > 1 /\ c \div 2 = r
    BY <1>1, <1>11
  <2>2. r \div 2 \in 1 .. n /\ c \in 1 .. n
    BY <1>4, <2>1, Halves
  <2> QED
    BY <1>3, <1>9, <2>1, <2>2
<1>12. t.i <= m
  BY <1>1, <1>4
<1> QED
  BY <1>10, <1>11, <1>12 DEF UpInv

\* up leaves a heap of the same entries; those after the first m stay.
LEMMA UpLeaves ==
    ASSUME NEW n \in Nat, NEW m \in 0 .. n, NEW h \in Arrays(n), Sound(h, n),
           NEW i \in 1 .. m, UpInv([h |-> h, i |-> i], m)
    PROVE  /\ Shuffled(h, Up(h, i), n) /\ Heaped(Up(h, i), m)
           /\ \A p \in m + 1 .. n : Up(h, i).q[p] = h.q[p]
<1>1. PICK x : x = [h |-> h, i |-> i]
  OBVIOUS
<1>2. PICK step : step = [s \in Sifts(n) |-> UpStep(s)]
  OBVIOUS
<1>3. x \in Sifts(n) /\ x.h = h /\ x.i = i /\ UpInv(x, m)
  BY <1>1 DEF Sifts
<1>4. step \in [Sifts(n) -> Sifts(n)]
  BY <1>2, UpTurn
<1> DEFINE Run(g) ==
      g = [k \in 0 .. i |-> IF k = 0 THEN x ELSE UpStep(g[k - 1])]
<1>5. Up(h, i) = (CHOOSE g : Run(g))[i].h
  BY <1>1 DEF Up
<1>6. \E g : Run(g)
  <2>1. PICK g \in [0 .. i -> Sifts(n)] : Loop(g, x, step, i)
    BY <1>3, <1>4, LoopExists
  <2>2. ASSUME NEW k \in 0 .. i
        PROVE  g[k] = IF k = 0 THEN x ELSE UpStep(g[k - 1])
    <3>1. k # 0 => k - 1 \in 0 .. i
      OBVIOUS
    <3> QED
      BY <1>2, <2>1, <3>1 DEF Loop
  <2> QED
    BY <2>2
<1>7. PICK g : Run(g) /\ Up(h, i) = g[i].h
  BY <1>5, <1>6
<1>8. /\ g[0] = x
      /\ \A k \in 0 .. i : k < i => g[k + 1] = UpStep(g[k])
  BY <1>7
<1> HIDE DEF Run
<1> DEFINE Good(k) ==
      /\ g[k] \in Sifts(n) /\ Shuffled(h, g[k].h, n)
      /\ UpInv(g[k], m)
      /\ \A p \in m + 1 .. n : g[k].h.q[p] = h.q[p]
      /\ Heaped(g[k].h, m) \/ g[k].i <= i - k
<1>9. Good(0)
  BY <1>3, <1>8, ShuffledSelf
<1>10. ASSUME NEW k \in 0 .. i, Good(k), k < i
       PROVE  Good(k + 1)
  <2>1. PICK s, t : s = g[k] /\ t = g[k + 1]
    OBVIOUS
  <2>2. t = UpStep(s) /\ s \in Sifts(n) /\ UpInv(s, m)
    BY <1>8, <1>10, <2>1
  <2>3. s.h \in Arrays(n) /\ s.i \in 1 .. n /\ Sound(s.h, n)
    BY <1>10, <2>1, SiftType DEF Shuffled
  <2>4. CASE t = s /\ (s.i = 1 \/ Placed(s.h, s.i))
    <3>1. Heaped(s.h, m)
      BY <2>2, <2>3, <2>4 DEF UpInv, Heaped
    <3> QED
      BY <1>10, <2>1, <2>4, <3>1
  <2>5. CASE /\ s.i > 1 /\ Order[s.h.q[s.i]] < Order[s.h.q[s.i \div 2]]
             /\ t \in Sifts(n) /\ t.i = s.i \div 2
             /\ t.h = Swap(s.h, s.i \div 2, s.i)
    <3>1. s.i \div 2 \in 1 .. n /\ s.i \div 2 < s.i
      BY <2>3, <2>5, Halves
    <3>2. Swapped(s.h, t.h, s.i \div 2, s.i, n)
      BY <2>3, <2>5, <3>1, SwapEntries
    <3>3. UpInv(t, m)
      BY <2>2, <2>5, <3>2, UpSwap
    <3>4. Shuffled(s.h, t.h, n)
      BY <2>3, <2>5, <3>1, SwapShuffles
    <3>5. Shuffled(h, t.h, n)
      BY <1>10, <2>1, <3>4, ShuffledTwice
    <3>6. \A p \in m + 1 .. n : t.h.q[p] = s.h.q[p]
      BY <2>2, <2>3, <3>1, <3>2 DEF Swapped, UpInv
    <3>7. ~Heaped(s.h, m)
      <4>1. s.i \in 2 .. m
        BY <2>2, <2>3, <2>5 DEF UpInv
      <4>2. Order[s.h.q[s.i]] \in Nat /\ Order[s.h.q[s.i \div 2]] \in Nat
        BY <2>2, <2>3, <3>1, SiftType
      <4> QED
        BY <2>5, <4>1, <4>2 DEF Heaped, Placed
    <3>8. t.i <= i - (k + 1)
      <4>1. s.i <= i - k
        BY <1>10, <2>1, <3>7
      <4> QED
        BY <2>3, <2>5, <3>1, <4>1
    <3> QED
      BY <1>10, <2>1, <2>5, <3>3, <3>5, <3>6, <3>8
  <2> QED
    BY <2>2, <2>4, <2>5, UpTurn
<1>11. Good(i)
  <2> DEFINE P == {k \in 0 .. i : Good(k)}
  <2> HIDE DEF Good
  <2>1. 0 \in P /\ \A k \in 0 .. i : k \in P /\ k < i => k + 1 \in P
    BY <1>9, <1>10
  <2>2. i \in P
    <3> HIDE DEF P
    <3> QED
      BY <2>1, Turns
  <2> QED
    BY <2>2
<1>12. Heaped(g[i].h, m)
  BY <1>11, SiftType
<1> QED
  BY <1>7, <1>11, <1>12

-----------------------------------------------------------------------------
(* down *)

\* Among the first m entries only the children of entry s.i may be before
\* their parent, and entry s.i itself while it is where it started; its
\* children are not before its parent.
DownInv(s, start, m) ==
    /\ s.i >= start
    /\ \A p \in 2 .. m :
          p \div 2 # s.i /\ ~(p = s.i /\ s.i = start) => Placed(s.h, p)
    /\ s.i > 1 => \A c \in 2 .. m :
                    c \div 2 = s.i => Order[s.h.q[s.i \div 2]] <= Order[s.h.q[c]]

\* The children of entry s.i are not before it.
Rested(s, m) == \A c \in 2 .. m : c \div 2 = s.i => Placed(s.h, c)

\* c is the child that is first in the order.
FirstChild(s, c, m) ==
    /\ c \in 2 .. m /\ c \div 2 = s.i
    /\ \A d \in 2 .. m : d \div 2 = s.i => Order[s.h.q[c]] <= Order[s.h.q[d]]

\* A position with a child has a first child.
LEMMA ChildIsFirst ==
    ASSUME NEW n \in Nat, NEW m \in 0 .. n, NEW s \in Sifts(n), 2 * s.i <= m
    PROVE  FirstChild(s, Child(s.h, s.i, m), m)
<1>1. PICK i, c : i = s.i /\ c = Child(s.h, s.i, m)
  OBVIOUS
<1>2. PICK f : f = [p \in 1 .. n |-> Order[s.h.q[p]]]
  OBVIOUS
<1>3. i \in 1 .. n /\ 2 * i <= m /\ \A p \in 1 .. n : f[p] \in Nat
  BY <1>1, <1>2, SiftType
<1>4. 2 * i \in 2 .. m /\ 2 * i \in 1 .. n /\ (2 * i) \div 2 = i
  BY <1>3
<1>5. \A d \in 2 .. m : d \div 2 = i => d = 2 * i \/ d = 2 * i + 1
  BY Halves
<1>6. /\ c \in 2 .. m /\ c \div 2 = i
      /\ \A d \in 2 .. m : d \div 2 = i => f[c] <= f[d]
  <2>1. CASE 2 * i + 1 <= m
    <3>1. 2 * i + 1 \in 2 .. m /\ 2 * i + 1 \in 1 .. n /\ (2 * i + 1) \div 2 = i
      BY <1>3, <2>1
    <3>2. c = IF f[2 * i + 1] < f[2 * i] THEN 2 * i + 1 ELSE 2 * i
      BY <1>1, <1>2, <1>4, <2>1, <3>1 DEF Child, Less
    <3>3. f[2 * i + 1] \in Nat /\ f[2 * i] \in Nat
      BY <1>3, <1>4, <3>1
    <3>4. f[c] <= f[2 * i] /\ f[c] <= f[2 * i + 1]
      BY <3>2, <3>3
    <3> QED
      BY <1>4, <1>5, <3>1, <3>2, <3>4
  <2>2. CASE ~(2 * i + 1 <= m)
    <3>1. c = 2 * i
      BY <1>1, <2>2 DEF Child
    <3>2. \A d \in 2 .. m : d \div 2 = i => d = 2 * i
      BY <1>3, <1>5, <2>2
    <3> QED
      BY <1>3, <1>4, <3>1, <3>2
  <2> QED
    BY <2>1, <2>2
<1>7. \A d \in 2 .. m : d \in 1 .. n
  OBVIOUS
<1> QED
  BY <1>1, <1>2, <1>6, <1>7 DEF FirstChild

\* A turn of down ends the loop or swaps the entry with its first child.
LEMMA DownTurn ==
    ASSUME NEW n \in Nat, NEW m \in 0 .. n, NEW s \in Sifts(n)
    PROVE  \/ DownStep(s, m) = s /\ Rested(s, m)
           \/ \E c \in 2 .. m :
                 /\ FirstChild(s, c, m) /\ Order[s.h.q[c]] < Order[s.h.q[s.i]]
                 /\ DownStep(s, m) \in Sifts(n)
                 /\ DownStep(s, m).i = c
                 /\ DownStep(s, m).h = Swap(s.h, s.i, c)
<1>1. PICK c : c = Child(s.h, s.i, m)
  OBVIOUS
<1>2. /\ s.h \in Arrays(n) /\ s.i \in 1 .. n
      /\ \A p \in 1 .. n : s.h.q[p] \in Jobs /\ Order[s.h.q[p]] \in Nat
  BY SiftType
<1>3. CASE 2 * s.i <= m /\ Less(s.h, c, s.i)
  <2>1. DownStep(s, m) = [h |-> Swap(s.h, s.i, c), i |-> c]
    BY <1>1, <1>3 DEF DownStep
  <2>2. FirstChild(s, c, m) /\ c \in 2 .. m
    BY <1>1, <1>3, ChildIsFirst DEF FirstChild
  <2>3. c \in 1 .. n
    BY <2>2
  <2>4. Swap(s.h, s.i, c) \in Arrays(n)
    BY <1>2, <2>3, SwapEntries DEF Swapped
  <2>5. Order[s.h.q[c]] < Order[s.h.q[s.i]]
    BY <1>3 DEF Less
  <2> QED
    BY <2>1, <2>2, <2>3, <2>4, <2>5 DEF Sifts
<1>4. CASE 2 * s.i <= m /\ ~Less(s.h, c, s.i)
  <2>1. DownStep(s, m) = s
    BY <1>1, <1>4 DEF DownStep
  <2>2. FirstChild(s, c, m)
    BY <1>1, <1>4, ChildIsFirst
  <2>3. ASSUME NEW d \in 2 .. m, d \div 2 = s.i
        PROVE  Placed(s.h, d)
    <3>1. Order[s.h.q[c]] <= Order[s.h.q[d]] /\ c \in 1 .. n /\ d \in 1 .. n
      BY <2>2, <2>3 DEF FirstChild
    <3>2. ~(Order[s.h.q[c]] < Order[s.h.q[s.i]])
      BY <1>4 DEF Less
    <3>3. /\ Order[s.h.q[c]] \in Nat /\ Order[s.h.q[d]] \in Nat
          /\ Order[s.h.q[s.i]] \in Nat
      BY <1>2, <3>1
    <3> QED
      BY <2>3, <3>1, <3>2, <3>3 DEF Placed
  <2> QED
    BY <2>1, <2>3 DEF Rested
<1>5. CASE ~(2 * s.i <= m)
  <2>1. DownStep(s, m) = s
    BY <1>5 DEF DownStep
  <2>2. \A d \in 2 .. m : d \div 2 # s.i
    <3> SUFFICES ASSUME NEW d \in 2 .. m, d \div 2 = s.i PROVE FALSE
      OBVIOUS
    <3> QED
      BY <1>2, <1>5, Halves
  <2> QED
    BY <2>1, <2>2 DEF Rested
<1> QED
  BY <1>3, <1>4, <1>5

\* A swap with the first child moves the misplaced entry to the child's place.
LEMMA DownSwap ==
    ASSUME NEW n \in Nat, NEW m \in 0 .. n, NEW s \in Sifts(n), NEW t \in Sifts(n),
           NEW start \in 1 .. n, DownInv(s, start, m),
           NEW c \in 2 .. m, FirstChild(s, c, m), Order[s.h.q[c]] < Order[s.h.q[s.i]],
           t.i = c, Swapped(s.h, t.h, s.i, c, n)
    PROVE  DownInv(t, start, m)
<1>1. PICK i : i = s.i
  OBVIOUS
<1>2. PICK f : f = [p \in 1 .. n |-> Order[s.h.q[p]]]
  OBVIOUS
<1>3. PICK g : g = [p \in 1 .. n |-> Order[t.h.q[p]]]
  OBVIOUS
<1>4. i \in 1 .. n /\ c \in 1 .. n /\ i < c /\ c \div 2 = i /\ start <= i
  BY <1>1, SiftType, Halves DEF DownInv, FirstChild
<1>5. \A p \in 1 .. n : f[p] \in Nat /\ g[p] \in Nat
  BY <1>2, <1>3, SiftType
<1>6. \A p \in 2 .. m : p \in 1 .. n /\ p \div 2 \in 1 .. n /\ p \div 2 < p
  BY Halves
<1>7. /\ \A p \in 2 .. m : p \div 2 # i /\ p # i => f[p \div 2] <= f[p]
      /\ i > 1 => f[i \div 2] <= f[c]
      /\ \A d \in 2 .. m : d \div 2 = i => f[c] <= f[d]
      /\ f[c] < f[i]
  <2>1. i > 1 => i \in 2 .. n /\ i \div 2 \in 1 .. n
    BY <1>4, Halves
  <2> QED
    BY <1>1, <1>2, <1>4, <1>6, <2>1 DEF DownInv, Placed, FirstChild
<1>8. /\ g[i] = f[c] /\ g[c] = f[i]
      /\ \A p \in 1 .. n : p # i /\ p # c => g[p] = f[p]
  BY <1>1, <1>2, <1>3, <1>4 DEF Swapped
<1>9. ASSUME NEW p \in 2 .. m, p \div 2 # c
      PROVE  g[p \div 2] <= g[p]
  <2>1. p \in 1 .. n /\ p \div 2 \in 1 .. n /\ p \div 2 < p
    BY <1>6
  <2>2. CASE p = i
    <3>1. g[p \div 2] = f[i \div 2] /\ g[p] = f[c] /\ f[i \div 2] <= f[c]
      BY <1>4, <1>7, <1>8, <1>9, <2>1, <2>2
    <3> QED
      BY <3>1
  <2>3. CASE p = c
    BY <1>4, <1>5, <1>7, <1>8, <2>3
  <2>4. CASE p # c /\ p # i /\ p \div 2 = i
    BY <1>4, <1>7, <1>8, <2>1, <2>4
  <2>5. CASE p # c /\ p # i /\ p \div 2 # i
    BY <1>7, <1>8, <1>9, <2>1, <2>5
  <2> QED
    BY <2>2, <2>3, <2>4, <2>5
<1>10. ASSUME NEW d \in 2 .. m, d \div 2 = c
       PROVE  g[i] <= g[d]
  <2>1. d \in 1 .. n /\ d # c /\ d # i
    BY <1>4, <1>6, <1>10
  <2>2. f[c] <= f[d]
    BY <1>4, <1>7, <1>10, <2>1
  <2> QED
    BY <1>8, <2>1, <2>2
<1>11. \A p \in 2 .. m : p \div 2 # t.i /\ ~(p = t.i /\ t.i = start) => Placed(t.h, p)
  <2> SUFFICES ASSUME NEW p \in 2 .. m, p \div 2 # c PROVE Placed(t.h, p)
    OBVIOUS
  <2> QED
    BY <1>3, <1>6, <1>9 DEF Placed
<1>12. ASSUME NEW d \in 2 .. m, d \div 2 = t.i
       PROVE  Order[t.h.q[t.i \div 2]] <= Order[t.h.q[d]]
  BY <1>3, <1>4, <1>6, <1>10, <1>12
<1>13. t.i >= start
  BY <1>4
<1> QED
  BY <1>11, <1>12, <1>13 DEF DownInv

\* down leaves the same entries and the one that moved at rest; those after
\* the first m stay.
LEMMA DownLeaves ==
    ASSUME NEW n \in Nat, NEW m \in 0 .. n, NEW h \in Arrays(n), Sound(h, n),
           NEW i \in 1 .. n, DownInv([h |-> h, i |-> i], i, m)
    PROVE  /\ Down(h, i, m) \in Sifts(n) /\ Shuffled(h, Down(h, i, m).h, n)
           /\ DownInv(Down(h, i, m), i, m) /\ Rested(Down(h, i, m), m)
           /\ \A p \in m + 1 .. n : Down(h, i, m).h.q[p] = h.q[p]
<1>1. PICK x : x = [h |-> h, i |-> i]
  OBVIOUS
<1>2. PICK step : step = [s \in Sifts(n) |-> DownStep(s, m)]
  OBVIOUS
<1>3. x \in Sifts(n) /\ x.h = h /\ x.i = i /\ DownInv(x, i, m)
  BY <1>1 DEF Sifts
<1>4. step \in [Sifts(n) -> Sifts(n)]
  BY <1>2, DownTurn
<1> DEFINE Run(g) ==
      g = [k \in 0 .. m |-> IF k = 0 THEN x ELSE DownStep(g[k - 1], m)]
<1>5. Down(h, i, m) = (CHOOSE g : Run(g))[m]
  BY <1>1 DEF Down
<1>6. \E g : Run(g)
  <2>1. PICK g \in [0 .. m -> Sifts(n)] : Loop(g, x, step, m)
    BY <1>3, <1>4, LoopExists
  <2>2. ASSUME NEW k \in 0 .. m
        PROVE  g[k] = IF k = 0 THEN x ELSE DownStep(g[k - 1], m)
    <3>1. k # 0 => k - 1 \in 0 .. m
      OBVIOUS
    <3> QED
      BY <1>2, <2>1, <3>1 DEF Loop
  <2> QED
    BY <2>2
<1>7. PICK g : Run(g) /\ Down(h, i, m) = g[m]
  BY <1>5, <1>6
<1>8. /\ g[0] = x
      /\ \A k \in 0 .. m : k < m => g[k + 1] = DownStep(g[k], m)
  BY <1>7
<1> HIDE DEF Run
<1> DEFINE Good(k) ==
      /\ g[k] \in Sifts(n) /\ Shuffled(h, g[k].h, n)
      /\ DownInv(g[k], i, m)
      /\ \A p \in m + 1 .. n : g[k].h.q[p] = h.q[p]
      /\ Rested(g[k], m) \/ g[k].i >= i + k
<1>9. Good(0)
  BY <1>3, <1>8, ShuffledSelf
<1>10. ASSUME NEW k \in 0 .. m, Good(k), k < m
       PROVE  Good(k + 1)
  <2>1. PICK s, t : s = g[k] /\ t = g[k + 1]
    OBVIOUS
  <2>2. t = DownStep(s, m) /\ s \in Sifts(n) /\ DownInv(s, i, m)
    BY <1>8, <1>10, <2>1
  <2>3. s.h \in Arrays(n) /\ s.i \in 1 .. n /\ Sound(s.h, n)
    BY <1>10, <2>1, SiftType DEF Shuffled
  <2>4. CASE t = s /\ Rested(s, m)
    BY <1>10, <2>1, <2>4
  <2>5. ASSUME NEW c \in 2 .. m, FirstChild(s, c, m),
               Order[s.h.q[c]] < Order[s.h.q[s.i]],
               t \in Sifts(n), t.i = c, t.h = Swap(s.h, s.i, c)
        PROVE  Good(k + 1)
    <3>1. c \in 1 .. n /\ c \div 2 = s.i /\ s.i < c /\ s.i <= m
      BY <2>3, <2>5, Halves DEF FirstChild
    <3>2. Swapped(s.h, t.h, s.i, c, n)
      BY <2>3, <2>5, <3>1, SwapEntries
    <3>3. DownInv(t, i, m)
      BY <2>2, <2>5, <3>2, DownSwap
    <3>4. Shuffled(s.h, t.h, n)
      BY <2>3, <2>5, <3>1, SwapShuffles
    <3>5. Shuffled(h, t.h, n)
      BY <1>10, <2>1, <3>4, ShuffledTwice
    <3>6. \A p \in m + 1 .. n : t.h.q[p] = s.h.q[p]
      BY <2>3, <3>1, <3>2 DEF Swapped
    <3>7. ~Rested(s, m)
      <4>1. Order[s.h.q[c]] \in Nat /\ Order[s.h.q[s.i]] \in Nat
        BY <2>2, <2>3, <3>1, SiftType
      <4> QED
        BY <2>5, <3>1, <4>1 DEF Rested, Placed
    <3>8. t.i >= i + (k + 1)
      <4>1. s.i >= i + k
        BY <1>10, <2>1, <3>7
      <4> QED
        BY <2>3, <2>5, <3>1, <4>1
    <3> QED
      BY <1>10, <2>1, <2>5, <3>3, <3>5, <3>6, <3>8
  <2> QED
    BY <2>2, <2>4, <2>5, DownTurn
<1>11. Good(m)
  <2> DEFINE P == {k \in 0 .. m : Good(k)}
  <2> HIDE DEF Good
  <2>1. 0 \in P /\ \A k \in 0 .. m : k \in P /\ k < m => k + 1 \in P
    BY <1>9, <1>10
  <2>2. m \in P
    <3> HIDE DEF P
    <3> QED
      BY <2>1, Turns
  <2> QED
    BY <2>2
<1>12. Rested(g[m], m)
  <2>1. g[m].i >= i + m => \A c \in 2 .. m : c \div 2 # g[m].i
    <3> SUFFICES ASSUME g[m].i >= i + m, NEW c \in 2 .. m, c \div 2 = g[m].i PROVE FALSE
      OBVIOUS
    <3>1. c \div 2 < c /\ c \div 2 \in Nat
      BY Halves
    <3> QED
      BY <3>1
  <2> QED
    BY <1>11, <2>1 DEF Rested
<1> QED
  BY <1>7, <1>11, <1>12

-----------------------------------------------------------------------------
(* heap.Push, heap.Pop and heap.Remove *)

\* A heap of n entries with sound indices.
Heap(h, n) == h \in Arrays(n) /\ Sound(h, n) /\ Heaped(h, n)

\* How often a job is in an array.
Count(h, j, n) == Cardinality(Holds(h, j, n))

\* A count is a number; a job that is counted has a position.
LEMMA CountType ==
    ASSUME NEW n \in Nat, NEW h, NEW j
    PROVE  /\ IsFiniteSet(Holds(h, j, n)) /\ Count(h, j, n) \in Nat
           /\ Count(h, j, n) > 0 <=> \E p \in 1 .. n : h.q[p] = j
<1>1. IsFiniteSet(Holds(h, j, n))
  <2>1. Holds(h, j, n) \subseteq 1 .. n /\ IsFiniteSet(1 .. n)
    BY FS_Interval DEF Holds
  <2> QED
    BY <2>1, FS_Subset
<1>2. Count(h, j, n) \in Nat /\ (Count(h, j, n) = 0 <=> Holds(h, j, n) = {})
  BY <1>1, FS_CardinalityType, FS_EmptySet DEF Count
<1> QED
  BY <1>1, <1>2 DEF Holds

\* g is h with one entry of j more.
Pushed(h, g, j, n) ==
    /\ Heap(g, n + 1) /\ g.ix[j] # 0
    /\ \A k \in Jobs : Count(g, k, n + 1) = IF k = j THEN Count(h, k, n) + 1
                                                    ELSE Count(h, k, n)
    /\ \A k \in Jobs : h.ix[k] # 0 => g.ix[k] # 0

\* g is h with one entry of j less.
Removed(h, g, j, n) ==
    /\ Heap(g, n - 1) /\ g.ix[j] = 0
    /\ \A k \in Jobs : Count(g, k, n - 1) = IF k = j THEN Count(h, k, n) - 1
                                                    ELSE Count(h, k, n)
    /\ \A k \in Jobs : h.ix[k] # 0 /\ k # j => g.ix[k] # 0

\* JobQueue.Push appends the job and sets its index.
LEMMA PushAppends ==
    ASSUME NEW n \in Nat, NEW h \in Arrays(n), NEW j \in Jobs, NEW g, g = Push(h, j)
    PROVE  /\ g \in Arrays(n + 1) /\ g.q[n + 1] = j
           /\ \A p \in 1 .. n : g.q[p] = h.q[p]
           /\ \A k \in Jobs : g.ix[k] = IF k = j THEN n + 1 ELSE h.ix[k]
<1>1. h.q \in [1 .. n -> Jobs] /\ h.ix \in [Jobs -> Nat]
  BY DEF Arrays
<1>2. h.q \in Seq(Jobs) /\ Len(h.q) = n
  BY <1>1
<1>3. PICK a : a = Append(h.q, j)
  OBVIOUS
<1>4. PICK b : b = [h.ix EXCEPT ![j] = n + 1]
  OBVIOUS
<1>5. g = [q |-> a, ix |-> b]
  BY <1>2, <1>3, <1>4 DEF Push
<1>6. /\ a \in [1 .. n + 1 -> Jobs] /\ a[n + 1] = j
      /\ \A p \in 1 .. n : a[p] = h.q[p]
  <2>1. a \in Seq(Jobs) /\ Len(a) = n + 1
    BY <1>2, <1>3, AppendProperties
  <2>2. a \in [1 .. n + 1 -> Jobs]
    BY <2>1, LenProperties
  <2> QED
    BY <1>2, <1>3, <2>2, AppendProperties
<1>7. b \in [Jobs -> Nat] /\ \A k \in Jobs : b[k] = IF k = j THEN n + 1 ELSE h.ix[k]
  BY <1>1, <1>4
<1> QED
  BY <1>5, <1>6, <1>7 DEF Arrays

\* JobQueue.Pop cuts the last entry off and resets its job's index.
LEMMA PopCuts ==
    ASSUME NEW n \in Nat, n > 0, NEW h \in Arrays(n), NEW g, g = Pop(h)
    PROVE  /\ g \in Arrays(n - 1)
           /\ \A p \in 1 .. n - 1 : g.q[p] = h.q[p]
           /\ \A k \in Jobs : g.ix[k] = IF k = h.q[n] THEN 0 ELSE h.ix[k]
<1>1. h.q \in [1 .. n -> Jobs] /\ h.ix \in [Jobs -> Nat] /\ h.q[n] \in Jobs
  BY DEF Arrays
<1>2. h.q \in Seq(Jobs) /\ Len(h.q) = n
  BY <1>1
<1>3. PICK a : a = SubSeq(h.q, 1, n - 1)
  OBVIOUS
<1>4. PICK b : b = [h.ix EXCEPT ![h.q[n]] = 0]
  OBVIOUS
<1>5. g = [q |-> a, ix |-> b]
  BY <1>2, <1>3, <1>4 DEF Pop
<1>6. a \in [1 .. n - 1 -> Jobs] /\ \A p \in 1 .. n - 1 : a[p] = h.q[p]
  <2>1. \A p \in 1 .. n - 1 : h.q[p] \in Jobs
    BY <1>1
  <2>2. a \in Seq(Jobs) /\ Len(a) = n - 1 /\ \A p \in 1 .. n - 1 : a[p] = h.q[p]
    BY <1>3, <2>1, SubSeqProperties
  <2>3. a \in [1 .. n - 1 -> Jobs]
    BY <2>2, LenProperties
  <2> QED
    BY <2>2, <2>3
<1>7. b \in [Jobs -> Nat] /\ \A k \in Jobs : b[k] = IF k = h.q[n] THEN 0 ELSE h.ix[k]
  BY <1>1, <1>4
<1> QED
  BY <1>5, <1>6, <1>7 DEF Arrays

\* The parent of an entry of a heap is not after it.
LEMMA HeapPlaced ==
    ASSUME NEW n \in Nat, NEW h, Heap(h, n)
    PROVE  /\ h \in Arrays(n) /\ Sound(h, n)
           /\ \A p \in 1 .. n : h.q[p] \in Jobs /\ Order[h.q[p]] \in Nat
           /\ \A p \in 2 .. n : /\ p \div 2 \in 1 .. n /\ p \div 2 < p
                               /\ Order[h.q[p \div 2]] <= Order[h.q[p]]
<1>1. h \in Arrays(n) /\ Sound(h, n) /\ Heaped(h, n)
  BY DEF Heap
<1>2. \A p \in 1 .. n : h.q[p] \in Jobs /\ Order[h.q[p]] \in Nat
  BY <1>1, QueueAssumption DEF Arrays
<1>3. \A p \in 2 .. n : p \div 2 \in 1 .. n /\ p \div 2 < p
  BY Halves
<1> QED
  BY <1>1, <1>2, <1>3 DEF Heaped, Placed

\* heap.Push adds the entry and leaves a heap.
LEMMA HeapPushAdds ==
    ASSUME NEW n \in Nat, NEW h, Heap(h, n), NEW j \in Jobs
    PROVE  Pushed(h, HeapPushJob(h, j), j, n)
<1>1. PICK a : a = Push(h, j)
  OBVIOUS
<1>2. PICK g : g = Up(a, n + 1)
  OBVIOUS
<1>3. h \in Arrays(n) /\ Sound(h, n)
  BY HeapPlaced
<1>4. HeapPushJob(h, j) = g
  <2>1. h.q \in [1 .. n -> Jobs]
    BY <1>3 DEF Arrays
  <2>2. Len(h.q) = n
    BY <2>1
  <2> QED
    BY <1>1, <1>2, <2>2 DEF HeapPushJob
<1>5. /\ a \in Arrays(n + 1) /\ a.q[n + 1] = j
      /\ \A p \in 1 .. n : a.q[p] = h.q[p]
      /\ \A k \in Jobs : a.ix[k] = IF k = j THEN n + 1 ELSE h.ix[k]
  BY <1>1, <1>3, PushAppends
<1>6. Sound(a, n + 1)
  <2> SUFFICES ASSUME NEW k \in Jobs, a.ix[k] # 0
               PROVE  a.ix[k] \in 1 .. n + 1 /\ a.q[a.ix[k]] = k
    BY DEF Sound
  <2>1. CASE k = j
    BY <1>5, <2>1
  <2>2. CASE k # j
    <3>1. a.ix[k] = h.ix[k] /\ h.ix[k] \in 1 .. n /\ h.q[h.ix[k]] = k
      BY <1>3, <1>5, <2>2 DEF Sound
    <3> QED
      BY <1>5, <3>1
  <2> QED
    BY <2>1, <2>2
<1>7. UpInv([h |-> a, i |-> n + 1], n + 1)
  <2>1. ASSUME NEW p \in 2 .. n + 1, p # n + 1
        PROVE  Placed(a, p)
    <3>1. p \in 2 .. n /\ p \in 1 .. n
      BY <2>1
    <3>2. p \div 2 \in 1 .. n /\ Order[h.q[p \div 2]] <= Order[h.q[p]]
      BY <3>1, HeapPlaced
    <3> QED
      BY <1>5, <3>1, <3>2 DEF Placed
  <2>2. ASSUME NEW c \in 2 .. n + 1, c \div 2 = n + 1
        PROVE  FALSE
    BY <2>2, Halves
  <2> QED
    BY <2>1, <2>2 DEF UpInv
<1>8. Shuffled(a, g, n + 1) /\ Heaped(g, n + 1)
  <2>1. n + 1 \in Nat /\ n + 1 \in 0 .. n + 1 /\ n + 1 \in 1 .. n + 1
    OBVIOUS
  <2> QED
    BY <1>2, <1>5, <1>6, <1>7, <2>1, UpLeaves
<1>9. ASSUME NEW k \in Jobs
      PROVE  Count(a, k, n + 1) = IF k = j THEN Count(h, k, n) + 1 ELSE Count(h, k, n)
  <2>1. IsFiniteSet(Holds(h, k, n))
    BY CountType
  <2>2. CASE k = j
    <3>1. Holds(a, k, n + 1) = Holds(h, k, n) \cup {n + 1}
      BY <1>5, <2>2 DEF Holds
    <3>2. n + 1 \notin Holds(h, k, n)
      BY DEF Holds
    <3> QED
      BY <2>1, <2>2, <3>1, <3>2, FS_AddElement DEF Count
  <2>3. CASE k # j
    <3>1. Holds(a, k, n + 1) = Holds(h, k, n)
      BY <1>5, <2>3 DEF Holds
    <3> QED
      BY <2>3, <3>1 DEF Count
  <2> QED
    BY <2>2, <2>3
<1>10. \A k \in Jobs : Count(g, k, n + 1) = Count(a, k, n + 1)
  BY <1>8 DEF Shuffled, Count
<1>11. Heap(g, n + 1)
  BY <1>8 DEF Heap, Shuffled
<1>12. \A k \in Jobs : a.ix[k] # 0 => g.ix[k] # 0
  BY <1>8 DEF Shuffled
<1>13. g.ix[j] # 0 /\ \A k \in Jobs : h.ix[k] # 0 => g.ix[k] # 0
  BY <1>5, <1>12
<1> QED
  BY <1>4, <1>9, <1>10, <1>11, <1>13 DEF Pushed

\* When the other entries are a heap, Pop takes the last entry out.
LEMMA PopRemoves ==
    ASSUME NEW n \in Nat, n > 0, NEW h, NEW d, Shuffled(h, d, n), Heaped(d, n - 1)
    PROVE  Removed(h, Pop(d), d.q[n], n)
<1>1. PICK g : g = Pop(d)
  OBVIOUS
<1>2. PICK j : j = d.q[n]
  OBVIOUS
<1>3. /\ d \in Arrays(n) /\ Sound(d, n) /\ n - 1 \in Nat
      /\ \A k \in Jobs : Count(d, k, n) = Count(h, k, n)
      /\ \A k \in Jobs : h.ix[k] # 0 => d.ix[k] # 0
  BY DEF Shuffled, Count
<1>4. /\ g \in Arrays(n - 1)
      /\ \A p \in 1 .. n - 1 : g.q[p] = d.q[p]
      /\ \A k \in Jobs : g.ix[k] = IF k = j THEN 0 ELSE d.ix[k]
  BY <1>1, <1>2, <1>3, PopCuts
<1>5. j \in Jobs
  BY <1>2, <1>3 DEF Arrays
<1>6. Sound(g, n - 1)
  <2> SUFFICES ASSUME NEW k \in Jobs, g.ix[k] # 0
               PROVE  g.ix[k] \in 1 .. n - 1 /\ g.q[g.ix[k]] = k
    BY DEF Sound
  <2>1. k # j /\ g.ix[k] = d.ix[k]
    BY <1>4
  <2>2. d.ix[k] \in 1 .. n /\ d.q[d.ix[k]] = k
    BY <1>3, <2>1 DEF Sound
  <2>3. d.ix[k] # n
    BY <1>2, <2>1, <2>2
  <2> QED
    BY <1>4, <2>1, <2>2, <2>3
<1>7. Heaped(g, n - 1)
  <2> SUFFICES ASSUME NEW p \in 2 .. n - 1 PROVE Placed(g, p)
    BY DEF Heaped
  <2>1. p \in 1 .. n - 1 /\ p \div 2 \in 1 .. n - 1
    BY Halves
  <2> QED
    BY <1>4, <2>1 DEF Heaped, Placed
<1>8. ASSUME NEW k \in Jobs
      PROVE  Count(g, k, n - 1) = IF k = j THEN Count(d, k, n) - 1 ELSE Count(d, k, n)
  <2>1. IsFiniteSet(Holds(d, k, n))
    BY CountType
  <2>2. CASE k = j
    <3>1. Holds(g, k, n - 1) = Holds(d, k, n) \ {n} /\ n \in Holds(d, k, n)
      BY <1>2, <1>4, <2>2 DEF Holds
    <3> QED
      BY <2>1, <2>2, <3>1, FS_RemoveElement DEF Count
  <2>3. CASE k # j
    <3>1. Holds(g, k, n - 1) = Holds(d, k, n)
      BY <1>2, <1>4, <2>3 DEF Holds
    <3> QED
      BY <2>3, <3>1 DEF Count
  <2> QED
    BY <2>2, <2>3
<1>9. Heap(g, n - 1)
  BY <1>4, <1>6, <1>7 DEF Heap
<1>10. /\ g.ix[j] = 0
       /\ \A k \in Jobs : h.ix[k] # 0 /\ k # j => g.ix[k] # 0
  BY <1>3, <1>4, <1>5
<1>11. \A k \in Jobs :
         Count(g, k, n - 1) = IF k = j THEN Count(h, k, n) - 1 ELSE Count(h, k, n)
  BY <1>3, <1>8
<1> QED
  BY <1>1, <1>2, <1>9, <1>10, <1>11 DEF Removed

\* The last entry in the place of entry i: it may have to go either way.
LEMMA SwapLast ==
    ASSUME NEW n \in Nat, NEW h, Heap(h, n), NEW i \in 1 .. n, NEW s, s = Swap(h, i, n)
    PROVE  /\ s \in Arrays(n) /\ Sound(s, n) /\ Shuffled(h, s, n) /\ s.q[n] = h.q[i]
           /\ DownInv([h |-> s, i |-> i], i, n - 1)
<1>1. /\ h \in Arrays(n) /\ Sound(h, n)
      /\ \A p \in 1 .. n : h.q[p] \in Jobs /\ Order[h.q[p]] \in Nat
      /\ \A p \in 2 .. n : /\ p \div 2 \in 1 .. n /\ p \div 2 < p
                          /\ Order[h.q[p \div 2]] <= Order[h.q[p]]
  BY HeapPlaced
<1>2. n \in 1 .. n
  OBVIOUS
<1>3. Swapped(h, s, i, n, n)
  BY <1>1, <1>2, SwapEntries
<1>4. Shuffled(h, s, n)
  BY <1>1, <1>2, SwapShuffles
<1>5. \A p \in 1 .. n - 1 : p # i => s.q[p] = h.q[p]
  BY <1>3 DEF Swapped
<1>6. ASSUME NEW p \in 2 .. n - 1, p \div 2 # i, p # i
      PROVE  Placed(s, p)
  <2>1. p \in 2 .. n /\ p \in 1 .. n - 1 /\ p \div 2 \in 1 .. n - 1
    BY <1>1
  <2> QED
    BY <1>1, <1>5, <1>6, <2>1 DEF Placed
<1>7. ASSUME i > 1, NEW c \in 2 .. n - 1, c \div 2 = i
      PROVE  Order[s.q[i \div 2]] <= Order[s.q[c]]
  <2>1. i \in 2 .. n /\ c \in 2 .. n /\ i < c /\ c \in 1 .. n - 1
    BY <1>1, <1>7
  <2>2. i \div 2 \in 1 .. n /\ i \div 2 < i
    BY <1>1, <2>1
  <2>3. s.q[i \div 2] = h.q[i \div 2] /\ s.q[c] = h.q[c]
    BY <1>5, <2>1, <2>2
  <2>4. Order[h.q[i \div 2]] <= Order[h.q[i]] /\ Order[h.q[i]] <= Order[h.q[c]]
    BY <1>1, <1>7, <2>1
  <2>5. /\ Order[h.q[i \div 2]] \in Nat /\ Order[h.q[i]] \in Nat
        /\ Order[h.q[c]] \in Nat
    BY <1>1, <2>1, <2>2
  <2> QED
    BY <2>3, <2>4, <2>5
<1>8. DownInv([h |-> s, i |-> i], i, n - 1)
  BY <1>6, <1>7 DEF DownInv
<1> QED
  BY <1>3, <1>4, <1>8 DEF Swapped, Shuffled

\* heap.Pop takes the first entry out and leaves a heap.
LEMMA HeapPopRemoves ==
    ASSUME NEW n \in Nat, n > 0, NEW h, Heap(h, n)
    PROVE  Removed(h, HeapPopJob(h), h.q[1], n)
<1>1. PICK s : s = Swap(h, 1, n)
  OBVIOUS
<1>2. PICK d : d = Down(s, 1, n - 1)
  OBVIOUS
<1>3. 1 \in 1 .. n /\ n - 1 \in 0 .. n /\ n \in (n - 1) + 1 .. n
  OBVIOUS
<1>4. HeapPopJob(h) = Pop(d.h)
  <2>1. h.q \in [1 .. n -> Jobs]
    BY DEF Heap, Arrays
  <2>2. Len(h.q) = n
    BY <2>1
  <2> QED
    BY <1>1, <1>2, <2>2 DEF HeapPopJob
<1>5. /\ s \in Arrays(n) /\ Sound(s, n) /\ Shuffled(h, s, n) /\ s.q[n] = h.q[1]
      /\ DownInv([h |-> s, i |-> 1], 1, n - 1)
  BY <1>1, <1>3, SwapLast
<1>6. /\ Shuffled(s, d.h, n) /\ DownInv(d, 1, n - 1) /\ Rested(d, n - 1)
      /\ \A p \in (n - 1) + 1 .. n : d.h.q[p] = s.q[p]
  BY <1>2, <1>3, <1>5, DownLeaves
<1>7. Heaped(d.h, n - 1)
  BY <1>6 DEF DownInv, Rested, Heaped
<1>8. Shuffled(h, d.h, n)
  BY <1>5, <1>6, ShuffledTwice
<1>9. d.h.q[n] = h.q[1]
  BY <1>3, <1>5, <1>6
<1>10. Removed(h, Pop(d.h), d.h.q[n], n)
  BY <1>7, <1>8, PopRemoves
<1> QED
  BY <1>4, <1>9, <1>10

\* heap.Remove takes entry i out and leaves a heap.
LEMMA HeapRemoveRemoves ==
    ASSUME NEW n \in Nat, NEW h, Heap(h, n), NEW i \in 1 .. n
    PROVE  Removed(h, HeapRemoveAt(h, i), h.q[i], n)
<1>1. PICK s : s = Swap(h, i, n)
  OBVIOUS
<1>2. PICK d : d = Down(s, i, n - 1)
  OBVIOUS
<1>3. PICK g : g = IF i = n THEN h ELSE IF d.i = i THEN Up(d.h, i) ELSE d.h
  OBVIOUS
<1>4. n > 0 /\ n - 1 \in 0 .. n /\ n \in (n - 1) + 1 .. n
  OBVIOUS
<1>5. HeapRemoveAt(h, i) = Pop(g)
  <2>1. h.q \in [1 .. n -> Jobs]
    BY DEF Heap, Arrays
  <2>2. Len(h.q) = n
    BY <2>1
  <2> QED
    BY <1>1, <1>2, <1>3, <2>2 DEF HeapRemoveAt
<1>6. Shuffled(h, g, n) /\ Heaped(g, n - 1) /\ g.q[n] = h.q[i]
  <2>1. CASE i = n
    <3>1. g = h
      BY <1>3, <2>1
    <3>2. Shuffled(h, h, n)
      BY HeapPlaced, ShuffledSelf
    <3>3. Heaped(h, n - 1)
      BY DEF Heap, Heaped
    <3> QED
      BY <2>1, <3>1, <3>2, <3>3
  <2>2. CASE i # n
    <3>1. /\ s \in Arrays(n) /\ Sound(s, n) /\ Shuffled(h, s, n) /\ s.q[n] = h.q[i]
          /\ DownInv([h |-> s, i |-> i], i, n - 1)
      BY <1>1, SwapLast
    <3>2. /\ d \in Sifts(n) /\ Shuffled(s, d.h, n)
          /\ DownInv(d, i, n - 1) /\ Rested(d, n - 1)
          /\ \A p \in (n - 1) + 1 .. n : d.h.q[p] = s.q[p]
      BY <1>2, <1>4, <3>1, DownLeaves
    <3>3. Shuffled(h, d.h, n)
      BY <3>1, <3>2, ShuffledTwice
    <3>4. d.h.q[n] = h.q[i]
      BY <1>4, <3>1, <3>2
    <3>5. CASE d.i # i
      <4>1. Heaped(d.h, n - 1)
        BY <3>2, <3>5 DEF DownInv, Rested, Heaped
      <4> QED
        BY <1>3, <2>2, <3>3, <3>4, <3>5, <4>1
    <3>6. CASE d.i = i
      <4>1. i \in 1 .. n - 1 /\ d.h \in Arrays(n) /\ Sound(d.h, n)
        BY <2>2, <3>2 DEF Shuffled
      <4>2. UpInv([h |-> d.h, i |-> i], n - 1)
        BY <3>2, <3>6, <4>1 DEF DownInv, Rested, UpInv
      <4>3. PICK u : u = Up(d.h, i)
        OBVIOUS
      <4>4. /\ Shuffled(d.h, u, n) /\ Heaped(u, n - 1)
            /\ \A p \in (n - 1) + 1 .. n : u.q[p] = d.h.q[p]
        BY <1>4, <4>1, <4>2, <4>3, UpLeaves
      <4>5. Shuffled(h, u, n)
        BY <3>3, <4>4, ShuffledTwice
      <4>6. u.q[n] = h.q[i]
        BY <1>4, <3>4, <4>4
      <4> QED
        BY <1>3, <2>2, <3>6, <4>3, <4>4, <4>5, <4>6
    <3> QED
      BY <3>5, <3>6
  <2> QED
    BY <2>1, <2>2
<1>7. Removed(h, Pop(g), g.q[n], n)
  BY <1>4, <1>6, PopRemoves
<1> QED
  BY <1>5, <1>6, <1>7

-----------------------------------------------------------------------------
(* The queue *)

\* The inductive invariant: the queue is a heap with sound indices.
QueueInv ==
    /\ queue \in Seq(Jobs) /\ index \in [Jobs -> Nat]
    /\ Len(queue) <= MaxEntries
    /\ Heap(Array, Len(queue))

\* Array h of n entries is what the queue holds.
HasArray(h, n) == queue = h.q /\ index = h.ix /\ Array = h /\ Len(queue) = n

\* The queue starts as an empty heap.
LEMMA QueueStarts == QueueInit => QueueInv
<1> SUFFICES ASSUME QueueInit PROVE QueueInv
  OBVIOUS
<1>1. queue = << >> /\ index = [j \in Jobs |-> 0]
  BY DEF QueueInit
<1>2. queue \in Seq(Jobs) /\ Len(queue) = 0 /\ index \in [Jobs -> Nat]
  BY <1>1
<1>3. queue \in [1 .. 0 -> Jobs]
  BY <1>2, LenProperties
<1>4. Array \in Arrays(0)
  BY <1>2, <1>3 DEF Array, Arrays
<1>5. Sound(Array, 0) /\ Heaped(Array, 0)
  BY <1>1 DEF Array, Sound, Heaped
<1> QED
  BY <1>2, <1>4, <1>5, QueueAssumption DEF QueueInv, Heap

\* What the queue becomes is what it holds afterwards.
LEMMA BecomesArray ==
    ASSUME NEW n \in Nat, n <= MaxEntries, NEW g, Heap(g, n), Becomes(g)
    PROVE  QueueInv' /\ HasArray(g, n)'
<1>1. queue' = g.q /\ index' = g.ix
  BY DEF Becomes
<1>2. g \in Arrays(n)
  BY DEF Heap
<1>3. g.q \in [1 .. n -> Jobs] /\ g.ix \in [Jobs -> Nat] /\ g = [q |-> g.q, ix |-> g.ix]
  BY <1>2 DEF Arrays
<1>4. g.q \in Seq(Jobs) /\ Len(g.q) = n
  BY <1>3
<1>5. Array' = g
  BY <1>1, <1>3 DEF Array
<1> QED
  BY <1>1, <1>3, <1>4, <1>5 DEF QueueInv, HasArray

\* The queue as it is.
LEMMA QueueIsArray ==
    ASSUME QueueInv
    PROVE  /\ Len(queue) \in Nat /\ Heap(Array, Len(queue))
           /\ Array.q = queue /\ Array.ix = index
  BY LenProperties DEF QueueInv, Array

\* One more entry of j.
PushStep(j) ==
    \E g, n : n = Len(queue) /\ Pushed(Array, g, j, n) /\ HasArray(g, n + 1)'

\* One entry of j less.
RemoveStep(j) ==
    \E g, n : /\ n = Len(queue) /\ Removed(Array, g, j, n) /\ HasArray(g, n - 1)'
             /\ \E p \in 1 .. n : queue[p] = j

\* Enqueue and RequeueRunningJob push.
LEMMA PushJobSteps ==
    ASSUME QueueInv, NEW j \in Jobs, PushJob(j)
    PROVE  QueueInv' /\ PushStep(j)
<1>1. PICK g : g = HeapPushJob(Array, j)
  OBVIOUS
<1>2. PICK n : n = Len(queue)
  OBVIOUS
<1>3. n \in Nat /\ n < MaxEntries /\ Heap(Array, n) /\ Becomes(g)
  BY <1>1, <1>2, QueueIsArray DEF PushJob
<1>4. Pushed(Array, g, j, n)
  BY <1>1, <1>3, HeapPushAdds
<1>5. n + 1 \in Nat /\ n + 1 <= MaxEntries /\ Heap(g, n + 1)
  BY <1>3, <1>4, QueueAssumption DEF Pushed
<1>6. QueueInv' /\ HasArray(g, n + 1)'
  BY <1>3, <1>5, BecomesArray
<1> QED
  BY <1>2, <1>4, <1>6 DEF PushStep

\* Requeue pushes: the index it resets is set again.
LEMMA RequeueJobSteps ==
    ASSUME QueueInv, NEW j \in Jobs, RequeueJob(j)
    PROVE  QueueInv' /\ PushStep(j)
<1>1. PICK r : r = [Array EXCEPT !.ix[j] = 0]
  OBVIOUS
<1>2. index \in [Jobs -> Nat]
  BY DEF QueueInv
<1>3. r.q = queue /\ r.ix = [index EXCEPT ![j] = 0]
  BY <1>1 DEF Array
<1>4. [r.ix EXCEPT ![j] = Len(queue) + 1] = [index EXCEPT ![j] = Len(queue) + 1]
  BY <1>2, <1>3
<1>5. HeapPushJob(r, j) = HeapPushJob(Array, j)
  BY <1>3, <1>4 DEF HeapPushJob, Push, Array
<1>6. PushJob(j)
  BY <1>1, <1>5 DEF RequeueJob, PushJob
<1> QED
  BY <1>6, PushJobSteps

\* Dequeue takes the first entry.
LEMMA PopJobSteps ==
    ASSUME QueueInv, PopJob
    PROVE  QueueInv' /\ queue # << >> /\ queue[1] \in Jobs /\ RemoveStep(queue[1])
<1>1. PICK g : g = HeapPopJob(Array)
  OBVIOUS
<1>2. PICK n : n = Len(queue)
  OBVIOUS
<1>3. queue # << >> /\ queue \in Seq(Jobs) /\ n \in Nat /\ n <= MaxEntries
  BY <1>2, QueueIsArray DEF PopJob, QueueInv
<1>4. n > 0 /\ 1 \in 1 .. n /\ queue[1] \in Jobs
  BY <1>2, <1>3
<1>5. Heap(Array, n) /\ Array.q = queue /\ Becomes(g)
  BY <1>1, <1>2, QueueIsArray DEF PopJob
<1>6. Removed(Array, g, queue[1], n)
  BY <1>1, <1>3, <1>4, <1>5, HeapPopRemoves
<1>7. n - 1 \in Nat /\ n - 1 <= MaxEntries /\ Heap(g, n - 1)
  BY <1>3, <1>4, <1>6, QueueAssumption DEF Removed
<1>8. QueueInv' /\ HasArray(g, n - 1)'
  BY <1>5, <1>7, BecomesArray
<1> QED
  BY <1>2, <1>3, <1>4, <1>6, <1>8 DEF RemoveStep

\* Remove at a position takes the entry there.
LEMMA RemoveAtSteps ==
    ASSUME QueueInv, NEW i \in 1 .. Len(queue), Becomes(HeapRemoveAt(Array, i))
    PROVE  QueueInv' /\ queue[i] \in Jobs /\ RemoveStep(queue[i])
<1>1. PICK g : g = HeapRemoveAt(Array, i)
  OBVIOUS
<1>2. PICK n : n = Len(queue)
  OBVIOUS
<1>3. queue \in Seq(Jobs) /\ n \in Nat /\ n <= MaxEntries /\ i \in 1 .. n
  BY <1>2, QueueIsArray DEF QueueInv
<1>4. n > 0 /\ queue[i] \in Jobs
  BY <1>2, <1>3
<1>5. Heap(Array, n) /\ Array.q = queue /\ Becomes(g)
  BY <1>1, <1>2, QueueIsArray
<1>6. Removed(Array, g, queue[i], n)
  BY <1>1, <1>3, <1>5, HeapRemoveRemoves
<1>7. n - 1 \in Nat /\ n - 1 <= MaxEntries /\ Heap(g, n - 1)
  BY <1>3, <1>4, <1>6, QueueAssumption DEF Removed
<1>8. QueueInv' /\ HasArray(g, n - 1)'
  BY <1>5, <1>7, BecomesArray
<1> QED
  BY <1>2, <1>3, <1>4, <1>6, <1>8 DEF RemoveStep

\* Every step pushes an entry, takes the first one or takes another one.
LEMMA QueueSteps ==
    ASSUME QueueInv, QueueNext
    PROVE  /\ QueueInv'
           /\ \/ \E j \in Jobs : PushStep(j) \/ RemoveStep(j)
              \/ PopJob
<1>1. CASE PopJob
  BY <1>1, PopJobSteps
<1>2. ASSUME NEW j \in Jobs, PushJob(j)
      PROVE  QueueInv' /\ PushStep(j)
  BY <1>2, PushJobSteps
<1>3. ASSUME NEW j \in Jobs, RequeueJob(j)
      PROVE  QueueInv' /\ PushStep(j)
  BY <1>3, RequeueJobSteps
<1>4. ASSUME NEW j \in Jobs, RemoveJob(j)
      PROVE  QueueInv' /\ \E k \in Jobs : RemoveStep(k)
  <2>1. index[j] \in 1 .. Len(queue)
    BY <1>4, QueueIsArray DEF RemoveJob, QueueInv
  <2> QED
    BY <1>4, <2>1, RemoveAtSteps DEF RemoveJob
<1>5. ASSUME NEW accepted \in SUBSET Jobs, BackfillJob(accepted)
      PROVE  QueueInv' /\ \E k \in Jobs : RemoveStep(k)
  BY <1>5, RemoveAtSteps DEF BackfillJob
<1> QED
  BY <1>1, <1>2, <1>3, <1>4, <1>5 DEF QueueNext

\* The queue is a heap with sound indices in every reachable state.
LEMMA QueueIsHeap == QueueSpec => []QueueInv
<1>1. QueueInit => QueueInv
  BY QueueStarts
<1>2. QueueInv /\ [QueueNext]_queueVars => QueueInv'
  <2> SUFFICES ASSUME QueueInv, [QueueNext]_queueVars PROVE QueueInv'
    OBVIOUS
  <2>1. CASE QueueNext
    BY <2>1, QueueSteps
  <2>2. CASE UNCHANGED queueVars
    BY <2>2 DEF queueVars, QueueInv, Array
  <2> QED
    BY <2>1, <2>2
<1> QED
  BY <1>1, <1>2, PTL DEF QueueSpec

-----------------------------------------------------------------------------
(* The properties *)

\* Every entry of the array is a job and every job.index a position, however
\* often a job is pushed again while it still has an entry.
THEOREM QueueTypeCorrect == QueueSpec => []QueueTypeOK
<1>1. QueueInv => QueueTypeOK
  <2> SUFFICES ASSUME QueueInv PROVE QueueTypeOK
    OBVIOUS
  <2>1. /\ queue \in Seq(Jobs) /\ index \in [Jobs -> Nat] /\ Len(queue) <= MaxEntries
        /\ Sound(Array, Len(queue)) /\ Array.ix = index
    BY QueueIsArray DEF QueueInv, Heap
  <2>2. Len(queue) \in Nat /\ MaxEntries \in Nat
    BY <2>1, QueueAssumption
  <2>3. ASSUME NEW j \in Jobs
        PROVE  index[j] \in 0 .. MaxEntries
    <3>1. index[j] \in Nat /\ (index[j] # 0 => index[j] \in 1 .. Len(queue))
      BY <2>1 DEF Sound
    <3> QED
      BY <2>1, <2>2, <3>1
  <2> QED
    BY <2>1, <2>3 DEF QueueTypeOK
<1> QED
  BY <1>1, QueueIsHeap, PTL

\* No entry is before the one above it in the array, after any sequence of
\* pushes, pops and removals at any position: Dequeue sees the first job.
THEOREM HeapIsOrdered == QueueSpec => []HeapOrdered
<1>1. QueueInv => HeapOrdered
  <2> SUFFICES ASSUME QueueInv, NEW i \in 2 .. Len(queue)
               PROVE  ~Less(Array, i, i \div 2)
    BY DEF HeapOrdered
  <2>1. Len(queue) \in Nat /\ Heap(Array, Len(queue))
    BY QueueIsArray
  <2>2. /\ i \div 2 \in 1 .. Len(queue) /\ i \in 1 .. Len(queue)
        /\ Order[Array.q[i \div 2]] <= Order[Array.q[i]]
    BY <2>1, HeapPlaced
  <2>3. Order[Array.q[i \div 2]] \in Nat /\ Order[Array.q[i]] \in Nat
    BY <2>1, <2>2, HeapPlaced
  <2> QED
    BY <2>2, <2>3 DEF Less
<1> QED
  BY <1>1, QueueIsHeap, PTL

\* A job.index that is set is the position of an entry of that job: what
\* Cancel and RemoveByID take out of the queue is the job they were asked for.
THEOREM IndexIsSound == QueueSpec => []IndexSound
<1>1. QueueInv => IndexSound
  <2> SUFFICES ASSUME QueueInv, NEW j \in Jobs, index[j] # 0
               PROVE  index[j] <= Len(queue) /\ queue[index[j]] = j
    BY DEF IndexSound
  <2>1. /\ Sound(Array, Len(queue)) /\ Array.ix = index /\ Array.q = queue
        /\ Len(queue) \in Nat
    BY QueueIsArray DEF Heap
  <2> QED
    BY <2>1 DEF Sound
<1> QED
  BY <1>1, QueueIsHeap, PTL

-----------------------------------------------------------------------------
(* The array implements the bag *)

\* What the bag sees of the array: how many entries each job has.
Entries == [j \in Jobs |-> Cardinality(Copies(j))]

\* And the jobs whose index is set.
Indexed == {j \in Jobs : index[j] # 0}

\* What the bag sees when the queue has array h of n entries.
LEMMA BagOfArray ==
    ASSUME NEW h, NEW n, HasArray(h, n)
    PROVE  /\ Entries = [j \in Jobs |-> Count(h, j, n)]
           /\ Indexed = {j \in Jobs : h.ix[j] # 0}
<1>1. queue = h.q /\ index = h.ix /\ Len(queue) = n
  BY DEF HasArray
<1>2. \A j \in Jobs : Copies(j) = Holds(h, j, n)
  BY <1>1 DEF Copies, Holds
<1> QED
  BY <1>1, <1>2 DEF Entries, Indexed, Count

\* The same after a step.
LEMMA BagOfNextArray ==
    ASSUME NEW h, NEW n, HasArray(h, n)'
    PROVE  /\ Entries' = [j \in Jobs |-> Count(h, j, n)]
           /\ Indexed' = {j \in Jobs : h.ix[j] # 0}
<1>1. queue' = h.q /\ index' = h.ix /\ Len(queue') = n
  BY DEF HasArray
<1>2. \A j \in Jobs : Copies(j)' = Holds(h, j, n)
  BY <1>1 DEF Copies, Holds
<1> QED
  BY <1>1, <1>2 DEF Entries, Indexed, Count

\* The first entry of a heap is the first job in the order.
LEMMA TopIsFirst ==
    ASSUME NEW n \in Nat, NEW h, Heap(h, n), n > 0, NEW p \in 1 .. n
    PROVE  Order[h.q[1]] <= Order[h.q[p]]
<1>1. /\ \A r \in 1 .. n : Order[h.q[r]] \in Nat
      /\ \A r \in 2 .. n : /\ r \div 2 \in 1 .. n /\ r \div 2 < r
                          /\ Order[h.q[r \div 2]] <= Order[h.q[r]]
  BY HeapPlaced
<1> DEFINE B == {r \in 1 .. n : ~(Order[h.q[1]] <= Order[h.q[r]])}
<1> SUFFICES ASSUME B # {} PROVE FALSE
  OBVIOUS
<1>2. B \in SUBSET Nat
  OBVIOUS
<1>3. PICK r \in B : \A k \in B : r <= k
  BY <1>2, LeastNatural
<1>4. r \in 2 .. n
  BY <1>1, <1>3
<1>5. r \div 2 \in 1 .. n /\ r \div 2 < r /\ ~(r <= r \div 2)
  BY <1>1, <1>4
<1>6. Order[h.q[1]] <= Order[h.q[r \div 2]]
  BY <1>3, <1>5
<1>7. Order[h.q[r \div 2]] <= Order[h.q[r]]
  BY <1>1, <1>4
<1>8. /\ Order[h.q[1]] \in Nat /\ Order[h.q[r]] \in Nat
      /\ Order[h.q[r \div 2]] \in Nat
  BY <1>1, <1>4, <1>5
<1> QED
  BY <1>3, <1>6, <1>7, <1>8

\* Jobs that get an index back have an entry.
LEMMA IndexedHaveEntries ==
    ASSUME NEW n \in Nat, NEW h, Heap(h, n), NEW j \in Jobs, h.ix[j] # 0
    PROVE  Count(h, j, n) > 0
<1>1. h.ix[j] \in 1 .. n /\ h.q[h.ix[j]] = j
  BY DEF Heap, Sound
<1> QED
  BY <1>1, CountType

\* A push on the array is a push on the bag.
LEMMA PushImplements ==
    ASSUME QueueInv, NEW j \in Jobs, PushStep(j)
    PROVE  Bag!HeapPush(j)
<1>1. PICK h : h = Array
  OBVIOUS
<1>2. PICK g, n : n = Len(queue) /\ Pushed(h, g, j, n) /\ HasArray(g, n + 1)'
  BY <1>1 DEF PushStep
<1>3. n \in Nat /\ n + 1 \in Nat /\ Heap(h, n) /\ Heap(g, n + 1) /\ HasArray(h, n)
  BY <1>1, <1>2, QueueIsArray DEF Pushed, HasArray
<1>4. PICK c : c = Entries
  OBVIOUS
<1>5. PICK x : x = Indexed
  OBVIOUS
<1>6. PICK d : d = Entries'
  OBVIOUS
<1>7. PICK y : y = Indexed'
  OBVIOUS
<1>8. c = [k \in Jobs |-> Count(h, k, n)] /\ x = {k \in Jobs : h.ix[k] # 0}
  BY <1>3, <1>4, <1>5, BagOfArray
<1>9. d = [k \in Jobs |-> Count(g, k, n + 1)] /\ y = {k \in Jobs : g.ix[k] # 0}
  <2>1. /\ Entries' = [k \in Jobs |-> Count(g, k, n + 1)]
        /\ Indexed' = {k \in Jobs : g.ix[k] # 0}
    BY <1>2, BagOfNextArray
  <2> QED
    BY <1>6, <1>7, <2>1
<1>10. /\ \A k \in Jobs : Count(g, k, n + 1) = IF k = j THEN Count(h, k, n) + 1
                                                      ELSE Count(h, k, n)
       /\ g.ix[j] # 0 /\ \A k \in Jobs : h.ix[k] # 0 => g.ix[k] # 0
  BY <1>2 DEF Pushed
<1>11. d = [c EXCEPT ![j] = @ + 1]
  BY <1>8, <1>9, <1>10
<1>12. PICK moved : moved = y \ (x \cup {j})
  OBVIOUS
<1>13. y = x \cup moved \cup {j}
  BY <1>8, <1>9, <1>10, <1>12
<1>14. moved \subseteq {k \in Jobs : c[k] > 0} \ x
  <2> SUFFICES ASSUME NEW k \in moved PROVE k \in Jobs /\ c[k] > 0 /\ k \notin x
    OBVIOUS
  <2>1. k \in Jobs /\ g.ix[k] # 0 /\ k # j /\ k \notin x
    BY <1>9, <1>12
  <2>2. Count(g, k, n + 1) > 0
    BY <1>3, <2>1, IndexedHaveEntries
  <2> QED
    BY <1>8, <1>10, <2>1, <2>2
<1> QED
  BY <1>4, <1>5, <1>6, <1>7, <1>11, <1>13, <1>14
  DEF Entries, Indexed, Bag!HeapPush, Bag!InHeap

\* A removal from the array is a removal from the bag.
LEMMA RemoveImplements ==
    ASSUME QueueInv, NEW j \in Jobs, RemoveStep(j)
    PROVE  Bag!HeapRemove(j)
<1>1. PICK h : h = Array
  OBVIOUS
<1>2. PICK g, n : /\ n = Len(queue) /\ Removed(h, g, j, n) /\ HasArray(g, n - 1)'
                  /\ \E p \in 1 .. n : queue[p] = j
  BY <1>1 DEF RemoveStep
<1>3. n \in Nat /\ Heap(h, n) /\ HasArray(h, n) /\ queue = h.q
  BY <1>1, <1>2, QueueIsArray DEF HasArray
<1>4. PICK c : c = Entries
  OBVIOUS
<1>5. PICK x : x = Indexed
  OBVIOUS
<1>6. PICK d : d = Entries'
  OBVIOUS
<1>7. PICK y : y = Indexed'
  OBVIOUS
<1>8. c = [k \in Jobs |-> Count(h, k, n)] /\ x = {k \in Jobs : h.ix[k] # 0}
  BY <1>3, <1>4, <1>5, BagOfArray
<1>9. d = [k \in Jobs |-> Count(g, k, n - 1)] /\ y = {k \in Jobs : g.ix[k] # 0}
  <2>1. /\ Entries' = [k \in Jobs |-> Count(g, k, n - 1)]
        /\ Indexed' = {k \in Jobs : g.ix[k] # 0}
    BY <1>2, BagOfNextArray
  <2> QED
    BY <1>6, <1>7, <2>1
<1>10. /\ \A k \in Jobs : Count(g, k, n - 1) = IF k = j THEN Count(h, k, n) - 1
                                                      ELSE Count(h, k, n)
       /\ g.ix[j] = 0 /\ \A k \in Jobs : h.ix[k] # 0 /\ k # j => g.ix[k] # 0
       /\ Heap(g, n - 1)
  BY <1>2 DEF Removed
<1>11. d = [c EXCEPT ![j] = @ - 1]
  BY <1>8, <1>9, <1>10
<1>12. PICK moved : moved = y \ x
  OBVIOUS
<1>13. y = (x \cup moved) \ {j}
  BY <1>8, <1>9, <1>10, <1>12
<1>14. n - 1 \in Nat
  BY <1>2, <1>3
<1>15. moved \subseteq {k \in Jobs : c[k] > 0} \ (x \cup {j})
  <2> SUFFICES ASSUME NEW k \in moved
               PROVE  k \in Jobs /\ c[k] > 0 /\ k \notin x /\ k # j
    OBVIOUS
  <2>1. k \in Jobs /\ g.ix[k] # 0 /\ k # j /\ k \notin x
    BY <1>9, <1>10, <1>12
  <2>2. Count(g, k, n - 1) > 0
    BY <1>10, <1>14, <2>1, IndexedHaveEntries
  <2> QED
    BY <1>8, <1>10, <2>1, <2>2
<1>16. c[j] > 0
  BY <1>2, <1>3, <1>8, CountType
<1> QED
  BY <1>4, <1>5, <1>6, <1>7, <1>11, <1>13, <1>15, <1>16
  DEF Entries, Indexed, Bag!HeapRemove, Bag!InHeap

\* What heap.Pop takes from the array is what it takes from the bag.
LEMMA PopImplements ==
    ASSUME QueueInv, PopJob
    PROVE  \E j \in Jobs : Bag!HeapPop(j)
<1>1. PICK h, n, j : h = Array /\ n = Len(queue) /\ j = queue[1]
  OBVIOUS
<1>2. j \in Jobs /\ queue # << >> /\ RemoveStep(j)
  BY <1>1, PopJobSteps
<1>3. n \in Nat /\ Heap(h, n) /\ HasArray(h, n) /\ h.q = queue
  BY <1>1, QueueIsArray DEF HasArray
<1>4. n > 0 /\ 1 \in 1 .. n
  BY <1>1, <1>2, <1>3 DEF QueueInv
<1>5. Bag!HeapRemove(j)
  BY <1>2, RemoveImplements
<1>6. PICK S : S = {k \in Jobs : Entries[k] > 0}
  OBVIOUS
<1>7. \A k \in Jobs : k \in S <=> \E p \in 1 .. n : h.q[p] = k
  <2>1. \A k \in Jobs : Entries[k] = Count(h, k, n)
    BY <1>3, BagOfArray
  <2> QED
    BY <1>3, <1>6, <2>1, CountType
<1>8. j \in S /\ \A k \in S : Order[j] <= Order[k]
  <2>1. \A p \in 1 .. n : Order[h.q[1]] <= Order[h.q[p]]
    BY <1>3, <1>4, TopIsFirst
  <2>2. S \subseteq Jobs /\ h.q[1] = j
    BY <1>1, <1>3, <1>6
  <2> QED
    BY <1>2, <1>4, <1>7, <2>1, <2>2
<1>9. ASSUME NEW i \in S, \A k \in S : Order[i] <= Order[k]
      PROVE  i = j
  <2>1. i \in Jobs /\ Order[i] \in Nat /\ Order[j] \in Nat
    BY <1>2, <1>6, QueueAssumption
  <2>2. Order[i] <= Order[j] /\ Order[j] <= Order[i]
    BY <1>8, <1>9
  <2>3. Order[i] = Order[j]
    BY <2>1, <2>2
  <2> QED
    BY <1>2, <2>1, <2>3, DistinctPlaces
<1>10. j = CHOOSE i \in S : \A k \in S : Order[i] <= Order[k]
  BY <1>8, <1>9
<1>11. Bag!InHeap = S
  BY <1>6 DEF Bag!InHeap, Entries
<1>12. j = Bag!First(Bag!InHeap) /\ j \in Bag!InHeap
  BY <1>8, <1>10, <1>11 DEF Bag!First
<1> QED
  BY <1>2, <1>5, <1>12 DEF Bag!HeapPop

\* The array with its sift operations and shared indices implements the bag
\* of entries the scheduler model works with: each push adds one entry, each
\* removal takes one of the job it names, Pop takes the first job in the
\* order, and an index comes back only to a job that has an entry.
THEOREM ArrayImplementsBag == QueueSpec => ImplementsHeapBag
<1>1. QueueInit => Bag!HeapInit
  <2> SUFFICES ASSUME QueueInit PROVE Bag!HeapInit
    OBVIOUS
  <2>1. \A j \in Jobs : Cardinality(Copies(j)) = 0
    <3>1. \A j \in Jobs : Copies(j) = {}
      BY DEF QueueInit, Copies
    <3> QED
      BY <3>1, FS_EmptySet
  <2> QED
    BY <2>1 DEF QueueInit, Bag!HeapInit
<1>2. QueueInv /\ [QueueNext]_queueVars => [Bag!HeapNext]_(Bag!heapVars)
  <2> SUFFICES ASSUME QueueInv, [QueueNext]_queueVars
               PROVE  Bag!HeapNext \/ UNCHANGED Bag!heapVars
    OBVIOUS
  <2>1. CASE QueueNext
    <3>1. CASE PopJob
      BY <3>1, PopImplements DEF Bag!HeapNext
    <3>2. ASSUME NEW j \in Jobs, PushStep(j)
          PROVE  Bag!HeapNext
      BY <3>2, PushImplements DEF Bag!HeapNext
    <3>3. ASSUME NEW j \in Jobs, RemoveStep(j)
          PROVE  Bag!HeapNext
      BY <3>3, RemoveImplements DEF Bag!HeapNext
    <3> QED
      BY <2>1, <3>1, <3>2, <3>3, QueueSteps
  <2>2. CASE UNCHANGED queueVars
    BY <2>2 DEF queueVars, Bag!heapVars, Copies
  <2> QED
    BY <2>1, <2>2
<1> QED
  BY <1>1, <1>2, QueueIsHeap, PTL DEF QueueSpec, ImplementsHeapBag, Bag!HeapSpec
=============================================================================
