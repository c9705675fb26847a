------------------------- MODULE PosAsyncCkptDump -------------------------
(***************************************************************************)
(* Proofs about PosAsyncCkpt: every step keeps DumpInv, as long as nothing *)
(* fails, so that the directory of a dump comes to hold what was run       *)
(* before it, what was run behind its back, and what was not run.  There   *)
(* is one lemma per handler; PosAsyncCkptProofs puts them together.        *)
(***************************************************************************)
EXTENDS PosAsyncCkptInv, WellFoundedInduction, TLAPS

---------------------------------------------------------------------------
\* A queue of calls is one of more calls.
LEMMA SeqMonotone ==
    ASSUME NEW S, NEW T, S \subseteq T, NEW s \in Seq(S) PROVE s \in Seq(T)
<1>1. s \in [1..Len(s) -> T] /\ Len(s) \in Nat
  OBVIOUS
<1> QED BY <1>1

\* What checkpoint_add does at each value of the counter.
LEMMA AddCases ==
    /\ AddRole(0) = "copy" /\ AddCount(0) = 1
    /\ AddRole(1) = "wait" /\ AddCount(1) = 2
    /\ AddRole(2) = "done" /\ AddCount(2) = 2
    /\ AddRole(3) = "done" /\ AddCount(3) = 3
BY DEF AddRole, AddCount

\* Without a failure the threads of a bottom half are all there to collect.
LEMMA NoSyncPersistFails ==
    ASSUME Inv, NEW f \in Handles, NEW S \in SUBSET Handles,
           SyncPersistFails(f, S)
    PROVE  FALSE
<1>1. worker.pc = "sync_persist" /\ f \in persist_handles
      /\ persist_thread[f].status \in {"failed", "none"}
  BY Zenon DEF SyncPersistFails
<1>2. BH_active
  BY <1>1 DEF Inv, Safe, OneCommand
<1> QED BY <1>1, <1>2 DEF Inv, Safe, PersistInv

\* From here on, a leaf that does not say otherwise is Zenon's.
USE Zenon

\* The commands given are within the bound.
LEMMA GivenCmds == CmdTypes => Len(cmd) \in Nat /\ 1..Len(cmd) \subseteq Cmds
BY SMT, BoundsAssumption DEF CmdTypes, Cmds

NatLess == {x \in Nat \X Nat : x[1] < x[2]}

\* A set of naturals that is not empty has a least element.
LEMMA Least ==
    ASSUME NEW T, T \subseteq Nat, T # {}
    PROVE  \E x \in T : \A y \in T : x <= y
<1>1. IsWellFoundedOn(NatLess, Nat)
  BY NatLessThanWellFounded DEF OpToRel, NatLess
<1>2. PICK x \in T : \A y \in T : <<y, x>> \notin NatLess
  BY <1>1, WFMin
<1>3. ASSUME NEW y \in T PROVE x <= y
  <2>1. <<y, x>> \notin NatLess
    BY <1>2
  <2> QED BY SMT, <2>1 DEF NatLess
<1> QED BY <1>3

\* One with a bound has a greatest, and Max is it.
LEMMA MaxOf ==
    ASSUME NEW n \in Nat, NEW T, T \subseteq 0..n, T # {}
    PROVE  Max(T) \in T /\ \A y \in T : y <= Max(T)
<1>1. PICK D : D = {n - x : x \in T}
  OBVIOUS
<1>2. D \subseteq Nat /\ D # {}
  <2>1. \A x \in T : n - x \in Nat
    BY SMT
  <2> QED BY <1>1, <2>1
<1>3. PICK d \in D : \A e \in D : d <= e
  BY <1>2, Least
<1>4. PICK x \in T : d = n - x
  BY <1>1
<1>5. ASSUME NEW y \in T PROVE x >= y
  <2>1. n - y \in D
    BY <1>1
  <2>2. d <= n - y
    BY <2>1, <1>3
  <2> QED BY SMT, <2>2, <1>4
<1>6. Max(T) \in T /\ \A y \in T : Max(T) >= y
  BY <1>4, <1>5 DEF Max
<1> QED BY SMT, <1>6

---------------------------------------------------------------------------
(* Increasing sequences of calls *)

\* An empty queue has no members.
LEMMA EmptyRange == Range(<<>>) = {} /\ Increasing(<<>>)
<1>1. DOMAIN <<>> = {}
  BY SMT
<1> QED BY <1>1 DEF Range, Increasing

\* The first call of a queue comes before the others.
LEMMA HeadFirst ==
    ASSUME NEW s \in Seq(Nat), Increasing(s), s # <<>>
    PROVE  /\ Range(s) = {Head(s)} \cup Range(Tail(s))
           /\ Before({Head(s)}, Range(Tail(s))) /\ Increasing(Tail(s))
<1>1. PICK t : t = Tail(s)
  OBVIOUS
<1>2. PICK n \in Nat : /\ DOMAIN s = 1..(n + 1) /\ DOMAIN t = 1..n
                       /\ Head(s) = s[1] /\ \A j \in 1..n : t[j] = s[j + 1]
  <2>1. Len(s) - 1 \in Nat /\ (Len(s) - 1) + 1 = Len(s)
    BY SMT
  <2>2. /\ DOMAIN s = 1..Len(s) /\ DOMAIN t = 1..(Len(s) - 1)
        /\ Head(s) = s[1] /\ \A j \in 1..(Len(s) - 1) : t[j] = s[j + 1]
    BY SMT, <1>1
  <2> QED BY <2>1, <2>2
<1>3. 1 \in 1..(n + 1)
      /\ \A j \in 1..(n + 1) : j = 1 \/ (j - 1 \in 1..n /\ (j - 1) + 1 = j)
  BY SMT
<1>4. \A j \in 1..n : j + 1 \in 1..(n + 1) /\ 1 < j + 1
  BY SMT
<1>5. \A j, k \in 1..n : j < k => j + 1 < k + 1
  BY SMT
<1>6. ASSUME NEW x \in Range(s) PROVE x \in {Head(s)} \cup Range(t)
  <2>1. PICK j \in 1..(n + 1) : x = s[j]
    BY <1>2 DEF Range
  <2>2. CASE j = 1
    BY <1>2, <2>1, <2>2
  <2>3. CASE j # 1
    <3>1. j - 1 \in 1..n /\ (j - 1) + 1 = j
      BY <1>3, <2>3
    <3>2. t[j - 1] = x
      BY <1>2, <2>1, <3>1
    <3> QED BY <1>2, <3>1, <3>2 DEF Range
  <2> QED BY <2>2, <2>3
<1>7. ASSUME NEW x \in {Head(s)} \cup Range(t) PROVE x \in Range(s)
  <2>1. CASE x = Head(s)
    BY <1>2, <1>3, <2>1 DEF Range
  <2>2. CASE x \in Range(t)
    <3>1. PICK j \in 1..n : x = t[j]
      BY <1>2, <2>2 DEF Range
    <3>2. j + 1 \in DOMAIN s /\ x = s[j + 1]
      BY <1>2, <1>4, <3>1
    <3> QED BY <3>2 DEF Range
  <2> QED BY <2>1, <2>2
<1>8. Before({Head(s)}, Range(t))
  <2> SUFFICES ASSUME NEW j \in 1..n PROVE s[1] < t[j]
    BY <1>2 DEF Before, Range
  <2> QED BY <1>2, <1>3, <1>4 DEF Increasing
<1>9. Increasing(t)
  <2> SUFFICES ASSUME NEW j \in 1..n, NEW k \in 1..n, j < k PROVE t[j] < t[k]
    BY <1>2 DEF Increasing
  <2> QED BY <1>2, <1>4, <1>5 DEF Increasing
<1> QED BY <1>1, <1>6, <1>7, <1>8, <1>9

\* The members of a queue with one more.
LEMMA RangeAppend ==
    ASSUME NEW S, NEW s \in Seq(S), NEW i \in S
    PROVE  Range(Append(s, i)) = Range(s) \cup {i}
<1>1. PICK t : t = Append(s, i)
  OBVIOUS
<1>2. /\ DOMAIN t = 1..(Len(s) + 1) /\ DOMAIN s = 1..Len(s) /\ Len(s) \in Nat
      /\ t[Len(s) + 1] = i /\ \A j \in 1..Len(s) : t[j] = s[j]
  BY SMT, <1>1
<1>3. 1..(Len(s) + 1) = (1..Len(s)) \cup {Len(s) + 1}
  BY SMT, <1>2
<1>4. ASSUME NEW x \in Range(t) PROVE x \in Range(s) \cup {i}
  <2>1. PICK j \in 1..(Len(s) + 1) : x = t[j]
    BY <1>2 DEF Range
  <2> QED BY <1>2, <1>3, <2>1 DEF Range
<1>5. i \in Range(t)
  BY <1>2, <1>3 DEF Range
<1>6. ASSUME NEW x \in Range(s) PROVE x \in Range(t)
  <2>1. PICK j \in 1..Len(s) : x = s[j]
    BY <1>2 DEF Range
  <2> QED BY <1>2, <1>3, <2>1 DEF Range
<1> QED BY <1>1, <1>4, <1>5, <1>6

\* An increasing sequence stays one when a greater call is appended.
LEMMA AppendIncreasing ==
    ASSUME NEW s \in Seq(Nat), Increasing(s), NEW i \in Nat,
           \A x \in Range(s) : x < i
    PROVE  /\ Append(s, i) \in Seq(Nat) /\ Increasing(Append(s, i))
           /\ Range(Append(s, i)) = Range(s) \cup {i}
<1>1. PICK t : t = Append(s, i)
  OBVIOUS
<1>2. /\ t \in Seq(Nat) /\ DOMAIN t = 1..(Len(s) + 1) /\ DOMAIN s = 1..Len(s)
      /\ t[Len(s) + 1] = i /\ \A j \in 1..Len(s) : t[j] = s[j]
  BY SMT, <1>1
<1> Len(s) \in Nat
  BY SMT
<1>3. \A j \in 1..Len(s) : s[j] < i
  BY <1>2 DEF Range
<1>4. Increasing(t)
  <2> SUFFICES ASSUME NEW j \in 1..(Len(s) + 1), NEW k \in 1..(Len(s) + 1),
                      j < k
               PROVE  t[j] < t[k]
    BY <1>2 DEF Increasing
  <2>1. CASE k = Len(s) + 1
    <3>1. j \in 1..Len(s)
      BY SMT, <2>1
    <3> QED BY <1>2, <1>3, <2>1, <3>1
  <2>2. CASE k # Len(s) + 1
    <3>1. j \in 1..Len(s) /\ k \in 1..Len(s)
      BY SMT, <2>2
    <3> QED BY <1>2, <3>1 DEF Increasing
  <2> QED BY <2>1, <2>2
<1>5. Range(Append(s, i)) = Range(s) \cup {i}
  BY SMT, RangeAppend
<1> QED BY <1>1, <1>2, <1>4, <1>5

\* So do two of which the second begins after the end of the first.
LEMMA ConcatIncreasing ==
    ASSUME NEW s \in Seq(Nat), NEW t \in Seq(Nat), Increasing(s), Increasing(t),
           Before(Range(s), Range(t))
    PROVE  /\ s \o t \in Seq(Nat) /\ Increasing(s \o t)
           /\ Range(s \o t) = Range(s) \cup Range(t)
<1>1. PICK u : u = s \o t
  OBVIOUS
<1>2. PICK m \in Nat, n \in Nat : m = Len(s) /\ n = Len(t)
  BY SMT
<1>3. /\ u \in Seq(Nat) /\ DOMAIN u = 1..(m + n) /\ DOMAIN s = 1..m
      /\ DOMAIN t = 1..n
  BY SMT, <1>1, <1>2
<1>4. /\ \A j \in 1..m : u[j] = s[j]
      /\ \A j \in 1..(m + n) : j > m => j - m \in 1..n /\ u[j] = t[j - m]
      /\ \A j \in 1..n : u[m + j] = t[j]
  BY SMTT(20), <1>1, <1>2
<1>5. ASSUME NEW j \in 1..(m + n), NEW k \in 1..(m + n), j < k
      PROVE  u[j] < u[k]
  <2>1. CASE k <= m
    <3>1. j \in 1..m /\ k \in 1..m
      BY SMT, <1>5, <2>1
    <3> QED BY <1>3, <1>4, <1>5, <3>1 DEF Increasing
  <2>2. CASE j > m
    <3>1. k > m /\ j - m < k - m
      BY SMT, <1>5, <2>2
    <3> QED BY ZenonT(30), <1>3, <1>4, <2>2, <3>1 DEF Increasing
  <2>3. CASE j <= m /\ k > m
    <3>1. j \in 1..m
      BY SMT, <2>3
    <3>2. s[j] \in Range(s) /\ t[k - m] \in Range(t)
      BY <1>3, <1>4, <2>3, <3>1 DEF Range
    <3> QED BY <1>4, <2>3, <3>1, <3>2 DEF Before
  <2> QED BY SMT, <2>1, <2>2, <2>3
<1>6. Increasing(u)
  BY <1>3, <1>5 DEF Increasing
<1>7. Range(u) = Range(s) \cup Range(t)
  <2>1. ASSUME NEW x \in Range(u) PROVE x \in Range(s) \cup Range(t)
    <3>1. PICK j \in 1..(m + n) : x = u[j]
      BY <1>3 DEF Range
    <3>2. j \in 1..m \/ j > m
      BY SMT
    <3> QED BY <1>3, <1>4, <3>1, <3>2 DEF Range
  <2>2. ASSUME NEW x \in Range(s) PROVE x \in Range(u)
    <3>1. PICK j \in 1..m : x = s[j]
      BY <1>3 DEF Range
    <3>2. j \in 1..(m + n)
      BY SMT
    <3> QED BY <1>3, <1>4, <3>1, <3>2 DEF Range
  <2>3. ASSUME NEW x \in Range(t) PROVE x \in Range(u)
    <3>1. PICK j \in 1..n : x = t[j]
      BY <1>3 DEF Range
    <3>2. m + j \in 1..(m + n)
      BY SMT
    <3> QED BY <1>3, <1>4, <3>1, <3>2 DEF Range
  <2> QED BY <2>1, <2>2, <2>3
<1> QED BY <1>1, <1>3, <1>6, <1>7

\* Of two increasing sequences with the same members each is a prefix of the
\* other.
LEMMA IncreasingPrefix ==
    ASSUME NEW s \in Seq(Nat), NEW t \in Seq(Nat), Increasing(s), Increasing(t),
           Range(s) = Range(t), NEW k \in 1..Len(s)
    PROVE  k \in 1..Len(t) /\ s[k] = t[k]
<1>1. PICK m \in Nat, n \in Nat : m = Len(s) /\ n = Len(t)
  BY SMT
<1>2. DOMAIN s = 1..m /\ DOMAIN t = 1..n
  BY SMT, <1>1
<1>3. (\A j \in 1..m : s[j] \in Nat) /\ \A j \in 1..n : t[j] \in Nat
  BY SMTT(20), <1>1
<1>4. PICK B : B = {j \in 1..m : ~(j \in 1..n /\ s[j] = t[j])}
  OBVIOUS
<1>5. ASSUME B # {} PROVE FALSE
  <2>1. B \subseteq Nat
    BY SMT, <1>4
  <2>2. PICK b \in B : \A c \in B : b <= c
    BY <1>5, <2>1, Least
  <2>3. b \in 1..m
    BY <1>4
  <2>4. ASSUME NEW j \in 1..m, j < b PROVE j \in 1..n /\ s[j] = t[j]
    <3>1. j \notin B
      BY SMT, <2>2, <2>3, <2>4
    <3> QED BY <1>4, <3>1
  <2>5. PICK p \in 1..n : t[p] = s[b]
    <3>1. s[b] \in Range(t)
      BY <1>2, <2>3 DEF Range
    <3> QED BY <1>2, <3>1 DEF Range
  <2>6. ~(p < b)
    <3> SUFFICES ASSUME p < b PROVE FALSE
      OBVIOUS
    <3>1. p \in 1..m
      BY SMT, <2>3
    <3>2. s[p] = t[p] /\ s[p] < s[b]
      BY <1>2, <2>3, <2>4, <3>1 DEF Increasing
    <3> QED BY SMT, <1>3, <2>3, <2>5, <3>2
  <2>7. b \in 1..n
    BY SMT, <2>3, <2>6
  <2>8. PICK q \in 1..m : s[q] = t[b]
    <3>1. t[b] \in Range(s)
      BY <1>2, <2>7 DEF Range
    <3> QED BY <1>2, <3>1 DEF Range
  <2>9. s[b] # t[b]
    BY <1>4, <2>7
  <2>10. q # b /\ p # b
    BY <2>5, <2>8, <2>9
  <2>11. b < p
    BY SMT, <2>6, <2>10, <2>3
  <2>12. t[b] < t[p]
    BY <1>2, <2>7, <2>11 DEF Increasing
  <2>13. CASE q < b
    <3>1. s[q] = t[q] /\ t[q] < t[b]
      BY <1>2, <2>4, <2>7, <2>13 DEF Increasing
    <3> QED BY SMT, <1>3, <2>7, <2>8, <3>1
  <2>14. CASE b < q
    <3>1. s[b] < s[q]
      BY <1>2, <2>3, <2>14 DEF Increasing
    <3> QED BY SMTT(20), <1>3, <2>3, <2>5, <2>7, <2>8, <2>12, <3>1
  <2> QED BY SMT, <2>3, <2>10, <2>13, <2>14
<1> QED BY <1>1, <1>4, <1>5

\* They are equal.
LEMMA IncreasingUnique ==
    ASSUME NEW s \in Seq(Nat), NEW t \in Seq(Nat), Increasing(s), Increasing(t),
           Range(s) = Range(t)
    PROVE  s = t
<1>1. \A k \in 1..Len(s) : k \in 1..Len(t) /\ s[k] = t[k]
  BY IncreasingPrefix
<1>2. \A k \in 1..Len(t) : k \in 1..Len(s)
  BY IncreasingPrefix
<1>3. 1..Len(s) = 1..Len(t)
  BY <1>1, <1>2
<1>4. /\ s = [k \in 1..Len(s) |-> s[k]]
      /\ t = [k \in 1..Len(t) |-> t[k]]
  BY SMT
<1> QED BY <1>1, <1>3, <1>4

\* The calls of a set up to the k-th that write to a handle can be put in
\* order.
Ordered(S, h, k) ==
    \E n \in 0..k : \E s \in [1..n -> S] :
        Range(s) = {i \in S : i <= k /\ call[i] = h} /\ Increasing(s)

\* So they can, for every k: there is no least one for which they cannot.
LEMMA AscendingExists ==
    ASSUME NEW S, S \subseteq Calls, NEW h, NEW m \in 0..MaxCalls
    PROVE  Ordered(S, h, m)
<1>1. PICK B : B = {k \in 0..MaxCalls : ~Ordered(S, h, k)}
  OBVIOUS
<1>2. ASSUME B # {} PROVE FALSE
  <2>1. B \subseteq Nat
    BY SMT, <1>1, BoundsAssumption
  <2>2. PICK k \in B : \A c \in B : k <= c
    BY <1>2, <2>1, Least
  <2>3. k \in 0..MaxCalls /\ ~Ordered(S, h, k)
    BY <1>1
  <2>4. CASE k = 0
    <3>1. (\A i \in S : ~(i <= k)) /\ 0 \in 0..k
      BY SMT, <2>4 DEF Calls
    <3>2. <<>> \in [1..0 -> S] /\ DOMAIN <<>> = {}
      BY SMT
    <3>3. Range(<<>>) = {} /\ Increasing(<<>>)
      BY <3>2 DEF Range, Increasing
    <3> QED BY <2>3, <3>1, <3>2, <3>3 DEF Ordered
  <2>5. CASE k # 0
    <3>1. k - 1 \in 0..MaxCalls /\ k - 1 \notin B
      BY SMT, <2>2, <2>3, <2>5, BoundsAssumption
    <3>2. Ordered(S, h, k - 1)
      BY <1>1, <3>1
    <3>3. PICK n \in 0..(k - 1) : \E s \in [1..n -> S] :
             /\ Range(s) = {i \in S : i <= k - 1 /\ call[i] = h}
             /\ Increasing(s)
      BY <3>2 DEF Ordered
    <3>4. PICK s \in [1..n -> S] :
             /\ Range(s) = {i \in S : i <= k - 1 /\ call[i] = h}
             /\ Increasing(s)
      BY <3>3
    <3>5. n \in 0..k /\ n + 1 \in 0..k /\ n \in Nat
      BY SMT, <2>3, <3>1
    <3>6. \A i \in S : i <= k <=> i <= k - 1 \/ i = k
      BY SMT, <2>3 DEF Calls
    <3>7. CASE k \in S /\ call[k] = h
      <4>1. s \in Seq(Nat) /\ Len(s) = n /\ k \in Nat
        <5>1. S \subseteq Nat /\ k \in Nat
          BY SMT, <2>3 DEF Calls
        <5>2. s \in [1..n -> Nat]
          BY <5>1
        <5>3. s \in Seq(Nat) /\ Len(s) = n
          BY SMT, <3>5, <5>2
        <5> QED BY <5>1, <5>3
      <4>2. \A x \in Range(s) : x < k
        <5>1. \A x \in S : x <= k - 1 => x < k
          BY SMT, <2>3 DEF Calls
        <5> QED BY <3>4, <5>1
      <4>3. /\ Increasing(Append(s, k))
            /\ Range(Append(s, k)) = Range(s) \cup {k}
        BY <3>4, <4>1, <4>2, AppendIncreasing
      <4>4. Append(s, k) \in [1..(n + 1) -> S]
        <5>1. k \in S /\ n \in Nat
          BY <3>5, <3>7
        <5>2. s \in Seq(S) /\ Len(s) = n
          BY SMT, <5>1
        <5>3. PICK t : t = Append(s, k)
          OBVIOUS
        <5>4. t \in Seq(S) /\ Len(t) = n + 1
          BY SMT, <5>1, <5>2, <5>3
        <5>5. t \in [1..(n + 1) -> S]
          BY SMT, <5>4
        <5> QED BY <5>3, <5>5
      <4>5. Range(s) \cup {k} = {i \in S : i <= k /\ call[i] = h}
        BY <3>4, <3>6, <3>7
      <4> QED BY <2>3, <3>5, <4>3, <4>4, <4>5 DEF Ordered
    <3>8. CASE ~(k \in S /\ call[k] = h)
      <4>1. {i \in S : i <= k - 1 /\ call[i] = h}
              = {i \in S : i <= k /\ call[i] = h}
        <5>1. ASSUME NEW i \in S, call[i] = h
              PROVE  i <= k - 1 <=> i <= k
          BY <3>6, <3>8, <5>1
        <5> QED BY <5>1
      <4> QED BY <2>3, <3>4, <3>5, <4>1 DEF Ordered
    <3> QED BY <3>7, <3>8
  <2> QED BY <2>4, <2>5
<1> QED BY <1>1, <1>2

\* Ascending puts them in order.
LEMMA AscendingIs ==
    ASSUME NEW S, S \subseteq Calls, NEW h
    PROVE  /\ Ascending(S, h) \in Seq(Nat) /\ Increasing(Ascending(S, h))
           /\ Range(Ascending(S, h)) = {i \in S : call[i] = h}
<1>1. MaxCalls \in 0..MaxCalls
  BY SMT, BoundsAssumption
<1>2. Ordered(S, h, MaxCalls)
  BY <1>1, AscendingExists
<1>3. \A i \in S : i <= MaxCalls
  BY SMT DEF Calls
<1>4. PICK n \in 0..MaxCalls : \E s \in [1..n -> S] :
        Range(s) = {i \in S : i <= MaxCalls /\ call[i] = h} /\ Increasing(s)
  BY <1>2 DEF Ordered
<1>5. PICK s \in [1..n -> S] :
        Range(s) = {i \in S : call[i] = h} /\ Increasing(s)
  <2>1. {i \in S : i <= MaxCalls /\ call[i] = h} = {i \in S : call[i] = h}
    BY <1>3
  <2> QED BY <1>4, <2>1
<1>6. s \in UNION {[1..k -> S] : k \in 0..MaxCalls}
  OBVIOUS
<1>7. /\ Ascending(S, h) \in UNION {[1..k -> S] : k \in 0..MaxCalls}
      /\ Range(Ascending(S, h)) = {i \in S : call[i] = h}
      /\ Increasing(Ascending(S, h))
  BY <1>5, <1>6 DEF Ascending
<1>8. PICK k \in 0..MaxCalls : Ascending(S, h) \in [1..k -> S]
  BY <1>7
<1>9. S \subseteq Nat /\ k \in Nat
  BY SMT DEF Calls
<1>10. Ascending(S, h) \in Seq(Nat)
  <2>1. PICK a : a = Ascending(S, h)
    OBVIOUS
  <2>2. a \in [1..k -> Nat]
    BY <1>8, <1>9, <2>1
  <2>3. a \in Seq(Nat)
    BY SMT, <1>9, <2>2
  <2> QED BY <2>1, <2>3
<1> QED BY <1>7, <1>10

\* A dump that has been answered is complete.
LEMMA DumpIsComplete ==
    ASSUME Known, oob = "removed", missed = {} PROVE Complete
<1>1. Answered
  BY DEF Answered
<1>2. Len(cmd) \in Cmds
  <2>1. Len(cmd) \in Nat /\ 1..Len(cmd) \subseteq Cmds /\ Len(cmd) # 0
    BY GivenCmds DEF Known, TypeInv, DumpInv, LastInv
  <2> QED BY SMT, <2>1
<1>3. /\ SavedAll /\ \A h \in Handles : ~Running(h) /\ SavedState(h)
  BY <1>1 DEF Known, DumpInv, CountInv, SavedDump
<1>4. IsDirectory(Dir)
  BY <1>2 DEF Known, TypeInv, FileTypes, Dir
<1> SUFFICES ASSUME NEW h \in Handles
             PROVE  /\ h \in DOMAIN Dir.state
                    /\ Restored(Dir, h) = Ascending(1..(api_inst_pc - 1), h)
  BY DEF Complete, Dir
<1>5. PICK s, a, b, t : /\ s = Dir.state[h] /\ a = Ascending(Dir.ra, h)
                        /\ b = Ascending(Dir.ua, h)
                        /\ t = Ascending(1..(api_inst_pc - 1), h)
  OBVIOUS
<1>6. PICK m \in Nat, n \in Nat :
        m = max_wqe_id /\ n = api_inst_pc - 1 /\ m <= n /\ n <= MaxCalls
  BY SMT, BoundsAssumption DEF Known, TypeInv, CallTypes, DumpInv, NumberInv
<1>7. h \in DOMAIN Dir.state /\ s \in Seq(Nat) /\ Increasing(s)
      /\ Before(Range(s), CallsOf(Dir.ra, h))
      /\ Range(s) \cup CallsOf(Dir.ra, h) = CallsOf(1..m, h)
  <2>1. h \in DOMAIN Dir.state
    BY <1>3 DEF SavedState, Held
  <2>2. s \in Seq(0..MaxCalls) /\ 0..MaxCalls \subseteq Nat
    <3>1. 0..MaxCalls \subseteq Nat
      BY SMT, BoundsAssumption
    <3> QED BY <1>4, <1>5, <2>1, <3>1 DEF IsDirectory
  <2>3. s \in Seq(Nat)
    BY <2>2, SeqMonotone
  <2> QED BY <1>3, <1>5, <1>6, <2>1, <2>3 DEF SavedState, Content
<1>8. /\ Dir.ra \subseteq Calls /\ Dir.ua \subseteq Calls
      /\ Dir.ua = Due /\ 1..n \subseteq Calls
  <2>1. 1..n \subseteq Calls
    BY SMT, <1>6, BoundsAssumption DEF Calls
  <2> QED BY <1>3, <1>4, <1>6, <2>1 DEF IsDirectory, SavedAll
<1>9. /\ a \in Seq(Nat) /\ Increasing(a) /\ Range(a) = CallsOf(Dir.ra, h)
      /\ b \in Seq(Nat) /\ Increasing(b) /\ Range(b) = CallsOf((m + 1)..n, h)
      /\ t \in Seq(Nat) /\ Increasing(t) /\ Range(t) = CallsOf(1..n, h)
  <2>1. a \in Seq(Nat) /\ Increasing(a) /\ Range(a) = CallsOf(Dir.ra, h)
    BY <1>5, <1>8, AscendingIs DEF CallsOf
  <2>2. b \in Seq(Nat) /\ Increasing(b) /\ Range(b) = CallsOf(Dir.ua, h)
    BY <1>5, <1>8, AscendingIs DEF CallsOf
  <2>3. t = Ascending(1..n, h)
    BY <1>5, <1>6
  <2>4. t \in Seq(Nat) /\ Increasing(t) /\ Range(t) = CallsOf(1..n, h)
    BY <1>8, <2>3, AscendingIs DEF CallsOf
  <2>5. ASSUME NEW i PROVE i \in Issued /\ m < i <=> i \in (m + 1)..n
    BY SMT, <1>6, BoundsAssumption DEF Issued, Calls, Known, TypeInv, CallTypes
  <2>6. \A i \in Issued : i \in skipped => call[i] # h
    BY HandlesAssumption DEF Known, DumpInv, NumberInv, Issued
  <2>7. CallsOf(Due, h) = CallsOf((m + 1)..n, h)
    <3>1. \A i : i \in Due => i \in (m + 1)..n
      BY <1>6, <2>5 DEF Due
    <3>2. \A i \in (m + 1)..n : call[i] = h => i \in Due
      BY <1>6, <2>5, <2>6 DEF Due
    <3> QED BY <3>1, <3>2 DEF CallsOf
  <2> QED BY <1>8, <2>1, <2>2, <2>4, <2>7
<1>10. PICK u : u = s \o a
  OBVIOUS
<1>11. u \in Seq(Nat) /\ Increasing(u) /\ Range(u) = CallsOf(1..m, h)
  BY ZenonT(30), <1>7, <1>9, <1>10, ConcatIncreasing
<1>12. Before(CallsOf(1..m, h), CallsOf((m + 1)..n, h))
  <2>1. \A x \in 1..m, y \in (m + 1)..n : x < y
    BY SMT
  <2> QED BY <2>1 DEF Before, CallsOf
<1>13. PICK v : v = u \o b
  OBVIOUS
<1>14. v \in Seq(Nat) /\ Increasing(v) /\ Range(v) = CallsOf(1..n, h)
  <2>1. /\ v \in Seq(Nat) /\ Increasing(v)
        /\ Range(v) = CallsOf(1..m, h) \cup CallsOf((m + 1)..n, h)
    <3>1. Before(Range(u), Range(b))
      BY <1>9, <1>11, <1>12
    <3>2. v \in Seq(Nat) /\ Increasing(v) /\ Range(v) = Range(u) \cup Range(b)
      BY <1>9, <1>11, <1>13, <3>1, ConcatIncreasing
    <3> QED BY <1>9, <1>11, <3>2
  <2>2. 1..n = (1..m) \cup ((m + 1)..n)
    BY SMT, <1>6
  <2>3. CallsOf(1..n, h) = CallsOf(1..m, h) \cup CallsOf((m + 1)..n, h)
    BY <2>2 DEF CallsOf
  <2> QED BY <2>1, <2>3
<1>15. v = t
  BY <1>9, <1>14, IncreasingUnique
<1>16. Restored(Dir, h) = v
  BY <1>5, <1>10, <1>13 DEF Restored
<1> QED BY <1>5, <1>7, <1>15, <1>16

\* Nothing is underway at first.
LEMMA InitDump == Init => DumpInv
<1> SUFFICES ASSUME Init PROVE DumpInv
  OBVIOUS
<1>1. /\ worker.pc = "loop" /\ th.pc = "exit" /\ ~BH_active /\ ~TH_actve
      /\ oob = "idle" /\ replies = <<>> /\ cmd_wq = <<>>
  BY SMT DEF Init, Polling, Exited
<1>2. ~Answered /\ ~Dumping /\ ~HandedOn /\ worker.pc \notin Saving
  BY <1>1 DEF Answered, Dumping, HandedOn, Saving
<1>3. LastInv /\ PersistDump /\ CleanDump /\ SavedDump
  BY <1>1, <1>2 DEF LastInv, PersistDump, CleanDump, SavedDump
<1>4. DirInv
  <2>1. NoFiles.ra = {} /\ NoFiles.ua = {}
    BY DEF NoFiles
  <2> QED BY <2>1 DEF Init, DirInv
<1>5. NumberInv
  <2>1. 0 < 1
    BY SMT
  <2> QED BY <2>1, EmptyRange DEF Init, NumberInv, Queued, Before
<1>6. OfflineInv
  BY <1>1, <1>2 DEF Init, OfflineInv
<1>7. CountInv
  <2>1. Unsaved
    <3>1. \A i \in Calls : ~(i < 1)
      BY SMT DEF Calls
    <3> QED BY <3>1, EmptyRange DEF Init, Unsaved, Queued, Due, Issued
  <2> QED BY <1>1, <1>2, <2>1 DEF CountInv, Saving
<1>8. MemInv
  <2>1. 1..0 = {}
    BY SMT
  <2> QED BY <2>1, EmptyRange DEF Init, MemInv, CallsOf
<1>9. ActiveDump
  BY <1>1, <1>2 DEF ActiveDump
<1> QED BY <1>3, <1>4, <1>5, <1>6, <1>7, <1>8, <1>9 DEF DumpInv

\* While a thread works on a command nothing else is underway.
LEMMA Underway ==
    ASSUME Known, th.pc # "exit" \/ BH_active \/ worker.pc \in Bottom
    PROVE  /\ oob = "waiting" /\ cmd_wq = <<>> /\ replies = <<>>
           /\ ~Answered /\ async_cmd = Len(cmd) /\ async_cmd # 0
           /\ Len(cmd) \in 1..Len(cmd) /\ Len(cmd) \in Cmds
<1>1. th.pc # "exit" \/ BH_active
  BY DEF Known, Inv, Safe, OneCommand, Bottom
<1>2. oob = "waiting" /\ cmd_wq = <<>> /\ replies = <<>>
  BY <1>1 DEF Known, Inv, Safe, OneCommand
<1>3. ~Answered
  BY <1>2 DEF Answered
<1>4. async_cmd = Len(cmd) /\ async_cmd # 0
  BY <1>1 DEF Known, DumpInv, LastInv, TypeInv, GivenTypes
<1>5. Len(cmd) \in Nat /\ 1..Len(cmd) \subseteq Cmds
  BY GivenCmds DEF Known, TypeInv
<1>6. Len(cmd) \in 1..Len(cmd)
  BY SMT, <1>4, <1>5
<1> QED BY <1>2, <1>3, <1>4, <1>5, <1>6

\* Once a dump is answered every thread is idle.
LEMMA AnsweredIdle ==
    ASSUME Known, Answered
    PROVE  /\ th.pc = "exit" /\ ~BH_active /\ cmd_wq = <<>> /\ oob # "idle"
           /\ worker.pc = "loop" /\ wqes = <<>> /\ parser2worker_wq = <<>>
           /\ offline_counter = 2 /\ rpc = "idle"
<1>1. oob = "removed" \/ replies # <<>>
  BY DEF Answered
<1>2. th.pc = "exit" /\ ~BH_active /\ cmd_wq = <<>> /\ oob # "idle"
  BY <1>1 DEF Known, Inv, Safe, OneCommand
<1> QED BY <1>2 DEF Known, DumpInv, CountInv, OfflineInv, SavedAll

(* What a step leaves alone *)

\* The commands are as they were.
LEMMA LastKept ==
    ASSUME LastInv, UNCHANGED control, UNCHANGED th PROVE LastInv'
BY DEF LastInv, control, Last

\* The top half goes on with its command.
LEMMA LastMoved ==
    ASSUME LastInv, UNCHANGED control, th.pc # "exit", th'.cmd = th.cmd,
           th'.pc \notin {"exit", "reply"}
    PROVE  LastInv'
BY DEF LastInv, control, Last

\* The directories are as they were.
LEMMA DirKept ==
    ASSUME DirInv, UNCHANGED <<cmd_wq, BH_active, files>>,
           Len(cmd') = Len(cmd),
           th'.pc = "exit" <=> th.pc = "exit",
           worker.pc \in Saving => worker'.pc \in Saving
    PROVE  DirInv'
BY DEF DirInv, Untouched

\* A step that leaves the commands alone does not answer one.
LEMMA AnswerKept ==
    ASSUME UNCHANGED control
    PROVE  /\ Answered' <=> Answered
           /\ UNCHANGED Last
           /\ do_cow' <=> do_cow
           /\ (th'.pc = "exit" <=> th.pc = "exit") => (Dumping' <=> Dumping)
BY DEF Answered, Last, control, Dumping, do_cow

\* The calls are as they were.
LEMMA NumberKept ==
    ASSUME UNCHANGED <<api_inst_pc, call, skipped, parser2worker_wq, wqes,
                       max_wqe_id>>
    PROVE  /\ NumberInv => NumberInv'
           /\ (Unsaved' <=> Unsaved) /\ UNCHANGED Due
<1>1. UNCHANGED <<Queued, Due, Issued>>
  BY DEF Queued, Due, Issued
<1> QED BY <1>1 DEF NumberInv, Unsaved

\* So is the worker's place.
LEMMA QueueKept ==
    ASSUME NumberInv, OfflineInv, CountInv,
           UNCHANGED <<rpc, offline_counter, api_inst_pc, call, skipped,
                       parser2worker_wq, wqes, max_wqe_id, worker>>,
           Answered' <=> Answered,
           worker.pc \in Saving \/ Answered => Dir'.ua = Dir.ua,
           Answered => \A h \in Handles : ~Running(h)'
    PROVE  NumberInv' /\ OfflineInv' /\ CountInv'
<1>1. NumberInv' /\ OfflineInv'
  BY NumberKept DEF OfflineInv
<1>2. (Unsaved' <=> Unsaved) /\ UNCHANGED Due
  BY NumberKept
<1>3. worker.pc \in Saving \/ Answered => (SavedAll' <=> SavedAll)
  BY <1>2 DEF SavedAll
<1>4. worker.pc = "drain" \/ worker.pc = "sync_persist" => worker.pc \in Saving
  BY DEF Saving
<1> QED BY <1>1, <1>2, <1>3, <1>4 DEF CountInv

\* No call is launched.
LEMMA MemKept ==
    ASSUME MemInv, UNCHANGED <<mem, max_wqe_id, call>> PROVE MemInv'
BY DEF MemInv, CallsOf

\* The worker does not move.
LEMMA ActiveKept ==
    ASSUME ActiveDump, Dumping' => Dumping, do_cow' <=> do_cow,
           BH_active => BH_active', async_cmd' = async_cmd,
           UNCHANGED <<TH_actve, wqes, call, dirty_handles, ckptdag_wq, worker>>
    PROVE  ActiveDump'
BY DEF ActiveDump, Target, Busy

\* Nothing is persisted.
LEMMA HandleKept ==
    ASSUME NEW h, UNCHANGED <<persist_thread, files>>, Len(cmd') = Len(cmd)
    PROVE  /\ Content(h)' = Content(h) /\ (Held(h)' <=> Held(h))
           /\ UNCHANGED Dir
BY DEF Content, Held, Running, Dir

\* What was handed on stays in place.
LEMMA PersistKept ==
    ASSUME PersistDump,
           HandedOn' => HandedOn /\ UNCHANGED slot,
           worker.pc \in Saving => worker'.pc \in Saving,
           Len(cmd') = Len(cmd),
           UNCHANGED <<persist_handles, persist_thread, files>>
    PROVE  PersistDump'
BY HandleKept DEF PersistDump

\* The handles, the log and the top half are as they were.
LEMMA CleanKept ==
    ASSUME CleanDump, Dumping' => Dumping, missed' = {} => missed = {},
           worker.pc \in Saving => worker'.pc \in Saving,
           do_cow' <=> do_cow,
           worker.pc \in Busy => worker'.pc \in Busy /\ wqes' = wqes,
           th'.todo = th.todo, th'.seen = th.seen,
           \A h \in Handles : ThAt("copy", h)' <=> ThAt("copy", h),
           UNCHANGED <<mem, start, slot, state_preserve_counter,
                       dirty_handles, ckptdag_wq, call, max_wqe_id>>
    PROVE  CleanDump'
<1> SUFFICES ASSUME Dumping', missed' = {}, worker'.pc \notin Saving
             PROVE  LoggedInv' /\ \A h \in Handles : CleanInv(h)' /\ RedoInv(h)'
  BY DEF CleanDump
<1>1. LoggedInv /\ \A h \in Handles : CleanInv(h) /\ RedoInv(h)
  BY DEF CleanDump
<1>2. LoggedInv'
  BY <1>1 DEF LoggedInv
<1>3. ASSUME NEW h \in Handles PROVE CleanInv(h)' /\ RedoInv(h)'
  BY <1>1 DEF CleanInv, RedoInv, CallsOf
<1> QED BY <1>2, <1>3

\* What was saved stays in place.
LEMMA SavedKept ==
    ASSUME SavedDump, missed' = {} => missed = {},
           worker'.pc \in Saving \/ Answered' =>
               worker.pc \in Saving \/ Answered,
           Len(cmd') = Len(cmd),
           UNCHANGED <<persist_thread, files, call, max_wqe_id>>
    PROVE  SavedDump'
<1> SUFFICES ASSUME missed' = {}, worker'.pc \in Saving \/ Answered',
                    NEW h \in Handles
             PROVE  SavedState(h)'
  BY DEF SavedDump
<1>1. SavedState(h)
  BY DEF SavedDump
<1>2. /\ Content(h)' = Content(h) /\ (Held(h)' <=> Held(h))
      /\ UNCHANGED <<Dir, call, max_wqe_id>>
  BY HandleKept
<1> QED BY <1>1, <1>2 DEF SavedState, CallsOf

\* No dump is underway once its thread has gone.
LEMMA NothingUnderway ==
    ASSUME th'.pc = "exit", ~BH_active' PROVE ~Dumping' /\ ~HandedOn'
BY DEF Dumping, HandedOn

---------------------------------------------------------------------------
(* The RPC thread *)

\* The client is locked, goes offline, or gets an answer from the parser.
LEMMA ClientDump ==
    ASSUME Known, try_lock_client \/ ConfirmOffline \/ ParserReturns
    PROVE  DumpInv'
<1>1. /\ UNCHANGED <<api_inst_pc, call, skipped, parser2worker_wq, ckptdag_wq,
                     handles, worker, wqes, max_wqe_id, th, ckpt_cxt, oob_vars,
                     files, history>>
      /\ offline_counter # 2 /\ (offline_counter' = 2 => rpc' = "idle")
  <2>1. CASE try_lock_client
    BY SMT, <2>1 DEF try_lock_client
  <2>2. CASE ConfirmOffline
    BY SMT, <2>2 DEF ConfirmOffline
  <2>3. CASE ParserReturns
    BY SMT, <2>3 DEF ParserReturns, Known, DumpInv, OfflineInv
  <2> QED BY <2>1, <2>2, <2>3
<1>2. /\ UNCHANGED control
      /\ UNCHANGED <<TH_actve, dirty_handles, persist_handles>>
      /\ UNCHANGED <<mem, slot, state_preserve_counter, persist_thread>>
      /\ UNCHANGED <<start, missed>>
  BY <1>1 DEF control, ckpt_cxt, oob_vars, handles, history
<1>3. worker.pc \notin {"stopped"} \cup Saving /\ ~Answered
  BY <1>1 DEF Known, DumpInv, OfflineInv, CountInv, SavedAll
<1>4. /\ ~Answered' /\ (do_cow' <=> do_cow) /\ (Dumping' <=> Dumping)
      /\ UNCHANGED Last
  BY <1>1, <1>2, <1>3, AnswerKept
<1>5. NumberInv' /\ OfflineInv'
  BY <1>1, <1>3, NumberKept DEF Known, DumpInv, OfflineInv
<1>6. CountInv'
  <2>1. Unsaved'
    BY <1>1, <1>3, NumberKept DEF Known, DumpInv, CountInv
  <2> QED BY <1>1, <1>3, <1>4, <2>1 DEF CountInv, Saving
<1>7. HandedOn' <=> HandedOn
  BY <1>1, <1>2, <1>4 DEF HandedOn, control
<1>8. LastInv' /\ DirInv' /\ MemInv'
  BY <1>1, <1>2, LastKept, DirKept, MemKept DEF Known, DumpInv, control
<1>9. ActiveDump'
  BY <1>1, <1>2, <1>4, ActiveKept DEF Known, DumpInv, control
<1>10. PersistDump' /\ SavedDump'
  BY <1>1, <1>2, <1>3, <1>4, <1>7, PersistKept, SavedKept DEF Known, DumpInv,
     control
<1>11. CleanDump'
  BY <1>1, <1>2, <1>4, CleanKept DEF Known, DumpInv, ThAt
<1> QED BY <1>5, <1>6, <1>8, <1>9, <1>10, <1>11 DEF DumpInv

\* A call is issued: it comes after all those before it, and no thread has
\* read what it writes to.  One that the parser answers writes to nothing.
LEMMA IssueDump ==
    ASSUME Known, NEW g \in Handles \cup {NoHandle},
           Issue(g) \/ (g = NoHandle /\ \E sync \in BOOLEAN : Skip(sync))
    PROVE  DumpInv'
<1>1. UNCHANGED <<offline_counter, ckptdag_wq, handles, worker, wqes,
                  max_wqe_id, th, ckpt_cxt, oob_vars, files, history>>
  BY DEF Issue, Skip
<1>2. /\ UNCHANGED control
      /\ UNCHANGED <<TH_actve, dirty_handles, persist_handles>>
      /\ UNCHANGED <<mem, slot, state_preserve_counter, persist_thread>>
      /\ UNCHANGED <<start, missed>>
  BY <1>1 DEF control, ckpt_cxt, oob_vars, handles, history
<1>3. /\ rpc = "locked" /\ api_inst_pc' = api_inst_pc + 1
      /\ \/ /\ call' = [call EXCEPT ![api_inst_pc] = g]
            /\ parser2worker_wq' = Append(parser2worker_wq, api_inst_pc)
            /\ skipped' = skipped
         \/ /\ call' = call /\ parser2worker_wq' = parser2worker_wq
            /\ skipped' = skipped \cup {api_inst_pc}
  BY DEF Issue, Skip
<1>4. offline_counter # 2
  BY <1>3 DEF Known, DumpInv, OfflineInv
<1>5. worker.pc \notin {"stopped"} \cup Saving /\ ~Answered /\ Unsaved
  BY <1>4 DEF Known, DumpInv, OfflineInv, CountInv, SavedAll
<1>6. /\ ~Answered' /\ (do_cow' <=> do_cow) /\ (Dumping' <=> Dumping)
      /\ UNCHANGED Last
  BY <1>1, <1>2, <1>5, AnswerKept
<1>7. PICK a \in Calls, m \in Nat :
        a = api_inst_pc /\ m = max_wqe_id /\ m < a /\ a \in Nat
  <2>1. api_inst_pc \in Calls /\ api_inst_pc \in Nat /\ max_wqe_id \in Nat
    BY SMT, <1>3, BoundsAssumption DEF Known, TypeInv, CallTypes, Calls
  <2> QED BY <2>1 DEF Known, DumpInv, NumberInv
<1>8. /\ Issued' = Issued \cup {a} /\ a \notin Issued /\ a \notin skipped
      /\ \A i \in Issued : i < a
  <2>1. \A i \in Calls : i < a + 1 <=> i < a \/ i = a
    BY SMT, <1>7 DEF Calls
  <2>2. ~(a < a)
    BY SMT, <1>7
  <2>3. Issued' = Issued \cup {a} /\ a \notin Issued
    BY <1>3, <1>7, <2>1, <2>2 DEF Issued
  <2> QED BY <1>7, <2>3 DEF Issued, Known, DumpInv, NumberInv
<1>9. /\ Range(parser2worker_wq) \subseteq Issued /\ Range(wqes) \subseteq Issued
      /\ parser2worker_wq \in Seq(Nat)
  <2>1. parser2worker_wq \in Seq(Issued) /\ wqes \in Seq(Issued)
    BY DEF Known, Inv, Types, CallInv
  <2>2. /\ \A j \in DOMAIN parser2worker_wq : parser2worker_wq[j] \in Issued
        /\ \A j \in DOMAIN wqes : wqes[j] \in Issued
    BY SMT, <2>1
  <2>3. Issued \subseteq Nat
    BY SMT DEF Issued, Calls
  <2> QED BY <2>1, <2>2, <2>3, SeqMonotone DEF Range
<1>10. NumberInv' /\ Unsaved'
  <2>1. m < a + 1 /\ \A i \in Calls : i >= a + 1 => i >= a /\ i # a
    BY SMT, <1>7 DEF Calls
  <2>2. Before(Range(wqes), Range(parser2worker_wq) \cup {a})
        /\ Before({m}, Queued \cup {a})
    BY <1>7, <1>8, <1>9 DEF Known, DumpInv, NumberInv, Before
  <2>3. CASE /\ call' = [call EXCEPT ![a] = g] /\ skipped' = skipped
             /\ parser2worker_wq' = Append(parser2worker_wq, a)
    <3>1. Increasing(parser2worker_wq')
          /\ Range(parser2worker_wq') = Range(parser2worker_wq) \cup {a}
      BY <1>7, <1>8, <1>9, <2>3, AppendIncreasing DEF Known, DumpInv, NumberInv
    <3>2. Queued' = Queued \cup {a}
      BY <1>1, <3>1 DEF Queued
    <3>3. Due' = Due \cup {a}
      BY <1>1, <1>7, <1>8, <2>3 DEF Due
    <3>4. \A i \in Calls : i \in skipped' \/ i >= a + 1 => call'[i] = NoHandle
      BY <1>7, <1>8, <2>1, <2>3 DEF Known, DumpInv, NumberInv, TypeInv,
         CallTypes
    <3>5. skipped' \subseteq Issued'
      BY <1>8, <2>3 DEF Known, DumpInv, NumberInv
    <3>6. NumberInv'
      BY <1>1, <1>3, <1>7, <2>1, <2>2, <3>1, <3>2, <3>4, <3>5
         DEF NumberInv, Known, DumpInv
    <3> QED BY <1>5, <3>2, <3>3, <3>6 DEF Unsaved
  <2>4. CASE /\ call' = call /\ parser2worker_wq' = parser2worker_wq
             /\ skipped' = skipped \cup {a}
    <3>1. Queued' = Queued
      BY <1>1, <2>4 DEF Queued
    <3>2. Due' = Due
      BY <1>1, <1>8, <2>4 DEF Due
    <3>3. \A i \in Calls : i \in skipped' \/ i >= a + 1 => call'[i] = NoHandle
      <4>1. a >= a
        BY SMT, <1>7
      <4> QED BY <1>7, <2>1, <2>4, <4>1 DEF Known, DumpInv, NumberInv
    <3>4. skipped' \subseteq Issued'
      BY <1>8, <2>4 DEF Known, DumpInv, NumberInv
    <3>5. NumberInv'
      BY <1>1, <1>3, <1>7, <2>1, <2>4, <3>1, <3>3, <3>4
         DEF NumberInv, Known, DumpInv
    <3> QED BY <1>5, <3>1, <3>2, <3>5 DEF Unsaved
  <2> QED BY <1>3, <1>7, <2>3, <2>4
<1>11. OfflineInv'
  BY <1>1, <1>4, <1>5 DEF Known, DumpInv, OfflineInv
<1>12. CountInv'
  BY <1>1, <1>5, <1>6, <1>10 DEF CountInv, Saving
<1>13. \A i \in Calls : i # a => call'[i] = call[i]
  BY <1>3, <1>7 DEF Known, TypeInv, CallTypes
<1>14. \A i \in Calls : i <= m => call'[i] = call[i]
  <2>1. \A i \in Calls : i <= m => i # a
    BY SMT, <1>7 DEF Calls
  <2> QED BY <1>13, <2>1
<1>15. 1..m \subseteq Calls /\ \A i \in 1..m : i <= m
  BY SMT, <1>7, BoundsAssumption DEF Known, TypeInv, CallTypes, Calls
<1>16. MemInv'
  <2>1. \A h : CallsOf(1..m, h)' = CallsOf(1..m, h)
    BY <1>14, <1>15 DEF CallsOf
  <2> QED BY <1>1, <1>2, <1>7, <2>1 DEF Known, DumpInv, MemInv
<1>17. Target' = Target
  <2>1. ASSUME worker.pc \in Busy
        PROVE  Head(wqes) \in Calls /\ Head(wqes) # a
    <3>1. wqes \in Seq(Issued) /\ wqes # <<>>
      BY <2>1 DEF Known, Inv, Types, CallInv, TypeInv, WorkerTypes
    <3>2. Head(wqes) \in Issued
      BY SMT, <3>1
    <3>3. \A i \in Issued : i \in Calls /\ i # api_inst_pc
      BY SMT DEF Issued, Calls, Known, TypeInv, CallTypes
    <3> QED BY <1>7, <3>2, <3>3
  <2> QED BY <1>1, <1>13, <2>1 DEF Target, Busy
<1>18. ActiveDump'
  BY <1>1, <1>2, <1>6, <1>17 DEF Known, DumpInv, ActiveDump, control
<1>19. HandedOn' <=> HandedOn
  BY <1>1, <1>2, <1>6 DEF HandedOn, control
<1>20. LastInv' /\ DirInv' /\ PersistDump' /\ SavedDump'
  BY <1>1, <1>2, <1>5, <1>6, <1>19, LastKept, DirKept, PersistKept
     DEF Known, DumpInv, control, SavedDump
<1>21. CleanDump'
  <2> SUFFICES ASSUME Dumping', missed' = {}, worker'.pc \notin Saving
               PROVE  /\ LoggedInv'
                      /\ \A h \in Handles : CleanInv(h)' /\ RedoInv(h)'
    BY DEF CleanDump
  <2>1. LoggedInv /\ \A h \in Handles : CleanInv(h) /\ RedoInv(h)
    BY <1>1, <1>2, <1>6 DEF Known, DumpInv, CleanDump
  <2>2. LoggedInv'
    BY <1>1, <1>6, <2>1 DEF LoggedInv
  <2>3. ASSUME NEW h \in Handles PROVE CleanInv(h)'
    BY <1>1, <1>2, <2>1 DEF CleanInv, ThAt
  <2>4. ASSUME NEW h \in Handles PROVE RedoInv(h)'
    <3>1. Range(ckptdag_wq) \subseteq Calls
      <4>1. ckptdag_wq \in Seq(Calls)
        BY DEF Known, TypeInv, QueueTypes
      <4>2. \A j \in DOMAIN ckptdag_wq : ckptdag_wq[j] \in Calls
        BY SMT, <4>1
      <4> QED BY <4>2 DEF Range
    <3>2. {i \in CallsOf(Range(ckptdag_wq), h) : i <= m}'
            = {i \in CallsOf(Range(ckptdag_wq), h) : i <= m}
      BY <1>1, <1>14, <3>1 DEF CallsOf
    <3> QED BY <1>1, <1>2, <1>6, <1>7, <2>1, <3>2 DEF RedoInv
  <2> QED BY <2>2, <2>3, <2>4
<1> QED BY <1>10, <1>11, <1>12, <1>16, <1>18, <1>20, <1>21 DEF DumpInv

---------------------------------------------------------------------------
(* The OOB thread, and replies *)

\* The user asks for a dump or a pre-dump, and nothing else is underway.
LEMMA RequestDump ==
    ASSUME Known, NEW d \in BOOLEAN, NEW w \in BOOLEAN, NEW f \in BOOLEAN,
           Request(d, w, f)
    PROVE  DumpInv'
<1>1. UNCHANGED <<client, parser2worker_wq, ckptdag_wq, handles, worker, wqes,
                  max_wqe_id, th, ckpt_cxt, replies, files, history>>
  BY DEF Request
<1>2. /\ UNCHANGED <<TH_actve, BH_active, async_cmd, dirty_handles>>
      /\ UNCHANGED <<rpc, offline_counter, api_inst_pc, call, skipped, mem>>
  BY <1>1 DEF ckpt_cxt, client, handles
<1>3. /\ oob = "idle" /\ oob' = "waiting"
      /\ cmd_wq' = Append(cmd_wq, Len(cmd) + 1)
      /\ cmd' = Append(cmd, [dump |-> d, do_cow |-> w, force_recompute |-> f,
                             retval |-> "success"])
  BY DEF Request
<1>4. th.pc = "exit" /\ ~BH_active /\ cmd_wq = <<>> /\ replies = <<>>
  BY <1>3 DEF Known, Inv, Safe, OneCommand
<1>5. ~Answered /\ ~Answered' /\ ~Dumping' /\ ~HandedOn'
  BY <1>1, <1>2, <1>3, <1>4, NothingUnderway DEF Answered
<1>6. PICK n \in Nat : n = Len(cmd) /\ Len(cmd') = n + 1 /\ async_cmd \in 0..n
  <2>1. cmd \in Seq(Attempt) /\ async_cmd \in 0..Len(cmd)
    BY DEF Known, TypeInv, CmdTypes, GivenTypes
  <2>2. Len(cmd) \in Nat /\ Len(cmd') = Len(cmd) + 1
    BY SMT, <1>3, <2>1
  <2> QED BY <2>1, <2>2
<1>7. cmd_wq' = <<n + 1>>
  BY SMT, <1>3, <1>4, <1>6
<1>8. LastInv'
  BY <1>1, <1>2, <1>3, <1>4, <1>6, <1>7 DEF LastInv
<1>9. DirInv'
  <2>1. \A c \in Cmds : c > n + 1 \/ c = n + 1 => c > n
    BY SMT DEF Cmds
  <2> QED BY <1>1, <1>6, <2>1 DEF Known, DumpInv, DirInv, Untouched
<1>10. worker.pc \notin Saving
  BY <1>4 DEF Known, Inv, Safe, OneCommand, Saving
<1>11. NumberInv' /\ OfflineInv' /\ CountInv'
  BY <1>1, <1>2, <1>5, <1>10, QueueKept DEF Known, DumpInv
<1>12. MemInv'
  BY <1>1, <1>2, MemKept DEF Known, DumpInv
<1>13. ActiveDump'
  <2>1. async_cmd # 0 => cmd'[async_cmd] = cmd[async_cmd]
    <3>1. cmd \in Seq(Attempt)
      BY DEF Known, TypeInv, CmdTypes
    <3> QED BY SMT, <1>3, <1>6, <3>1
  <2>2. do_cow' <=> do_cow
    BY <1>2, <2>1 DEF do_cow
  <2> QED BY <1>1, <1>2, <1>5, <2>2, ActiveKept DEF Known, DumpInv
<1>14. PersistDump' /\ CleanDump' /\ SavedDump'
  BY <1>1, <1>5, <1>10 DEF PersistDump, CleanDump, SavedDump
<1> QED BY <1>8, <1>9, <1>11, <1>12, <1>13, <1>14 DEF DumpInv

\* The user is answered.
LEMMA TakeReplyDump == ASSUME Known, TakeReply PROVE DumpInv'
<1>1. UNCHANGED <<client, parser2worker_wq, ckptdag_wq, handles, worker, wqes,
                  max_wqe_id, th, ckpt_cxt, cmd, cmd_wq, files, history>>
  BY DEF TakeReply
<1>2. /\ UNCHANGED <<TH_actve, BH_active, async_cmd, dirty_handles>>
      /\ UNCHANGED <<rpc, offline_counter, api_inst_pc, call, skipped, mem>>
      /\ UNCHANGED <<persist_thread, missed>>
  BY <1>1 DEF ckpt_cxt, client, handles, history
<1>3. oob = "waiting" /\ replies # <<>> /\ replies' = <<>>
  BY DEF TakeReply
<1>4. th.pc = "exit" /\ ~BH_active /\ cmd_wq = <<>>
  BY <1>3 DEF Known, Inv, Safe, OneCommand
<1>5. Head(replies) = Len(cmd) /\ Len(cmd) # 0
  <2>1. replies = <<Len(cmd)>> /\ replies \in Seq(1..Len(cmd))
        /\ Len(cmd) \in Nat
    BY <1>3, GivenCmds DEF Known, DumpInv, LastInv, TypeInv, GivenTypes
  <2>2. Head(replies) = Len(cmd) /\ replies[1] = Len(cmd) /\ Len(replies) = 1
    BY SMT, <2>1
  <2>3. replies[1] \in 1..Len(cmd)
    BY SMT, <2>1, <2>2
  <2> QED BY SMT, <2>1, <2>2, <2>3
<1>6. oob' = IF Last.dump /\ Last.retval = "success" THEN "removed" ELSE "idle"
  BY <1>5 DEF TakeReply, Last
<1>7. (Answered' <=> Answered) /\ ~Dumping' /\ ~HandedOn'
  BY <1>1, <1>2, <1>3, <1>4, <1>6, NothingUnderway DEF Answered
<1>8. LastInv'
  BY <1>1, <1>2, <1>3, <1>4, <1>5 DEF LastInv
<1>9. DirInv' /\ MemInv' /\ SavedDump'
  BY <1>1, <1>2, <1>7, DirKept, MemKept, SavedKept DEF Known, DumpInv
<1>10. NumberInv' /\ OfflineInv' /\ CountInv'
  <2>1. Answered => \A h \in Handles : ~Running(h)'
    BY <1>2 DEF Known, DumpInv, CountInv, Running
  <2>2. Dir' = Dir
    BY <1>1 DEF Dir
  <2> QED BY <1>1, <1>2, <1>7, <2>1, <2>2, QueueKept DEF Known, DumpInv
<1>11. ActiveDump'
  <2>1. do_cow' <=> do_cow
    BY <1>1, <1>2 DEF do_cow
  <2> QED BY <1>1, <1>2, <1>7, <2>1, ActiveKept DEF Known, DumpInv
<1>12. PersistDump' /\ CleanDump'
  BY <1>7 DEF PersistDump, CleanDump
<1> QED BY <1>8, <1>9, <1>10, <1>11, <1>12 DEF DumpInv

\* The fields of a command that was replied to.
LEMMA ReplyFields ==
    ASSUME cmd \in Seq(Attempt), NEW c \in 1..Len(cmd), NEW r,
           cmd' = [cmd EXCEPT ![c].retval = r]
    PROVE  /\ Len(cmd') = Len(cmd) /\ cmd'[c].retval = r
           /\ \A i \in 1..Len(cmd) : /\ cmd'[i].dump = cmd[i].dump
                                     /\ cmd'[i].do_cow = cmd[i].do_cow
<1>1. DOMAIN cmd = 1..Len(cmd) /\ Len(cmd) \in Nat
  BY SMT
<1>2. \A i \in 1..Len(cmd) : cmd[i] \in Attempt
  BY SMT
<1>3. DOMAIN cmd' = 1..Len(cmd)
  BY <1>1
<1>4. Len(cmd') = Len(cmd)
  BY SMT, <1>1, <1>3
<1>5. \A i \in 1..Len(cmd) :
         cmd'[i] = IF i = c THEN [cmd[c] EXCEPT !.retval = r] ELSE cmd[i]
  BY <1>1
<1>6. cmd[c] \in Attempt
  BY <1>2
<1>7. /\ [cmd[c] EXCEPT !.retval = r].retval = r
      /\ [cmd[c] EXCEPT !.retval = r].dump = cmd[c].dump
      /\ [cmd[c] EXCEPT !.retval = r].do_cow = cmd[c].do_cow
  BY <1>6 DEF Attempt
<1> QED BY <1>4, <1>5, <1>7

\* A reply to the last command ends it.
LEMMA ReplyDump ==
    ASSUME Known, NEW r, reply_parser(Len(cmd), r), Len(cmd) \in 1..Len(cmd),
           replies = <<>>, oob = "waiting", UNCHANGED <<oob, async_cmd>>,
           th'.pc = "exit", ~BH_active', cmd_wq' = <<>>
    PROVE  /\ LastInv' /\ PersistDump' /\ CleanDump' /\ ~Dumping'
           /\ Answered' <=> Last.dump /\ r = "success"
           /\ do_cow' <=> do_cow
           /\ Len(cmd') = Len(cmd)
<1>1. cmd \in Seq(Attempt) /\ async_cmd \in 0..Len(cmd)
  BY DEF Known, TypeInv, CmdTypes, GivenTypes
<1>2. cmd' = [cmd EXCEPT ![Len(cmd)].retval = r]
  BY DEF reply_parser
<1>3. /\ Len(cmd') = Len(cmd) /\ cmd'[Len(cmd)].retval = r
      /\ \A i \in 1..Len(cmd) : /\ cmd'[i].dump = cmd[i].dump
                                /\ cmd'[i].do_cow = cmd[i].do_cow
  BY <1>1, <1>2, ReplyFields
<1>4. replies' = <<Len(cmd)>> /\ replies' # <<>>
  <2>1. replies' = Append(<<>>, Len(cmd))
    BY DEF reply_parser
  <2> QED BY SMT, <2>1
<1>5. ~Dumping' /\ ~HandedOn'
  BY NothingUnderway
<1>6. LastInv' /\ PersistDump' /\ CleanDump'
  BY <1>3, <1>4, <1>5 DEF LastInv, PersistDump, CleanDump
<1>7. Answered' <=> Last.dump /\ r = "success"
  BY <1>3, <1>4 DEF Answered, Last
<1>8. do_cow' <=> do_cow
  <2>1. async_cmd # 0 => async_cmd \in 1..Len(cmd)
    BY SMT, <1>1
  <2> QED BY <1>3, <2>1 DEF do_cow
<1> QED BY <1>3, <1>5, <1>6, <1>7, <1>8

---------------------------------------------------------------------------
(* The top half and the persist threads *)

\* The top half goes from handle to handle.
LEMMA ThFrameDump ==
    ASSUME Known, th.pc \in {"add", "copy", "wait"},
           th'.pc \in {"add", "copy", "wait"}, th'.cmd = th.cmd,
           UNCHANGED <<client, parser2worker_wq, ckptdag_wq, mem,
                       persist_thread, worker, wqes, max_wqe_id, ckpt_cxt,
                       oob_vars, files, history>>,
           CleanDump'
    PROVE  DumpInv'
<1>1. /\ UNCHANGED control
      /\ UNCHANGED <<TH_actve, dirty_handles, persist_handles>>
      /\ UNCHANGED <<rpc, offline_counter, api_inst_pc, call, skipped>>
      /\ UNCHANGED <<start, missed>>
  BY DEF control, ckpt_cxt, oob_vars, client, history
<1>2. /\ th.pc # "exit" /\ th'.pc \notin {"exit", "reply"}
      /\ th'.pc # "persisted"
  OBVIOUS
<1>3. ~BH_active /\ ~HandedOn'
  BY <1>1, <1>2 DEF Known, Inv, Safe, OneCommand, HandedOn, control
<1>4. ~Answered
  BY <1>2, Underway
<1>5. (Answered' <=> Answered) /\ (do_cow' <=> do_cow) /\ (Dumping' <=> Dumping)
  BY <1>1, <1>2, AnswerKept
<1>6. LastInv' /\ DirInv' /\ MemInv'
  BY <1>1, <1>2, LastMoved, DirKept, MemKept DEF Known, DumpInv, control
<1>7. NumberInv' /\ OfflineInv' /\ CountInv'
  <2>1. Dir' = Dir
    BY <1>1 DEF Dir, control
  <2> QED BY <1>1, <1>4, <1>5, <2>1, QueueKept DEF Known, DumpInv
<1>8. ActiveDump'
  BY <1>1, <1>5, ActiveKept DEF Known, DumpInv, control
<1>9. PersistDump' /\ SavedDump'
  BY <1>1, <1>3, <1>5, SavedKept DEF Known, DumpInv, PersistDump, control
<1> QED BY <1>6, <1>7, <1>8, <1>9 DEF DumpInv

\* What is known of the handles when a dump goes on.
LEMMA CleanGoesOn ==
    ASSUME Known, UNCHANGED <<missed, worker>>, Dumping' => Dumping,
           Dumping', missed' = {}, worker'.pc \notin Saving
    PROVE  LoggedInv /\ \A h \in Handles : CleanInv(h) /\ RedoInv(h)
BY DEF Known, DumpInv, CleanDump

\* The top half takes up a handle.
LEMMA ThAddDump == ASSUME Known, NEW g \in Handles, ThAdd(g) PROVE DumpInv'
<1>1. UNCHANGED <<client, parser2worker_wq, ckptdag_wq, mem, slot,
                  persist_thread, worker, wqes, max_wqe_id, ckpt_cxt, oob_vars,
                  files, history>>
  BY DEF ThAdd
<1>2. PICK n \in 0..3 : n = state_preserve_counter[g]
  BY DEF Known, TypeInv, MemTypes
<1>3. /\ th.pc = "add" /\ g \in th.todo
      /\ state_preserve_counter' =
           [state_preserve_counter EXCEPT ![g] = AddCount(n)]
      /\ th' = IF AddRole(n) = "done" THEN done(g)
                 ELSE [th EXCEPT !.pc = AddRole(n), !.handle = g,
                                 !.seen = mem[g]]
  BY <1>2 DEF ThAdd
<1>4. n \in {0, 1, 2, 3}
  BY SMT, <1>2
<1>5. /\ th'.cmd = th.cmd
      /\ \/ /\ AddRole(n) = "done" /\ th'.pc = "add"
            /\ th'.todo = th.todo \ {g}
         \/ /\ AddRole(n) # "done" /\ th'.pc = AddRole(n)
            /\ th'.todo = th.todo /\ th'.handle = g /\ th'.seen = mem[g]
  BY <1>3 DEF done, Known, TypeInv, GivenTypes, ThRec
<1>6. th'.pc \in {"add", "copy", "wait"}
  BY <1>4, <1>5, AddCases
<1>7. UNCHANGED control /\ UNCHANGED <<dirty_handles, call, start, missed>>
  BY <1>1 DEF control, ckpt_cxt, oob_vars, client, history
<1>8. (do_cow' <=> do_cow) /\ (Dumping' <=> Dumping)
  <2>1. th'.pc = "exit" <=> th.pc = "exit"
    BY <1>3, <1>6
  <2> QED BY <1>7, <2>1, AnswerKept
<1>9. CleanDump'
  <2> SUFFICES ASSUME Dumping', missed' = {}, worker'.pc \notin Saving
               PROVE  /\ LoggedInv'
                      /\ \A h \in Handles : CleanInv(h)' /\ RedoInv(h)'
    BY DEF CleanDump
  <2>1. LoggedInv /\ \A h \in Handles : CleanInv(h) /\ RedoInv(h)
    BY <1>1, <1>7, <1>8, CleanGoesOn
  <2>2. LoggedInv'
    BY <1>1, <1>8, <2>1 DEF LoggedInv
  <2>3. ASSUME NEW h \in Handles PROVE RedoInv(h)'
    BY <1>1, <1>7, <1>8, <2>1 DEF RedoInv, CallsOf
  <2>4. ASSUME NEW h \in Handles, h \notin dirty_handles PROVE CleanInv(h)'
    <3>1. ~ThAt("copy", h)
      BY <1>3 DEF ThAt
    <3>2. /\ mem[h] = start[h]
          /\ \/ state_preserve_counter[h] = 0 /\ h \in th.todo
             \/ state_preserve_counter[h] = 3 /\ slot[h] = mem[h]
      BY <2>1, <2>4, <3>1 DEF CleanInv
    <3>3. CASE h # g
      <4>1. /\ state_preserve_counter'[h] = state_preserve_counter[h]
            /\ ~ThAt("copy", h)' /\ (h \in th.todo => h \in th'.todo)
        BY <1>3, <1>5, <1>6, <3>3 DEF ThAt, Known, TypeInv, MemTypes
      <4> QED BY <1>1, <1>7, <3>2, <4>1 DEF CleanInv
    <3>4. CASE h = g
      <4>1. /\ state_preserve_counter'[h] = AddCount(n)
            /\ state_preserve_counter[h] = n
        BY <1>2, <1>3, <3>4 DEF Known, TypeInv, MemTypes
      <4>2. CASE n = 0
        <5>1. AddRole(n) = "copy" /\ AddRole(n) # "done" /\ AddCount(n) = 1
          BY <4>2, AddCases
        <5>2. ThAt("copy", h)' /\ th'.seen = mem[h]
          BY <1>5, <3>4, <5>1 DEF ThAt
        <5> QED BY <1>1, <1>7, <3>2, <4>1, <5>1, <5>2 DEF CleanInv
      <4>3. CASE n = 3
        <5>1. AddRole(n) = "done" /\ AddCount(n) = 3
          BY <4>3, AddCases
        <5>2. ~ThAt("copy", h)'
          BY <1>5, <5>1 DEF ThAt
        <5>3. slot[h] = mem[h]
          BY SMT, <3>2, <4>1, <4>3
        <5> QED BY <1>1, <1>7, <3>2, <4>1, <5>1, <5>2, <5>3 DEF CleanInv
      <4> QED BY <3>2, <4>1, <4>2, <4>3
    <3> QED BY <3>3, <3>4
  <2>5. ASSUME NEW h \in Handles PROVE CleanInv(h)'
    BY <1>7, <2>4 DEF CleanInv
  <2> QED BY <2>2, <2>3, <2>5
<1> QED BY <1>1, <1>3, <1>5, <1>6, <1>9, ThFrameDump

\* The top half has a copy of its handle, its own or the worker's.
LEMMA ThDoneDump == ASSUME Known, ThCopied \/ ThWaited PROVE DumpInv'
<1>1. UNCHANGED <<client, parser2worker_wq, ckptdag_wq, mem, persist_thread,
                  worker, wqes, max_wqe_id, ckpt_cxt, oob_vars, files, history>>
  BY DEF ThCopied, ThWaited, handles
<1>2. th.pc \in {"copy", "wait"} /\ th' = done(th.handle)
  BY DEF ThCopied, ThWaited
<1>3. PICK g \in Handles : g = th.handle /\ g \in th.todo
  BY <1>2 DEF Known, Inv, Types, ThreadType
<1>4. /\ th'.cmd = th.cmd /\ th'.pc = "add" /\ th'.todo = th.todo \ {g}
  BY <1>2, <1>3 DEF done, Known, TypeInv, GivenTypes, ThRec
<1>5. UNCHANGED control /\ UNCHANGED <<dirty_handles, call, start, missed>>
  BY <1>1 DEF control, ckpt_cxt, oob_vars, client, history
<1>6. (do_cow' <=> do_cow) /\ (Dumping' <=> Dumping)
  <2>1. th'.pc = "exit" <=> th.pc = "exit"
    BY <1>2, <1>4
  <2> QED BY <1>5, <2>1, AnswerKept
<1>7. \/ /\ th.pc = "copy" /\ state_preserve_counter'[g] = 3
         /\ th.seen = mem[g] => slot'[g] = mem[g]
      \/ /\ th.pc = "wait" /\ state_preserve_counter'[g] = 3
         /\ state_preserve_counter[g] = 3 /\ slot'[g] = slot[g]
  <2>1. CASE ThCopied
    BY <1>3, <2>1 DEF ThCopied, Known, TypeInv, MemTypes
  <2>2. CASE ThWaited
    BY <1>3, <2>2 DEF ThWaited, handles
  <2> QED BY <2>1, <2>2
<1>8. ASSUME NEW h \in Handles, h # g
      PROVE  /\ slot'[h] = slot[h]
             /\ state_preserve_counter'[h] = state_preserve_counter[h]
  <2>1. CASE ThCopied
    BY <1>3, <1>8, <2>1 DEF ThCopied, Known, TypeInv, MemTypes
  <2>2. CASE ThWaited
    BY <2>2 DEF ThWaited, handles
  <2> QED BY <2>1, <2>2
<1>9. CleanDump'
  <2> SUFFICES ASSUME Dumping', missed' = {}, worker'.pc \notin Saving
               PROVE  /\ LoggedInv'
                      /\ \A h \in Handles : CleanInv(h)' /\ RedoInv(h)'
    BY DEF CleanDump
  <2>1. LoggedInv /\ \A h \in Handles : CleanInv(h) /\ RedoInv(h)
    BY <1>1, <1>5, <1>6, CleanGoesOn
  <2>2. LoggedInv'
    BY <1>1, <1>6, <2>1 DEF LoggedInv
  <2>3. ASSUME NEW h \in Handles PROVE RedoInv(h)'
    BY <1>1, <1>5, <1>6, <2>1 DEF RedoInv, CallsOf
  <2>4. ASSUME NEW h \in Handles, h \notin dirty_handles PROVE CleanInv(h)'
    <3>1. ~ThAt("copy", h)'
      BY <1>4 DEF ThAt
    <3>2. CASE h # g
      <4>1. ~ThAt("copy", h)
        BY <1>3, <3>2 DEF ThAt
      <4>2. h \in th.todo => h \in th'.todo
        BY <1>4, <3>2
      <4> QED BY <1>1, <1>5, <1>8, <2>1, <2>4, <3>1, <3>2, <4>1, <4>2
           DEF CleanInv
    <3>3. CASE h = g
      <4>1. mem[h] = start[h] /\ slot'[h] = mem[h]
        <5>1. CASE th.pc = "copy"
          <6>1. ThAt("copy", h)
            BY <1>3, <3>3, <5>1 DEF ThAt
          <6>2. mem[h] = start[h] /\ th.seen = mem[h]
            BY <2>1, <2>4, <6>1 DEF CleanInv
          <6> QED BY <1>7, <3>3, <5>1, <6>2
        <5>2. CASE th.pc = "wait"
          <6>1. state_preserve_counter[h] = 3 /\ slot'[h] = slot[h]
            BY <1>7, <3>3, <5>2
          <6>2. 0 # 3 /\ 1 # 3
            BY SMT
          <6>3. mem[h] = start[h] /\ slot[h] = mem[h]
            BY <2>1, <2>4, <6>1, <6>2 DEF CleanInv
          <6> QED BY <6>1, <6>3
        <5> QED BY <1>2, <5>1, <5>2
      <4>2. state_preserve_counter'[h] = 3
        BY <1>7, <3>3
      <4> QED BY <1>1, <1>5, <3>1, <4>1, <4>2 DEF CleanInv
    <3> QED BY <3>2, <3>3
  <2>5. ASSUME NEW h \in Handles PROVE CleanInv(h)'
    BY <1>5, <2>4 DEF CleanInv
  <2> QED BY <2>2, <2>3, <2>5
<1> QED BY <1>1, <1>2, <1>4, <1>9, ThFrameDump

\* The top half hands on every handle.
LEMMA ThPersistDump ==
    ASSUME Known, NEW S \in SUBSET Handles, ThPersist(S), ~Fail PROVE DumpInv'
<1>1. UNCHANGED <<client, parser2worker_wq, ckptdag_wq, mem,
                  state_preserve_counter, slot, worker, wqes, max_wqe_id,
                  TH_actve, BH_active, async_cmd, dirty_handles, oob_vars,
                  files, history>>
  BY DEF ThPersist
<1>2. S = Handles /\ th.pc = "add" /\ Persist(th.cmd, S, slot)
      /\ \E r : th' = [th EXCEPT !.pc = "persisted", !.retval = r]
  BY DEF ThPersist
<1>3. /\ th'.pc = "persisted" /\ th'.cmd = th.cmd
      /\ th'.todo = th.todo /\ th'.seen = th.seen
  BY <1>2 DEF Known, TypeInv, GivenTypes, ThRec
<1>4. UNCHANGED control /\ UNCHANGED <<rpc, offline_counter, api_inst_pc, call, skipped>>
      /\ UNCHANGED <<start, missed>>
  BY <1>1 DEF control, oob_vars, client, history
<1>5. ~Answered /\ Len(cmd) \in Cmds /\ th.cmd = Len(cmd) /\ ~BH_active
  BY <1>2, Underway DEF Known, DumpInv, LastInv, Inv, Safe, OneCommand
<1>6. (Answered' <=> Answered) /\ (do_cow' <=> do_cow) /\ (Dumping' <=> Dumping)
  BY <1>2, <1>3, <1>4, AnswerKept
<1>7. worker.pc \notin Saving
  BY <1>5 DEF Known, Inv, Safe, OneCommand, Saving
<1>8. LastInv'
  BY <1>2, <1>3, <1>4, LastMoved DEF Known, DumpInv
<1>9. DirInv' /\ MemInv'
  BY <1>1, <1>2, <1>3, <1>4, DirKept, MemKept DEF Known, DumpInv, control
<1>10. NumberInv' /\ OfflineInv' /\ CountInv'
  BY <1>1, <1>4, <1>5, <1>6, <1>7, QueueKept DEF Known, DumpInv
<1>11. ActiveDump'
  <2>1. UNCHANGED <<TH_actve, BH_active, async_cmd, wqes, dirty_handles,
                    ckptdag_wq, worker>>
    BY <1>1
  <2> QED BY <1>4, <1>6, <2>1, ActiveKept DEF Known, DumpInv
<1>12. PersistDump'
  <2>1. /\ persist_handles' = Handles
        /\ \A h \in Handles : persist_thread'[h] =
             [status |-> "running", cmd |-> Len(cmd), state |-> slot[h]]
    BY <1>2, <1>5 DEF Persist, Known, TypeInv, PersistTypes
  <2>2. ASSUME NEW h \in Handles
        PROVE  /\ persist_thread'[h].status = "running"
               /\ persist_thread'[h].cmd = Len(cmd)
               /\ persist_thread'[h].state = slot[h]
    <3>1. PICK c, s : c = Len(cmd) /\ s = slot[h]
      OBVIOUS
    <3>2. PICK x : x = persist_thread'[h]
      OBVIOUS
    <3>3. x = [status |-> "running", cmd |-> c, state |-> s]
      BY <2>1, <3>1, <3>2
    <3>4. x.status = "running" /\ x.cmd = c /\ x.state = s
      BY <3>3
    <3> QED BY <3>1, <3>2, <3>4
  <2>3. \A h \in Handles : Held(h)' /\ Content(h)' = slot'[h]
    BY <1>1, <1>4, <2>2 DEF Held, Content, Running, control
  <2> QED BY <2>1, <2>3 DEF PersistDump
<1>13. CleanDump'
  <2>1. \A h \in Handles : ThAt("copy", h)' <=> ThAt("copy", h)
    BY <1>2, <1>3 DEF ThAt
  <2> QED BY <1>1, <1>3, <1>4, <1>6, <2>1, CleanKept DEF Known, DumpInv
<1>14. SavedDump'
  BY <1>1, <1>5, <1>6, <1>7 DEF SavedDump
<1> QED BY <1>8, <1>9, <1>10, <1>11, <1>12, <1>13, <1>14 DEF DumpInv

\* A dump goes on with the bottom half.
LEMMA ThFinishDump == ASSUME Known, ThFinish PROVE DumpInv'
<1>1. UNCHANGED <<client, parser2worker_wq, ckptdag_wq, handles, worker, wqes,
                  max_wqe_id, async_cmd, dirty_handles, persist_handles,
                  oob_vars, files, history>>
  BY DEF ThFinish
<1>2. th.pc = "persisted" /\ ~BH_active /\ th.cmd = Len(cmd)
  BY DEF ThFinish, Known, Inv, Safe, OneCommand, DumpInv, LastInv
<1>3. /\ ~Answered /\ async_cmd = Len(cmd) /\ cmd_wq = <<>> /\ replies = <<>>
      /\ oob = "waiting"
  BY <1>2, Underway
<1>4. /\ UNCHANGED <<cmd, cmd_wq, replies, oob>>
      /\ UNCHANGED <<rpc, offline_counter, api_inst_pc, call, skipped>>
      /\ UNCHANGED <<mem, slot, state_preserve_counter, persist_thread>>
      /\ UNCHANGED <<start, missed>>
  BY <1>1 DEF oob_vars, client, handles, history
<1>5. /\ TH_actve' <=> TH_actve /\ Last.dump
      /\ BH_active' <=> Last.dump
      /\ th'.pc = (IF Last.dump THEN "exit" ELSE "reply")
      /\ th'.cmd = th.cmd /\ th'.todo = th.todo /\ th'.seen = th.seen
  <2>1. th' = [th EXCEPT !.pc = IF Last.dump THEN "exit" ELSE "reply"]
    BY <1>2 DEF ThFinish, Last
  <2>2. /\ TH_actve' = (TH_actve /\ Last.dump)
        /\ BH_active' = (BH_active \/ Last.dump)
    BY <1>2 DEF ThFinish, Last
  <2> QED BY <1>2, <2>1, <2>2 DEF Known, TypeInv, GivenTypes, ThRec
<1>6. ~Answered' /\ UNCHANGED <<Last, Dir>> /\ (do_cow' <=> do_cow)
  BY <1>1, <1>3, <1>4 DEF Answered, Last, Dir, do_cow
<1>7. (Dumping' => Dumping /\ BH_active') /\ (HandedOn' => HandedOn)
  BY <1>2, <1>5, <1>6 DEF Dumping, HandedOn
<1>8. worker.pc \notin Saving
  BY <1>2 DEF Known, Inv, Safe, OneCommand, Saving
<1>9. LastInv'
  BY <1>1, <1>2, <1>3, <1>4, <1>5, <1>6 DEF LastInv
<1>10. DirInv'
  <2>1. \A c : Untouched(c)' => Untouched(c)
    BY <1>2, <1>3, <1>4 DEF Untouched
  <2> QED BY <1>1, <2>1 DEF Known, DumpInv, DirInv
<1>11. NumberInv' /\ OfflineInv' /\ CountInv' /\ MemInv'
  BY <1>1, <1>3, <1>4, <1>6, QueueKept, MemKept DEF Known, DumpInv
<1>12. ActiveDump'
  <2>1. TH_actve' \/ worker.pc = "raise" => async_cmd # 0
    BY <1>5 DEF Known, DumpInv, ActiveDump
  <2>2. Target' = Target
    BY <1>1, <1>4 DEF Target
  <2> QED BY <1>1, <1>4, <1>5, <1>6, <1>7, <2>1, <2>2 DEF Known, DumpInv,
       ActiveDump
<1>13. PersistDump' /\ SavedDump'
  BY <1>1, <1>4, <1>6, <1>7, <1>8, PersistKept DEF Known, DumpInv, SavedDump
<1>14. CleanDump'
  <2>1. \A h \in Handles : ThAt("copy", h)' <=> ThAt("copy", h)
    BY <1>2, <1>5 DEF ThAt
  <2> QED BY <1>1, <1>4, <1>5, <1>6, <1>7, <2>1, CleanKept DEF Known, DumpInv
<1> QED BY <1>9, <1>10, <1>11, <1>12, <1>13, <1>14 DEF DumpInv

\* The top half of a pre-dump replies.
LEMMA ThReplyDump == ASSUME Known, ThReply PROVE DumpInv'
<1>1. UNCHANGED <<client, parser2worker_wq, ckptdag_wq, mem, worker, wqes,
                  max_wqe_id, ckpt_cxt, files, history, cmd_wq, oob>>
  BY DEF ThReply
<1>2. th.pc = "reply" /\ ~BH_active /\ th.cmd = Len(cmd) /\ ~Last.dump
  BY DEF ThReply, Known, Inv, Safe, OneCommand, DumpInv, LastInv
<1>3. /\ ~Answered /\ cmd_wq = <<>> /\ replies = <<>> /\ oob = "waiting"
      /\ Len(cmd) \in 1..Len(cmd)
  BY <1>2, Underway
<1>4. /\ UNCHANGED <<TH_actve, BH_active, async_cmd, dirty_handles>>
      /\ UNCHANGED <<rpc, offline_counter, api_inst_pc, call, skipped>>
  BY <1>1 DEF ckpt_cxt, client
<1>5. th'.pc = "exit"
  BY DEF ThReply, Exited
<1>6. PICK r : reply_parser(Len(cmd), r)
  BY <1>2 DEF ThReply
<1>7. /\ LastInv' /\ PersistDump' /\ CleanDump' /\ ~Dumping' /\ ~Answered'
      /\ do_cow' <=> do_cow
      /\ Len(cmd') = Len(cmd)
  BY <1>1, <1>2, <1>3, <1>4, <1>5, <1>6, ReplyDump
<1>8. worker.pc \notin Saving
  BY <1>2 DEF Known, Inv, Safe, OneCommand, Saving
<1>9. DirInv'
  <2>1. \A c : Untouched(c)' => Untouched(c)
    BY <1>1, <1>2, <1>3, <1>4, <1>5, <1>7 DEF Untouched
  <2> QED BY <1>1, <2>1 DEF Known, DumpInv, DirInv
<1>10. NumberInv' /\ OfflineInv' /\ CountInv' /\ MemInv'
  BY <1>1, <1>3, <1>4, <1>7, <1>8, QueueKept, MemKept DEF Known, DumpInv
<1>11. ActiveDump'
  BY <1>1, <1>2, <1>4, <1>7, ActiveKept DEF Known, DumpInv
<1>12. SavedDump'
  BY <1>1, <1>7, <1>8 DEF SavedDump
<1> QED BY <1>7, <1>9, <1>10, <1>11, <1>12 DEF DumpInv

\* A persist thread has written its file: the directory has it.
LEMMA FileWritten ==
    ASSUME Known, NEW g \in Handles, Running(g), Len(cmd) \in Cmds,
           UNCHANGED cmd,
           persist_thread' = [persist_thread EXCEPT ![g] =
                                [NoThread EXCEPT !.status = "ok"]],
           files' = [files EXCEPT ![persist_thread[g].cmd].state =
                       Written(@, g, persist_thread[g].state)],
           \A h \in Handles : Held(h), NEW h \in Handles
    PROVE  Held(h)' /\ Content(h)' = Content(h)
<1>1. persist_thread[g].cmd = Len(cmd)
  BY DEF Held
<1>2. /\ persist_thread \in [Handles -> Thread] /\ DOMAIN files = Cmds
      /\ IsDirectory(files[Len(cmd)])
  BY DEF Known, TypeInv, PersistTypes, FileTypes
<1>3. Dir'.state = Written(Dir.state, g, persist_thread[g].state)
  BY <1>1, <1>2 DEF Dir, IsDirectory
<1>4. CASE h = g
  <2>1. ~Running(h)'
    BY <1>2, <1>4 DEF Running, NoThread
  <2>2. h \in DOMAIN Dir'.state /\ Dir'.state[h] = persist_thread[g].state
    BY <1>3, <1>4 DEF Written
  <2>3. Content(h) = persist_thread[g].state
    BY <1>4 DEF Content
  <2> QED BY <2>1, <2>2, <2>3 DEF Held, Content
<1>5. CASE h # g
  <2>1. persist_thread'[h] = persist_thread[h]
    BY <1>2, <1>5
  <2>2. /\ h \in DOMAIN Dir.state =>
             h \in DOMAIN Dir'.state /\ Dir'.state[h] = Dir.state[h]
    BY <1>3, <1>5 DEF Written
  <2>3. CASE Running(h)
    <3>1. Running(h)' /\ persist_thread[h].cmd = Len(cmd)
      BY <2>1, <2>3 DEF Running, Held
    <3>2. /\ Content(h) = persist_thread[h].state
          /\ Content(h)' = persist_thread'[h].state
      BY <2>3, <3>1 DEF Content
    <3>3. Held(h)'
      BY <2>1, <3>1 DEF Held
    <3> QED BY <2>1, <3>2, <3>3
  <2>4. CASE ~Running(h)
    <3>1. ~Running(h)' /\ h \in DOMAIN Dir.state
      BY <2>1, <2>4 DEF Running, Held
    <3> QED BY <2>2, <2>4, <3>1 DEF Held, Content
  <2> QED BY <2>3, <2>4
<1> QED BY <1>4, <1>5

\* So does a step of it keep what is known.
LEMMA PersistedDump ==
    ASSUME Known, NEW g \in Handles, NEW ok \in BOOLEAN, Persisted(g, ok), ~Fail
    PROVE  DumpInv'
<1>1. UNCHANGED <<client, parser2worker_wq, ckptdag_wq, mem,
                  state_preserve_counter, slot, worker, wqes, max_wqe_id, th,
                  ckpt_cxt, oob_vars, history>>
  BY DEF Persisted
<1>2. /\ Running(g)
      /\ persist_thread' = [persist_thread EXCEPT ![g] =
                              [NoThread EXCEPT !.status = "ok"]]
      /\ files' = [files EXCEPT ![persist_thread[g].cmd].state =
                     Written(@, g, persist_thread[g].state)]
  <2>1. ok
    BY DEF Persisted
  <2> QED BY <2>1 DEF Persisted
<1>3. ~Answered
  BY <1>2 DEF Known, DumpInv, CountInv
<1>4. /\ UNCHANGED control
      /\ UNCHANGED <<TH_actve, dirty_handles, persist_handles>>
      /\ UNCHANGED <<rpc, offline_counter, api_inst_pc, call, skipped>>
      /\ UNCHANGED <<start, missed>>
  BY <1>1 DEF control, ckpt_cxt, oob_vars, client, history
<1>5. ~Answered' /\ (do_cow' <=> do_cow) /\ (Dumping' <=> Dumping)
  BY <1>1, <1>3, <1>4, AnswerKept
<1>6. \A c \in Cmds : files'[c].ra = files[c].ra /\ files'[c].ua = files[c].ua
  BY <1>2 DEF Known, TypeInv, FileTypes, IsDirectory
<1>7. ASSUME Len(cmd) \in Cmds, \A h \in Handles : Held(h)
      PROVE  \A h \in Handles : Held(h)' /\ Content(h)' = Content(h)
  BY <1>2, <1>4, <1>7, FileWritten DEF control
<1>8. LastInv' /\ MemInv' /\ ActiveDump'
  BY <1>1, <1>4, <1>5, LastKept, MemKept, ActiveKept DEF Known, DumpInv, control
<1>9. DirInv'
  BY <1>1, <1>4, <1>6 DEF Known, DumpInv, DirInv, Untouched, control
<1>10. worker.pc \in Saving => Len(cmd) \in Cmds
  BY Underway DEF Saving, Bottom
<1>11. NumberInv' /\ OfflineInv' /\ CountInv'
  <2>1. worker.pc \in Saving => Dir'.ua = Dir.ua
    BY <1>4, <1>6, <1>10 DEF Dir, control
  <2> QED BY <1>1, <1>3, <1>4, <1>5, <2>1, QueueKept DEF Known, DumpInv
<1>12. PersistDump'
  <2> SUFFICES ASSUME HandedOn'
               PROVE  /\ persist_handles' = Handles
                      /\ worker'.pc \notin Saving =>
                           \A h \in Handles : Held(h)' /\ Content(h)' = slot'[h]
    BY DEF PersistDump
  <2>1. HandedOn /\ Len(cmd) \in Cmds
    <3>1. HandedOn
      BY <1>1, <1>4 DEF HandedOn, Last, control
    <3>2. th.pc # "exit" \/ BH_active
      BY <3>1 DEF HandedOn
    <3> QED BY <3>1, <3>2, Underway
  <2> QED BY <1>1, <1>4, <1>7, <2>1 DEF Known, DumpInv, PersistDump
<1>13. CleanDump'
  BY <1>1, <1>4, <1>5, CleanKept DEF Known, DumpInv, ThAt
<1>14. SavedDump'
  <2> SUFFICES ASSUME missed' = {}, worker'.pc \in Saving, NEW h \in Handles
               PROVE  SavedState(h)'
    BY <1>5 DEF SavedDump
  <2>1. Len(cmd) \in Cmds /\ \A f \in Handles : SavedState(f)
    BY <1>1, <1>4, <1>10 DEF Known, DumpInv, SavedDump
  <2>2. \A f \in Handles : Held(f)
    BY <2>1 DEF SavedState
  <2>3. Held(h)' /\ Content(h)' = Content(h)
    BY <1>7, <2>1, <2>2
  <2>4. CallsOf(Dir.ra, h)' = CallsOf(Dir.ra, h)
        /\ CallsOf(1..max_wqe_id, h)' = CallsOf(1..max_wqe_id, h)
    BY <1>1, <1>4, <1>6, <2>1 DEF Dir, CallsOf, control
  <2> QED BY <2>1, <2>3, <2>4 DEF SavedState
<1> QED BY <1>8, <1>9, <1>11, <1>12, <1>13, <1>14 DEF DumpInv

---------------------------------------------------------------------------
(* The worker: commands *)

\* The worker refuses a command.
LEMMA RefuseDump == ASSUME Known, Refuse PROVE DumpInv'
<1>1. UNCHANGED <<client, parser2worker_wq, ckptdag_wq, handles, worker, wqes,
                  max_wqe_id, th, ckpt_cxt, oob, files, history>>
  BY DEF Refuse
<1>2. worker.pc = "loop" /\ cmd_wq # <<>> /\ cmd_wq' = Tail(cmd_wq)
      /\ reply_parser(Head(cmd_wq), "failed")
  BY DEF Refuse
<1>3. /\ UNCHANGED <<TH_actve, BH_active, async_cmd, dirty_handles>>
      /\ UNCHANGED <<rpc, offline_counter, api_inst_pc, call, skipped, mem>>
  BY <1>1 DEF ckpt_cxt, client, handles
<1>4. /\ oob = "waiting" /\ replies = <<>> /\ th.pc = "exit" /\ ~BH_active
      /\ ~Answered
  BY <1>2 DEF Known, Inv, Safe, OneCommand, Answered
<1>5. /\ Head(cmd_wq) = Len(cmd) /\ Tail(cmd_wq) = <<>>
      /\ Len(cmd) \in 1..Len(cmd)
  <2>1. cmd_wq = <<Len(cmd)>> /\ cmd_wq \in Seq(1..Len(cmd))
    BY <1>2 DEF Known, DumpInv, LastInv, TypeInv, GivenTypes
  <2>2. Head(cmd_wq) \in 1..Len(cmd)
    BY SMT, <1>2, <2>1
  <2>3. Head(cmd_wq) = Len(cmd) /\ Tail(cmd_wq) = <<>>
    BY SMT, <2>1
  <2> QED BY <2>2, <2>3
<1>6. "failed" # "success" /\ "loop" \notin Saving
  BY DEF Saving
<1>7. /\ LastInv' /\ PersistDump' /\ CleanDump' /\ ~Dumping' /\ ~Answered'
      /\ do_cow' <=> do_cow
      /\ Len(cmd') = Len(cmd)
  <2>1. /\ reply_parser(Len(cmd), "failed") /\ UNCHANGED <<oob, async_cmd>>
        /\ th'.pc = "exit" /\ ~BH_active' /\ cmd_wq' = <<>>
    BY <1>1, <1>2, <1>3, <1>4, <1>5
  <2> QED BY <1>4, <1>5, <1>6, <2>1, ReplyDump
<1>8. DirInv'
  <2>1. \A c : Untouched(c)' => Untouched(c)
    BY <1>1, <1>2, <1>3, <1>4, <1>5, <1>7 DEF Untouched
  <2> QED BY <1>1, <2>1 DEF Known, DumpInv, DirInv
<1>9. NumberInv' /\ OfflineInv' /\ CountInv' /\ MemInv'
  BY <1>1, <1>2, <1>3, <1>4, <1>6, <1>7, QueueKept, MemKept DEF Known, DumpInv
<1>10. ActiveDump'
  BY <1>1, <1>3, <1>4, <1>7, ActiveKept DEF Known, DumpInv
<1>11. SavedDump'
  BY <1>1, <1>2, <1>6, <1>7 DEF SavedDump
<1> QED BY <1>7, <1>8, <1>9, <1>10, <1>11 DEF DumpInv

\* A checkpoint begins: nothing is dirty, nothing is logged.
LEMMA ProcessCmdDump ==
    ASSUME Known, NEW ok \in BOOLEAN, process_cmd(ok), ~Fail PROVE DumpInv'
<1>1. UNCHANGED <<client, parser2worker_wq, mem, slot, persist_thread, wqes,
                  max_wqe_id, TH_actve, BH_active, cmd, replies, oob, files>>
  BY DEF process_cmd
<1>2. ok
  BY DEF process_cmd
<1>3. /\ worker.pc = "loop" /\ wqes = <<>> /\ cmd_wq # <<>> /\ th.pc = "exit"
      /\ cmd_wq' = Tail(cmd_wq) /\ async_cmd' = Head(cmd_wq)
      /\ dirty_handles' = {} /\ ckptdag_wq' = <<>>
      /\ state_preserve_counter' = [h \in Handles |-> 0]
      /\ start' = mem
      /\ th' = [Exited EXCEPT !.pc = "add", !.todo = Handles,
                              !.cmd = Head(cmd_wq)]
      /\ worker' = [worker EXCEPT !.pc = "raise"]
  BY <1>2 DEF process_cmd
<1>4. UNCHANGED <<rpc, offline_counter, api_inst_pc, call, skipped>>
  BY <1>1 DEF client
<1>5. oob = "waiting" /\ replies = <<>> /\ ~BH_active /\ ~Answered
  BY <1>3 DEF Known, Inv, Safe, OneCommand, Answered
<1>6. /\ Head(cmd_wq) = Len(cmd) /\ Tail(cmd_wq) = <<>> /\ Len(cmd) # 0
  <2>1. cmd_wq = <<Len(cmd)>> /\ cmd_wq \in Seq(1..Len(cmd))
    BY <1>3 DEF Known, DumpInv, LastInv, TypeInv, GivenTypes
  <2>2. Head(cmd_wq) \in 1..Len(cmd)
    BY SMT, <1>3, <2>1
  <2>3. Head(cmd_wq) = Len(cmd) /\ Tail(cmd_wq) = <<>>
    BY SMT, <2>1
  <2>4. 0 \notin 1..Len(cmd)
    BY SMT
  <2> QED BY <2>2, <2>3, <2>4
<1>7. th'.pc = "add" /\ th'.todo = Handles /\ th'.cmd = Len(cmd)
  BY <1>3, <1>6 DEF Exited
<1>8. worker'.pc = "raise" /\ worker'.max = worker.max
  BY <1>3 DEF Known, TypeInv, WorkerTypes, WorkerRec
<1>9. /\ {"raise", "loop"} \cap Saving = {} /\ {"raise", "loop"} \cap Busy
        = {}
  BY DEF Saving, Busy
<1>10. ~Answered' /\ ~HandedOn'
  BY <1>1, <1>5, <1>7 DEF Answered, HandedOn
<1>11. LastInv'
  BY <1>1, <1>3, <1>5, <1>6, <1>7 DEF LastInv
<1>12. DirInv'
  <2>1. \A c : Untouched(c)' => Untouched(c)
    BY <1>1, <1>3 DEF Untouched
  <2> QED BY <1>1, <2>1 DEF Known, DumpInv, DirInv
<1>13. NumberInv' /\ OfflineInv' /\ CountInv' /\ MemInv'
  <2>1. NumberInv' /\ OfflineInv'
    BY <1>1, <1>3, <1>4, <1>8, <1>9, NumberKept DEF Known, DumpInv, OfflineInv
  <2>2. Unsaved'
    BY <1>1, <1>3, <1>4, <1>5, <1>9, NumberKept DEF Known, DumpInv, CountInv
  <2>3. CountInv'
    BY <1>8, <1>10, <2>2 DEF CountInv
  <2> QED BY <1>1, <1>4, <2>1, <2>3, MemKept DEF Known, DumpInv
<1>14. ActiveDump'
  BY <1>3, <1>6, <1>8, <1>9 DEF ActiveDump
<1>15. PersistDump' /\ SavedDump'
  BY <1>8, <1>9, <1>10 DEF PersistDump, SavedDump
<1>16. CleanDump'
  <2>1. Range(<<>>) = {}
    <3>1. DOMAIN <<>> = {}
      BY SMT
    <3> QED BY <3>1 DEF Range
  <2>2. LoggedInv'
    BY <1>3, <2>1 DEF LoggedInv
  <2>3. ASSUME NEW h \in Handles PROVE CleanInv(h)'
    BY <1>1, <1>3, <1>7 DEF CleanInv, ThAt
  <2>4. ASSUME NEW h \in Handles PROVE RedoInv(h)'
    <3>1. Increasing(mem[h])
      BY DEF Known, DumpInv, MemInv
    <3>2. Before(Range(start'[h]), Range(ckptdag_wq'))
      BY <1>3, <2>1 DEF Before
    <3>3. {i \in CallsOf(Range(ckptdag_wq), h) : i <= max_wqe_id}' = {}
      BY <1>3, <2>1 DEF CallsOf
    <3> QED BY <1>1, <1>3, <3>1, <3>2, <3>3 DEF RedoInv
  <2> QED BY <2>2, <2>3, <2>4 DEF CleanDump
<1> QED BY <1>11, <1>12, <1>13, <1>14, <1>15, <1>16 DEF DumpInv

\* The worker knows of the top half.
LEMMA SetActiveDump == ASSUME Known, SetActive PROVE DumpInv'
<1>1. UNCHANGED <<client, parser2worker_wq, ckptdag_wq, handles, wqes,
                  max_wqe_id, th, BH_active, async_cmd, dirty_handles,
                  persist_handles, oob_vars, files, history>>
  BY DEF SetActive
<1>2. worker.pc = "raise" /\ TH_actve' = TRUE /\ worker'.pc = "loop"
  BY DEF SetActive, Polling
<1>3. /\ {"raise", "loop"} \cap Saving = {} /\ {"raise", "loop"} \cap Busy
        = {}
  BY DEF Saving, Busy
<1>4. /\ UNCHANGED control /\ UNCHANGED <<rpc, offline_counter, api_inst_pc, skipped>>
      /\ UNCHANGED <<call, mem, slot, state_preserve_counter, persist_thread>>
      /\ UNCHANGED <<start, missed>>
  BY <1>1 DEF control, oob_vars, client, handles, history
<1>5. ~Answered
  BY <1>2 DEF Known, DumpInv, CountInv
<1>6. /\ ~Answered' /\ (do_cow' <=> do_cow) /\ (Dumping' <=> Dumping)
      /\ (HandedOn' <=> HandedOn)
  <2>1. /\ (Answered' <=> Answered) /\ (do_cow' <=> do_cow)
        /\ (Dumping' <=> Dumping) /\ UNCHANGED Last
    BY <1>1, <1>4, AnswerKept
  <2> QED BY <1>1, <1>5, <2>1 DEF HandedOn
<1>7. LastInv' /\ DirInv' /\ MemInv'
  BY <1>1, <1>2, <1>3, <1>4, LastKept, DirKept, MemKept DEF Known, DumpInv,
     control
<1>8. NumberInv' /\ OfflineInv' /\ CountInv'
  <2>1. NumberInv' /\ OfflineInv'
    BY <1>1, <1>2, <1>3, <1>4, NumberKept DEF Known, DumpInv, OfflineInv
  <2>2. Unsaved'
    BY <1>1, <1>2, <1>3, <1>4, <1>5, NumberKept DEF Known, DumpInv, CountInv
  <2> QED BY <1>2, <1>6, <2>1, <2>2 DEF CountInv
<1>9. ActiveDump'
  BY <1>1, <1>2, <1>3 DEF Known, DumpInv, ActiveDump
<1>10. PersistDump' /\ SavedDump'
  BY <1>1, <1>2, <1>3, <1>4, <1>6, PersistKept DEF Known, DumpInv, SavedDump,
     control
<1>11. CleanDump'
  BY <1>1, <1>2, <1>3, <1>4, <1>6, CleanKept DEF Known, DumpInv, ThAt
<1> QED BY <1>7, <1>8, <1>9, <1>10, <1>11 DEF DumpInv

---------------------------------------------------------------------------
(* The worker: calls *)

\* The worker takes up the calls that arrived.
LEMMA PollCallsDump == ASSUME Known, PollCalls PROVE DumpInv'
<1>1. UNCHANGED <<client, ckptdag_wq, handles, worker, max_wqe_id, th, ckpt_cxt,
                  oob_vars, files, history>>
  BY DEF PollCalls
<1>2. /\ worker.pc = "loop" /\ wqes = <<>> /\ parser2worker_wq # <<>>
      /\ wqes' = parser2worker_wq /\ parser2worker_wq' = <<>>
  BY DEF PollCalls
<1>3. /\ UNCHANGED control
      /\ UNCHANGED <<TH_actve, dirty_handles, persist_handles>>
      /\ UNCHANGED <<rpc, offline_counter, api_inst_pc, call, skipped>>
      /\ UNCHANGED <<mem, slot, state_preserve_counter, persist_thread>>
      /\ UNCHANGED <<start, missed>>
  BY <1>1 DEF control, ckpt_cxt, oob_vars, client, handles, history
<1>4. ~Answered /\ worker.pc \notin Saving /\ worker.pc \notin Busy
  BY <1>2 DEF Known, DumpInv, CountInv, SavedAll, Saving, Busy
<1>5. /\ (Answered' <=> Answered) /\ (do_cow' <=> do_cow) /\ UNCHANGED Last
      /\ (Dumping' <=> Dumping)
  BY <1>1, <1>3, AnswerKept
<1>6. HandedOn' <=> HandedOn
  BY <1>1, <1>3, <1>5 DEF HandedOn, control
<1>7. LastInv' /\ DirInv' /\ MemInv'
  BY <1>1, <1>3, LastKept, DirKept, MemKept DEF Known, DumpInv, control
<1>8. NumberInv' /\ OfflineInv' /\ CountInv'
  <2>1. Queued' = Queued /\ Range(wqes) = {} /\ Range(parser2worker_wq') = {}
    BY <1>2, EmptyRange DEF Queued
  <2>2. Issued' = Issued /\ Due' = Due
    BY <1>1, <1>3 DEF Issued, Due
  <2>3. NumberInv'
    BY <1>1, <1>2, <1>3, <2>1, <2>2, EmptyRange DEF Known, DumpInv, NumberInv,
       Before
  <2>4. OfflineInv'
    BY <1>1, <1>2, <1>3, <1>4 DEF Known, DumpInv, OfflineInv
  <2>5. Unsaved'
    BY <1>4, <2>1, <2>2 DEF Known, DumpInv, CountInv, Unsaved
  <2>6. CountInv'
    BY <1>1, <1>2, <1>4, <1>5, <2>5 DEF CountInv
  <2> QED BY <2>3, <2>4, <2>6
<1>9. ActiveDump'
  BY <1>1, <1>2, <1>3, <1>4, <1>5 DEF Known, DumpInv, ActiveDump, control
<1>10. PersistDump' /\ SavedDump'
  BY <1>1, <1>3, <1>4, <1>5, <1>6, PersistKept DEF Known, DumpInv, SavedDump,
     control
<1>11. CleanDump'
  BY <1>1, <1>3, <1>4, <1>5, CleanKept DEF Known, DumpInv, ThAt
<1> QED BY <1>7, <1>8, <1>9, <1>10, <1>11 DEF DumpInv

\* The call the worker is at is the next one, and the calls before it are
\* those that were run.
LEMMA NextCall ==
    ASSUME Known, wqes # <<>>
    PROVE  /\ max_wqe_id < Head(wqes) /\ Head(wqes) \in Calls
           /\ max_wqe_id \in Nat /\ Head(wqes) < api_inst_pc
           /\ \A h \in Handles : \A x \in Range(mem[h]) :
                x < Head(wqes) /\ x <= max_wqe_id
<1>1. wqes \in Seq(Issued) /\ wqes \in Seq(Calls)
  BY DEF Known, Inv, Types, CallInv, TypeInv, QueueTypes
<1>2. /\ Len(wqes) \in Nat /\ 1 \in 1..Len(wqes) /\ wqes[1] = Head(wqes)
      /\ Head(wqes) \in Calls
  BY SMT, <1>1
<1>3. Head(wqes) \in Issued
  BY SMT, <1>1
<1>4. max_wqe_id < Head(wqes) /\ Head(wqes) < api_inst_pc
  <2>1. DOMAIN wqes = 1..Len(wqes)
    BY SMT, <1>1
  <2>2. Head(wqes) \in Queued
    BY <1>2, <2>1 DEF Queued, Range
  <2> QED BY <1>3, <2>2 DEF Known, DumpInv, NumberInv, Before, Issued
<1>5. max_wqe_id \in Nat
  BY SMT, BoundsAssumption DEF Known, TypeInv, CallTypes
<1>6. \A x \in 1..max_wqe_id : x < Head(wqes) /\ x <= max_wqe_id
  BY SMT, <1>2, <1>4, <1>5 DEF Calls
<1>7. \A h \in Handles : Range(mem[h]) \subseteq 1..max_wqe_id
  BY DEF Known, DumpInv, MemInv, CallsOf
<1> QED BY <1>2, <1>4, <1>5, <1>6, <1>7

\* The calls between the last one that was run and the next were skipped.
LEMMA Between ==
    ASSUME Known, Unsaved, wqes # <<>>,
           NEW x \in Calls, max_wqe_id < x, x < Head(wqes)
    PROVE  call[x] = NoHandle
<1>1. wqes \in Seq(Nat) /\ Head(wqes) \in Nat
  <2>1. wqes \in Seq(Calls) /\ Calls \subseteq Nat
    BY SMT DEF Known, TypeInv, QueueTypes, Calls
  <2>2. wqes \in Seq(Nat)
    BY <2>1, SeqMonotone
  <2> QED BY SMT, <2>2
<1>2. Range(wqes) = {Head(wqes)} \cup Range(Tail(wqes))
      /\ Before({Head(wqes)}, Range(Tail(wqes)))
  BY <1>1, HeadFirst DEF Known, DumpInv, NumberInv
<1>3. Before({Head(wqes)}, Range(parser2worker_wq))
  BY <1>2 DEF Known, DumpInv, NumberInv, Before
<1>4. x # Head(wqes) /\ ~(Head(wqes) < x)
  BY SMT, <1>1 DEF Calls
<1>5. x \notin Queued
  BY <1>2, <1>3, <1>4 DEF Queued, Before
<1>6. x \in Issued
  <2>1. Head(wqes) < api_inst_pc
    BY NextCall
  <2> QED BY SMT, <1>1, <2>1 DEF Issued, Calls, Known, TypeInv, CallTypes
<1>7. x \in skipped
  BY <1>5, <1>6 DEF Unsaved, Due
<1> QED BY <1>7 DEF Known, DumpInv, NumberInv

\* The next call is logged and its handle becomes dirty.
LEMMA PrepareDump == ASSUME Known, Prepare PROVE DumpInv'
<1>1. UNCHANGED <<client, parser2worker_wq, mem, slot, persist_thread, wqes,
                  max_wqe_id, th, TH_actve, BH_active, async_cmd,
                  persist_handles, oob_vars, files, history>>
  BY DEF Prepare
<1>2. PICK i, g, n : i = Head(wqes) /\ g = call[i]
                     /\ n = state_preserve_counter[g]
  OBVIOUS
<1>3. worker.pc = "loop" /\ wqes # <<>>
  BY DEF Prepare
<1>4. TH_actve => (cmd[async_cmd].do_cow <=> do_cow)
  BY DEF Known, DumpInv, ActiveDump, do_cow
<1>5. ckptdag_wq' = IF TH_actve /\ do_cow THEN Append(ckptdag_wq, i)
                      ELSE ckptdag_wq
  BY <1>2, <1>4 DEF Prepare
<1>6. dirty_handles' = IF g = NoHandle THEN dirty_handles
                         ELSE IF TH_actve THEN dirty_handles \cup {g}
                         ELSE dirty_handles
  BY <1>2 DEF Prepare, Dirtied
<1>7. \/ /\ TH_actve /\ do_cow /\ g # NoHandle
         /\ worker' = [worker EXCEPT !.pc = IF AddRole(n) = "done" THEN "launch"
                                              ELSE AddRole(n)]
         /\ state_preserve_counter' =
              [state_preserve_counter EXCEPT ![g] = AddCount(n)]
      \/ /\ worker' = [worker EXCEPT !.pc = "launch"]
         /\ UNCHANGED state_preserve_counter
  BY <1>2, <1>4 DEF Prepare
<1>8. /\ worker'.pc \in Busy /\ worker'.max = worker.max
      /\ worker'.pc \in {"copy", "wait"} => TH_actve /\ do_cow
  <2>1. AddRole(n) \in {"copy", "wait", "done"}
    BY DEF AddRole
  <2> QED BY <1>7, <2>1 DEF Known, TypeInv, WorkerTypes, WorkerRec, Busy
<1>9. ~Answered /\ worker.pc \notin Saving /\ worker'.pc \notin Saving
      /\ worker.pc \notin Busy
  BY <1>3, <1>8 DEF Known, DumpInv, CountInv, SavedAll, Saving, Busy
<1>10. /\ UNCHANGED control /\ UNCHANGED <<rpc, offline_counter, api_inst_pc, skipped>>
       /\ UNCHANGED <<call, start, missed>>
  BY <1>1 DEF control, oob_vars, client, history
<1>11. /\ ~Answered' /\ (do_cow' <=> do_cow) /\ UNCHANGED Last
       /\ (Dumping' <=> Dumping)
  BY <1>1, <1>9, <1>10, AnswerKept
<1>12. HandedOn' <=> HandedOn
  BY <1>1, <1>11 DEF HandedOn
<1>13. LastInv' /\ DirInv' /\ MemInv'
  BY <1>1, <1>9, <1>10, LastKept, DirKept, MemKept DEF Known, DumpInv, control
<1>14. NumberInv' /\ OfflineInv' /\ CountInv'
  <2>1. NumberInv'
    BY <1>1, <1>10, NumberKept DEF Known, DumpInv
  <2>2. OfflineInv'
    BY <1>1, <1>8, <1>9, <1>10 DEF Known, DumpInv, OfflineInv, Busy, Saving
  <2>3. Unsaved'
    BY <1>1, <1>9, <1>10, NumberKept DEF Known, DumpInv, CountInv
  <2> QED BY <1>9, <1>11, <2>1, <2>2, <2>3 DEF CountInv, Saving
<1>15. /\ max_wqe_id < i /\ i \in Calls /\ max_wqe_id \in Nat
       /\ \A h \in Handles : \A x \in Range(mem[h]) : x < i
  BY <1>2, <1>3, NextCall
<1>16. TH_actve /\ do_cow => Range(ckptdag_wq') = Range(ckptdag_wq) \cup {i}
  BY ZenonT(30), <1>5, <1>15, RangeAppend DEF Known, TypeInv, QueueTypes
<1>17. ActiveDump'
  <2>1. Target' = g /\ Head(wqes') = i
    BY <1>1, <1>2, <1>8, <1>10 DEF Target, Busy
  <2>2. worker'.pc # "raise" /\ worker.pc # "raise"
    BY <1>3, <1>8 DEF Busy
  <2>3. Dumping => TH_actve \/ BH_active
    BY <2>2 DEF Known, DumpInv, ActiveDump
  <2>4. TH_actve => async_cmd # 0
    BY DEF Known, DumpInv, ActiveDump
  <2>5. TH_actve /\ g \in Handles => g \in dirty_handles'
    BY <1>6, HandlesAssumption
  <2>6. TH_actve /\ do_cow => i \in Range(ckptdag_wq')
    BY <1>16
  <2> QED BY <1>1, <1>8, <1>11, <2>1, <2>2, <2>3, <2>4, <2>5, <2>6
       DEF ActiveDump
<1>18. PersistDump' /\ SavedDump'
  BY <1>1, <1>9, <1>10, <1>11, <1>12, PersistKept DEF Known, DumpInv, SavedDump,
     control
<1>19. CleanDump'
  <2> SUFFICES ASSUME Dumping', missed' = {}
               PROVE  /\ LoggedInv'
                      /\ \A h \in Handles : CleanInv(h)' /\ RedoInv(h)'
    BY DEF CleanDump
  <2>1. LoggedInv /\ \A h \in Handles : CleanInv(h) /\ RedoInv(h)
    BY <1>9, <1>10, <1>11 DEF Known, DumpInv, CleanDump
  <2>2. LoggedInv'
    <3>1. do_cow => \A x \in Range(ckptdag_wq) : x <= max_wqe_id
      BY <1>9, <2>1 DEF LoggedInv
    <3>2. do_cow => \A x \in Range(ckptdag_wq') :
                      x \in Range(ckptdag_wq) \/ x = i
      BY <1>5, <1>16
    <3> QED BY <1>1, <1>2, <1>8, <1>11, <3>1, <3>2 DEF LoggedInv
  <2>3. ASSUME NEW h \in Handles, h \notin dirty_handles' PROVE CleanInv(h)'
    <3>1. h \notin dirty_handles
      BY <1>6, <2>3
    <3>2. state_preserve_counter'[h] = state_preserve_counter[h]
      BY <1>6, <1>7, <2>3 DEF Known, TypeInv, MemTypes
    <3> QED BY <1>1, <1>10, <2>1, <3>1, <3>2 DEF CleanInv, ThAt
  <2>4. ASSUME NEW h \in Handles PROVE CleanInv(h)'
    BY <2>3 DEF CleanInv
  <2>5. ASSUME NEW h \in Handles, do_cow PROVE RedoInv(h)'
    <3>1. /\ Increasing(start[h]) /\ Before(Range(start[h]), Range(ckptdag_wq))
          /\ Range(mem[h]) = Range(start[h]) \cup
               {x \in CallsOf(Range(ckptdag_wq), h) : x <= max_wqe_id}
      BY <2>1, <2>5 DEF RedoInv
    <3>2. CASE TH_actve
      <4>1. Before(Range(start[h]), Range(ckptdag_wq'))
        BY <1>15, <1>16, <2>5, <3>1, <3>2 DEF Before
      <4>2. ~(i <= max_wqe_id)
        BY SMT, <1>15 DEF Calls
      <4>3. {x \in CallsOf(Range(ckptdag_wq), h) : x <= max_wqe_id}'
              = {x \in CallsOf(Range(ckptdag_wq), h) : x <= max_wqe_id}
        BY <1>1, <1>10, <1>16, <2>5, <3>2, <4>2 DEF CallsOf
      <4> QED BY <1>1, <1>10, <3>1, <4>1, <4>3 DEF RedoInv
    <3>3. CASE ~TH_actve
      BY <1>1, <1>5, <1>10, <3>1, <3>3 DEF RedoInv, CallsOf
    <3> QED BY <3>2, <3>3
  <2>6. ASSUME NEW h \in Handles PROVE RedoInv(h)'
    BY <1>11, <2>5 DEF RedoInv
  <2> QED BY <2>2, <2>4, <2>6
<1> QED BY <1>13, <1>14, <1>17, <1>18, <1>19 DEF DumpInv

\* The handle is preserved before the call is launched, and not once the top
\* half has handed it on.
LEMMA PreservedDump == ASSUME Known, Preserved PROVE DumpInv'
<1>1. UNCHANGED <<client, parser2worker_wq, ckptdag_wq, mem, persist_thread,
                  wqes, max_wqe_id, th, ckpt_cxt, oob_vars, files, history>>
  BY DEF Preserved
<1>2. /\ worker.pc \in {"copy", "wait"}
      /\ worker' = [worker EXCEPT !.pc = "launch"]
  BY DEF Preserved
<1>3. worker'.pc = "launch" /\ worker'.max = worker.max
  BY <1>2 DEF Known, TypeInv, WorkerTypes, WorkerRec
<1>4. /\ worker.pc \in Busy /\ worker'.pc \in Busy
      /\ worker.pc \notin Saving /\ worker'.pc \notin Saving
  BY <1>2, <1>3 DEF Busy, Saving
<1>5. do_cow /\ ~Answered
  BY <1>2 DEF Known, DumpInv, ActiveDump, CountInv
<1>6. PICK g \in Handles : g = Target
  BY <1>2 DEF Known, Inv, Types, CallInv
<1>7. /\ UNCHANGED control
      /\ UNCHANGED <<TH_actve, dirty_handles, persist_handles>>
      /\ UNCHANGED <<rpc, offline_counter, api_inst_pc, call, skipped>>
      /\ UNCHANGED <<start, missed>>
  BY <1>1 DEF control, ckpt_cxt, oob_vars, client, history
<1>8. /\ ~Answered' /\ (do_cow' <=> do_cow) /\ UNCHANGED Last
      /\ (Dumping' <=> Dumping)
  BY <1>1, <1>5, <1>7, AnswerKept
<1>9. HandedOn' <=> HandedOn
  BY <1>1, <1>7, <1>8 DEF HandedOn, control
<1>10. HandedOn => worker.pc = "wait"
  <2> SUFFICES ASSUME HandedOn, worker.pc = "copy" PROVE FALSE
    BY <1>2
  <2>1. th.todo = {}
    BY DEF HandedOn, Known, Inv, Types, ThreadType, Safe, OneCommand
  <2>2. CowInv(g) /\ WorkerAt("copy", g)
    BY <1>5, <1>6 DEF Known, Inv, Safe, Snapshot, WorkerAt
  <2>3. state_preserve_counter[g] = 3 /\ state_preserve_counter[g] \in {1, 2}
    BY <2>1, <2>2 DEF CowInv
  <2> QED BY SMT, <2>3
<1>11. worker.pc = "wait" => UNCHANGED <<slot, state_preserve_counter>>
  BY DEF Preserved
<1>12. ASSUME NEW h \in Handles, h # g
       PROVE  /\ slot'[h] = slot[h]
              /\ state_preserve_counter'[h] = state_preserve_counter[h]
  <2>1. g = call[Head(wqes)]
    BY <1>4, <1>6 DEF Target, Busy
  <2> QED BY <1>12, <2>1 DEF Preserved, Known, TypeInv, MemTypes
<1>13. LastInv' /\ DirInv' /\ MemInv'
  BY <1>1, <1>4, <1>7, LastKept, DirKept, MemKept DEF Known, DumpInv, control
<1>14. NumberInv' /\ OfflineInv' /\ CountInv'
  <2>1. NumberInv'
    BY <1>1, <1>7, NumberKept DEF Known, DumpInv
  <2>2. OfflineInv'
    BY <1>1, <1>3, <1>4, <1>7 DEF Known, DumpInv, OfflineInv
  <2>3. Unsaved'
    BY ZenonT(30), <1>1, <1>4, <1>5, <1>7, NumberKept
       DEF Known, DumpInv, CountInv
  <2> QED BY <1>3, <1>8, <2>1, <2>2, <2>3 DEF CountInv
<1>15. Dumping => TH_actve \/ BH_active
  BY <1>2 DEF Known, DumpInv, ActiveDump
<1>16. ActiveDump'
  <2>1. Target' = Target
    BY <1>1, <1>4, <1>7 DEF Target, Busy
  <2>2. TH_actve => async_cmd # 0
    BY DEF Known, DumpInv, ActiveDump
  <2>3. Dumping /\ TH_actve => /\ Target \in Handles => Target \in dirty_handles
                               /\ do_cow => Head(wqes) \in Range(ckptdag_wq)
    BY <1>4 DEF Known, DumpInv, ActiveDump
  <2> QED BY <1>1, <1>3, <1>7, <1>8, <1>15, <2>1, <2>2, <2>3 DEF ActiveDump,
       control
<1>17. PersistDump' /\ SavedDump'
  BY ZenonT(30), <1>1, <1>4, <1>7, <1>8, <1>9, <1>10, <1>11, PersistKept
     DEF Known, DumpInv,
     SavedDump, control
<1>18. CleanDump'
  <2> SUFFICES ASSUME Dumping', missed' = {}
               PROVE  /\ LoggedInv'
                      /\ \A h \in Handles : CleanInv(h)' /\ RedoInv(h)'
    BY DEF CleanDump
  <2>1. LoggedInv /\ \A h \in Handles : CleanInv(h) /\ RedoInv(h)
    BY <1>4, <1>7, <1>8 DEF Known, DumpInv, CleanDump
  <2>2. LoggedInv'
    BY <1>1, <1>4, <1>8, <2>1 DEF LoggedInv
  <2>3. worker.pc = "wait" \/ g \in dirty_handles
    <3>1. BH_active => worker.pc = "wait"
      BY <1>10 DEF HandedOn
    <3>2. TH_actve => g \in dirty_handles
      BY <1>4, <1>6, <1>8 DEF Known, DumpInv, ActiveDump
    <3> QED BY <1>8, <1>15, <3>1, <3>2
  <2>4. ASSUME NEW h \in Handles, h \notin dirty_handles PROVE CleanInv(h)'
    <3>1. slot'[h] = slot[h]
          /\ state_preserve_counter'[h] = state_preserve_counter[h]
      BY <1>11, <1>12, <2>3, <2>4
    <3> QED BY <1>1, <1>7, <2>1, <2>4, <3>1 DEF CleanInv, ThAt
  <2>5. ASSUME NEW h \in Handles PROVE CleanInv(h)'
    BY <1>7, <2>4 DEF CleanInv
  <2>6. ASSUME NEW h \in Handles PROVE RedoInv(h)'
    BY <1>1, <1>7, <1>8, <2>1 DEF RedoInv, CallsOf
  <2> QED BY <2>2, <2>5, <2>6
<1> QED BY <1>13, <1>14, <1>16, <1>17, <1>18 DEF DumpInv

\* The next call is launched.
LEMMA LaunchDump == ASSUME Known, Launch PROVE DumpInv'
<1>1. UNCHANGED <<offline_counter, api_inst_pc, call, skipped, parser2worker_wq,
                  ckptdag_wq, state_preserve_counter, slot, persist_thread, th,
                  ckpt_cxt, oob_vars, files, start>>
  BY DEF Launch
<1>2. worker.pc = "launch" /\ worker'.pc = "loop"
  BY DEF Launch, Polling
<1>3. wqes # <<>>
  BY <1>2 DEF Known, TypeInv, WorkerTypes, Busy
<1>4. PICK i \in Calls, m \in Nat :
        /\ i = Head(wqes) /\ m = max_wqe_id /\ m < i /\ i < api_inst_pc
        /\ \A h \in Handles : \A x \in Range(mem[h]) : x < i /\ x <= m
  BY <1>3, NextCall
<1>5. PICK g : g = call[i]
  OBVIOUS
<1>6. /\ wqes' = Tail(wqes) /\ max_wqe_id' = i
      /\ \/ g = NoHandle /\ rpc' = "idle" /\ UNCHANGED <<mem, missed>>
         \/ /\ g # NoHandle /\ mem' = [mem EXCEPT ![g] = Append(@, i)]
            /\ missed' = IF BH_active /\ ~TH_actve THEN missed \cup {i}
                           ELSE missed
            /\ UNCHANGED rpc
  BY <1>4, <1>5 DEF Launch
<1>7. g \in Handles \cup {NoHandle}
  BY <1>5 DEF Known, TypeInv, CallTypes
<1>8. /\ {"launch", "loop"} \cap Saving = {} /\ "loop" \notin Busy
      /\ "launch" \in Busy
  BY DEF Saving, Busy
<1>9. /\ UNCHANGED control
      /\ UNCHANGED <<TH_actve, dirty_handles, persist_handles>>
  BY <1>1 DEF control, ckpt_cxt, oob_vars
<1>10. ~Answered
  BY <1>2 DEF Known, DumpInv, CountInv
<1>11. /\ ~Answered' /\ (do_cow' <=> do_cow) /\ UNCHANGED Last
       /\ (Dumping' <=> Dumping)
  BY <1>1, <1>9, <1>10, AnswerKept
<1>12. HandedOn' <=> HandedOn
  BY <1>1, <1>9, <1>11 DEF HandedOn, control
<1>13. LastInv' /\ DirInv'
  BY <1>1, <1>2, <1>8, <1>9, LastKept, DirKept DEF Known, DumpInv, control
<1>14. /\ Range(wqes) = {i} \cup Range(wqes') /\ Before({i}, Range(wqes'))
       /\ Increasing(wqes') /\ Before({i}, Range(parser2worker_wq))
  <2>1. wqes \in Seq(Calls) /\ Calls \subseteq Nat
    BY SMT DEF Known, TypeInv, QueueTypes, Calls
  <2>2. wqes \in Seq(Nat)
    BY <2>1, SeqMonotone
  <2>3. /\ Range(wqes) = {i} \cup Range(wqes') /\ Before({i}, Range(wqes'))
        /\ Increasing(wqes')
    BY <1>3, <1>4, <1>6, <2>2, HeadFirst DEF Known, DumpInv, NumberInv
  <2> QED BY <2>3 DEF Known, DumpInv, NumberInv, Before
<1>15. NumberInv'
  <2>1. Issued' = Issued /\ Queued' = Range(wqes') \cup Range(parser2worker_wq)
    BY <1>1 DEF Issued, Queued
  <2>2. Before({i}, Queued') /\ Before(Range(wqes'), Range(parser2worker_wq))
    BY <1>14, <2>1 DEF Known, DumpInv, NumberInv, Before
  <2> QED BY <1>1, <1>4, <1>6, <1>14, <2>1, <2>2 DEF Known, DumpInv, NumberInv
<1>16. OfflineInv'
  BY <1>1, <1>2, <1>6, <1>8 DEF Known, DumpInv, OfflineInv
<1>17. CountInv' /\ Unsaved
  <2>1. Queued = Due
    BY <1>2, <1>8, <1>10 DEF Known, DumpInv, CountInv, Unsaved
  <2>2. Due' = {x \in Issued : i < x} \ skipped
    BY <1>1, <1>6 DEF Due, Issued
  <2>3. Queued = {i} \cup Queued'
    BY <1>1, <1>14 DEF Queued
  <2>4. Before({i}, Queued')
    BY <1>1, <1>14 DEF Queued, Before
  <2>5. \A x \in Issued : i < x => m < x /\ x # i
    BY SMT, <1>4 DEF Issued, Calls
  <2>6. Unsaved'
    BY <1>4, <2>1, <2>2, <2>3, <2>4, <2>5 DEF Unsaved, Due, Before
  <2> QED BY <1>2, <1>11, <2>1, <2>6 DEF CountInv, Unsaved
<1>18. ASSUME NEW h \in Handles
       PROVE  /\ h = g => /\ mem'[h] = Append(mem[h], i)
                          /\ Increasing(mem'[h])
                          /\ Range(mem'[h]) = Range(mem[h]) \cup {i}
              /\ h # g => mem'[h] = mem[h]
  <2>1. h # g => mem'[h] = mem[h]
    BY <1>6 DEF Known, TypeInv, MemTypes
  <2>2. ASSUME h = g
        PROVE  mem'[h] = Append(mem[h], i)
    BY <1>6, <2>2, HandlesAssumption DEF Known, TypeInv, MemTypes
  <2>3. mem[h] \in Seq(Nat) /\ i \in Nat
    <3>1. mem[h] \in Seq(Calls)
      BY DEF Known, TypeInv, MemTypes, State
    <3>2. Calls \subseteq Nat
      BY SMT DEF Calls
    <3> QED BY <3>1, <3>2, SeqMonotone
  <2>4. Increasing(mem[h]) /\ \A x \in Range(mem[h]) : x < i
    BY <1>4 DEF Known, DumpInv, MemInv
  <2>5. /\ Increasing(Append(mem[h], i))
        /\ Range(Append(mem[h], i)) = Range(mem[h]) \cup {i}
    BY <2>3, <2>4, AppendIncreasing
  <2> QED BY <2>1, <2>2, <2>5
<1>19. MemInv'
  <2>1. ASSUME NEW h \in Handles
        PROVE  CallsOf(1..i, h) = CallsOf((1..m) \cup {i}, h)
    <3>1. \A x \in 1..i : \/ x \in (1..m) \cup {i}
                          \/ x \in Calls /\ m < x /\ x < i
      <4>1. i <= MaxCalls /\ MaxCalls \in Nat
        BY SMT, BoundsAssumption DEF Calls
      <4> QED BY SMT, <1>4, <4>1 DEF Calls
    <3>2. \A x \in (1..m) \cup {i} : x \in 1..i
      BY SMT, <1>4 DEF Calls
    <3>3. \A x \in Calls : m < x /\ x < i => call[x] # h
      BY <1>3, <1>4, <1>17, Between, HandlesAssumption
    <3> QED BY <3>1, <3>2, <3>3 DEF CallsOf
  <2>2. ASSUME NEW h \in Handles
        PROVE  Increasing(mem'[h]) /\ Range(mem'[h]) = CallsOf(1..i, h)
    <3>1. Increasing(mem[h]) /\ Range(mem[h]) = CallsOf(1..m, h)
      BY <1>4 DEF Known, DumpInv, MemInv
    <3>2. CASE h = g
      <4>1. CallsOf(1..i, h) = CallsOf(1..m, h) \cup {i}
        BY <1>5, <2>1, <3>2 DEF CallsOf
      <4> QED BY <1>18, <3>1, <3>2, <4>1
    <3>3. CASE h # g
      <4>1. CallsOf(1..i, h) = CallsOf(1..m, h)
        BY <1>5, <2>1, <3>3 DEF CallsOf
      <4> QED BY <1>18, <3>1, <3>3, <4>1
    <3> QED BY <3>2, <3>3
  <2> QED BY <1>1, <1>6, <2>2 DEF MemInv, CallsOf
<1>20. Dumping => TH_actve \/ BH_active
  BY <1>2 DEF Known, DumpInv, ActiveDump
<1>21. ActiveDump'
  <2>1. TH_actve => async_cmd # 0
    BY DEF Known, DumpInv, ActiveDump
  <2> QED BY <1>2, <1>8, <1>9, <1>11, <1>20, <2>1 DEF ActiveDump, control
<1>22. PersistDump' /\ SavedDump'
  BY ZenonT(30), <1>1, <1>2, <1>8, <1>9, <1>11, <1>12, PersistKept
     DEF Known, DumpInv,
     SavedDump, control
<1>23. CleanDump'
  <2> SUFFICES ASSUME Dumping', missed' = {}
               PROVE  /\ LoggedInv'
                      /\ \A h \in Handles : CleanInv(h)' /\ RedoInv(h)'
    BY DEF CleanDump
  <2>1. missed = {} /\ (g # NoHandle => TH_actve)
    BY <1>6, <1>11, <1>20
  <2>2. LoggedInv /\ \A h \in Handles : CleanInv(h) /\ RedoInv(h)
    BY <1>2, <1>8, <1>11, <2>1 DEF Known, DumpInv, CleanDump
  <2>3. g # NoHandle => /\ g \in dirty_handles
                        /\ do_cow => i \in Range(ckptdag_wq)
    <3>1. Target = g
      BY <1>2, <1>4, <1>5 DEF Target
    <3> QED BY ZenonT(30), <1>2, <1>4, <1>7, <1>8, <1>11, <2>1, <3>1
               DEF Known, DumpInv,
         ActiveDump
  <2>4. ckptdag_wq \in Seq(Calls) /\ Range(ckptdag_wq) \subseteq Calls
    <3>1. ckptdag_wq \in Seq(Calls)
      BY DEF Known, TypeInv, QueueTypes
    <3>2. \A j \in DOMAIN ckptdag_wq : ckptdag_wq[j] \in Calls
      BY SMT, <3>1
    <3> QED BY <3>1, <3>2 DEF Range
  <2>5. do_cow => \A x \in Range(ckptdag_wq) : x <= i /\ (x <= m \/ x = i)
    <3>1. \A x \in Calls : x <= m \/ x = i => x <= i
      BY SMT, <1>4 DEF Calls
    <3> QED BY <1>4, <2>2, <2>4, <3>1 DEF LoggedInv
  <2>6. LoggedInv'
    BY <1>1, <1>6, <1>11, <2>5 DEF LoggedInv
  <2>7. ASSUME NEW h \in Handles, h \notin dirty_handles PROVE CleanInv(h)'
    <3>1. mem'[h] = mem[h]
      BY <1>7, <1>18, <2>3, <2>7, HandlesAssumption
    <3> QED BY <1>1, <2>2, <2>7, <3>1 DEF CleanInv, ThAt
  <2>8. ASSUME NEW h \in Handles PROVE CleanInv(h)'
    BY <1>9, <2>7 DEF CleanInv
  <2>9. ASSUME NEW h \in Handles, do_cow PROVE RedoInv(h)'
    <3>1. /\ Increasing(start[h]) /\ Before(Range(start[h]), Range(ckptdag_wq))
          /\ Range(mem[h]) = Range(start[h]) \cup
               {x \in CallsOf(Range(ckptdag_wq), h) : x <= m}
      BY <1>4, <2>2, <2>9 DEF RedoInv
    <3>2. Range(mem'[h]) = Range(start[h]) \cup
            {x \in CallsOf(Range(ckptdag_wq), h) : x <= i}
      <4>1. CASE h = g
        <5>1. {x \in CallsOf(Range(ckptdag_wq), h) : x <= i}
                = {x \in CallsOf(Range(ckptdag_wq), h) : x <= m} \cup {i}
          <6>1. i \in CallsOf(Range(ckptdag_wq), h)
            BY <1>5, <2>3, <2>9, <4>1, HandlesAssumption DEF CallsOf
          <6>2. \A x \in CallsOf(Range(ckptdag_wq), h) :
                   x <= i <=> x <= m \/ x = i
            BY <2>5, <2>9 DEF CallsOf
          <6> QED BY <6>1, <6>2
        <5>2. Range(mem'[h]) = Range(mem[h]) \cup {i}
          BY <1>18, <4>1
        <5> QED BY <3>1, <5>1, <5>2
      <4>2. CASE h # g
        <5>1. \A x \in CallsOf(Range(ckptdag_wq), h) : x <= i <=> x <= m
          BY <1>5, <2>5, <2>9, <4>2 DEF CallsOf
        <5>2. {x \in CallsOf(Range(ckptdag_wq), h) : x <= i}
                = {x \in CallsOf(Range(ckptdag_wq), h) : x <= m}
          BY <5>1
        <5>3. mem'[h] = mem[h]
          BY <1>18, <4>2
        <5> QED BY <3>1, <5>2, <5>3
      <4> QED BY <4>1, <4>2
    <3> QED BY <1>1, <1>6, <3>1, <3>2 DEF RedoInv, CallsOf
  <2>10. ASSUME NEW h \in Handles PROVE RedoInv(h)'
    BY <1>11, <2>9 DEF RedoInv
  <2> QED BY <2>6, <2>8, <2>10
<1> QED BY <1>13, <1>15, <1>16, <1>17, <1>19, <1>21, <1>22, <1>23 DEF DumpInv

---------------------------------------------------------------------------
(* The worker: the bottom half *)

\* The bottom half begins, and waits for the client to be offline.
LEMMA BhWaitDump == ASSUME Known, BhStart \/ Stopped PROVE DumpInv'
<1>1. UNCHANGED <<rpc, api_inst_pc, call, skipped, parser2worker_wq, ckptdag_wq,
                  handles, wqes, max_wqe_id, th, BH_active, async_cmd,
                  dirty_handles, persist_handles, oob_vars, files, history>>
  BY DEF BhStart, Stopped, client, ckpt_cxt
<1>2. /\ BH_active /\ worker.pc \in {"loop", "first", "again"} /\ wqes = <<>>
  BY DEF BhStart, Stopped, Known, Inv, Safe, OneCommand, DumpInv, OfflineInv,
     Busy
<1>3. /\ worker'.pc \in {"loop", "first", "again", "stopped"}
      /\ worker'.pc # "loop" => worker'.max = 0
      /\ worker'.pc = "stopped" => offline_counter' = 2
      /\ offline_counter' = 2 => offline_counter = 2
      /\ TH_actve' => TH_actve
  <2>1. CASE BhStart
    <3>1. offline_counter \in 0..2 /\ TH_actve' = FALSE
      BY <2>1 DEF BhStart, Known, TypeInv, CallTypes
    <3>2. PICK p : /\ worker' = [pc |-> p, max |-> 0]
                   /\ p = CASE offline_counter = 0 -> "first"
                            [] offline_counter = 1 -> "again"
                            [] OTHER -> "stopped"
      BY <2>1 DEF BhStart
    <3>3. /\ p \in {"first", "again", "stopped"}
          /\ p = "stopped" => offline_counter = 2
      BY SMT, <3>1, <3>2
    <3>4. offline_counter' = IF offline_counter = 0 THEN 1 ELSE offline_counter
      BY <2>1 DEF BhStart
    <3>5. /\ offline_counter' = 2 => offline_counter = 2
          /\ offline_counter = 2 => offline_counter' = 2
      BY SMT, <3>1, <3>4
    <3>6. worker'.pc = p /\ worker'.max = 0
      BY <3>2
    <3> QED BY <3>1, <3>3, <3>5, <3>6
  <2>2. CASE Stopped
    <3>1. UNCHANGED <<offline_counter, TH_actve>> /\ worker.pc # "loop"
      BY <2>2 DEF Stopped, client, ckpt_cxt
    <3>2. \/ offline_counter = 2 /\ worker' = [worker EXCEPT !.pc = "stopped"]
          \/ worker' = Polling
      BY <2>2 DEF Stopped
    <3>3. worker.max = 0
      BY <1>2, <3>1 DEF Known, DumpInv, OfflineInv
    <3>4. ASSUME worker' = [worker EXCEPT !.pc = "stopped"]
          PROVE  worker'.pc = "stopped" /\ worker'.max = 0
      BY <3>3, <3>4 DEF Known, TypeInv, WorkerTypes, WorkerRec
    <3>5. ASSUME worker' = Polling PROVE worker'.pc = "loop"
      BY <3>5 DEF Polling
    <3> QED BY <3>1, <3>2, <3>4, <3>5
  <2> QED BY <2>1, <2>2
<1>4. /\ {"loop", "first", "again", "stopped"} \cap Saving = {}
      /\ {"loop", "first", "again", "stopped"} \cap Busy = {}
  BY DEF Saving, Busy
<1>5. /\ UNCHANGED control
      /\ UNCHANGED <<mem, slot, state_preserve_counter, persist_thread>>
      /\ UNCHANGED <<start, missed>>
  BY <1>1 DEF control, oob_vars, handles, history
<1>6. ~Answered
  BY <1>2, Underway
<1>7. /\ ~Answered' /\ (do_cow' <=> do_cow) /\ (Dumping' <=> Dumping)
      /\ UNCHANGED Last
  BY <1>1, <1>5, <1>6, AnswerKept
<1>8. HandedOn' <=> HandedOn
  BY <1>1, <1>7 DEF HandedOn
<1>9. worker.pc \notin Saving /\ worker'.pc \notin Saving
      /\ worker.pc \notin Busy /\ worker'.pc \notin Busy
  BY <1>2, <1>3, <1>4
<1>10. LastInv' /\ DirInv' /\ MemInv'
  BY <1>1, <1>5, <1>9, LastKept, DirKept, MemKept DEF Known, DumpInv, control
<1>11. NumberInv' /\ OfflineInv' /\ CountInv'
  <2>1. NumberInv'
    BY <1>1, NumberKept DEF Known, DumpInv
  <2>2. OfflineInv'
    BY <1>1, <1>2, <1>3, <1>9 DEF Known, DumpInv, OfflineInv
  <2>3. Unsaved'
    BY <1>1, <1>6, <1>9, NumberKept DEF Known, DumpInv, CountInv
  <2> QED BY <1>7, <1>9, <2>2, <2>1, <2>3 DEF CountInv, Saving
<1>12. ActiveDump'
  BY <1>1, <1>2, <1>3, <1>9 DEF Known, DumpInv, ActiveDump
<1>13. PersistDump' /\ SavedDump'
  BY <1>1, <1>5, <1>7, <1>8, <1>9, PersistKept DEF Known, DumpInv, SavedDump,
     control
<1>14. CleanDump'
  BY <1>1, <1>5, <1>7, <1>9, CleanKept DEF Known, DumpInv, ThAt
<1> QED BY <1>10, <1>11, <1>12, <1>13, <1>14 DEF DumpInv

\* What is known once the client is offline.
LEMMA AtStop ==
    ASSUME Known, worker.pc = "stopped"
    PROVE  /\ BH_active /\ th.pc = "exit" /\ th.todo = {} /\ cmd_wq = <<>>
           /\ ~Answered /\ async_cmd = Len(cmd) /\ async_cmd # 0
           /\ Len(cmd) \in Cmds /\ Unsaved /\ wqes = <<>>
           /\ offline_counter = 2 /\ worker.max = 0
           /\ Dir.ra = {} /\ Dir.ua = {} /\ persist_handles = Handles
           /\ \A h \in Handles : Held(h) /\ Content(h) = slot[h]
           /\ missed = {} =>
                LoggedInv /\ \A h \in Handles : CleanInv(h) /\ RedoInv(h)
<1>1. BH_active /\ worker.pc \notin Saving /\ worker.pc \in Bottom
      /\ worker.pc \notin Busy
  BY DEF Known, Inv, Safe, OneCommand, Saving, Bottom, Busy
<1>2. th.pc = "exit" /\ th.todo = {}
  BY <1>1 DEF Known, Inv, Safe, OneCommand, Types, ThreadType
<1>3. /\ ~Answered /\ async_cmd = Len(cmd) /\ async_cmd # 0 /\ Len(cmd) \in Cmds
      /\ cmd_wq = <<>>
  BY <1>1, Underway
<1>4. /\ Unsaved /\ wqes = <<>> /\ offline_counter = 2 /\ worker.max = 0
  BY <1>1, <1>3 DEF Known, DumpInv, CountInv, OfflineInv, Busy
<1>5. Dir.ra = {} /\ Dir.ua = {}
  BY <1>1, <1>3 DEF Known, DumpInv, DirInv, Untouched, Dir
<1>6. HandedOn /\ Dumping
  BY <1>1 DEF HandedOn, Dumping
<1> QED BY <1>1, <1>2, <1>3, <1>4, <1>5, <1>6 DEF Known, DumpInv, PersistDump,
     CleanDump

\* The handles are saved, or the calls that wrote to them.
LEMMA SaveDump ==
    ASSUME Known, worker.pc = "stopped",
           worker' = [worker EXCEPT !.pc = "drain"],
           UNCHANGED <<client, parser2worker_wq, mem, state_preserve_counter,
                       slot, wqes, max_wqe_id, th, TH_actve, BH_active,
                       async_cmd, dirty_handles, oob_vars, history>>,
           persist_handles' = Handles,
           \A c \in Cmds : /\ files'[c].ua = files[c].ua
                           /\ c # Len(cmd) => files'[c].ra = files[c].ra,
           missed = {} => \A h \in Handles : SavedState(h)'
    PROVE  DumpInv'
<1>1. /\ BH_active /\ th.pc = "exit" /\ cmd_wq = <<>> /\ ~Answered
      /\ async_cmd = Len(cmd) /\ async_cmd # 0 /\ Len(cmd) \in Cmds
      /\ Unsaved /\ wqes = <<>> /\ offline_counter = 2 /\ worker.max = 0
      /\ Dir.ua = {}
  BY AtStop
<1>2. worker'.pc = "drain" /\ worker'.max = 0
  BY <1>1 DEF Known, TypeInv, WorkerTypes, WorkerRec
<1>3. /\ worker'.pc \in Saving /\ worker'.pc \notin Busy
      /\ "drain" # "sync_persist"
  BY <1>2 DEF Saving, Busy
<1>4. /\ UNCHANGED control /\ UNCHANGED <<rpc, offline_counter, api_inst_pc, skipped>>
      /\ UNCHANGED <<call, missed>>
  BY DEF control, oob_vars, client, history
<1>5. ~Answered'
  BY <1>1, <1>4, AnswerKept
<1>6. LastInv' /\ MemInv'
  BY <1>4, LastKept, MemKept DEF Known, DumpInv
<1>7. DirInv'
  <2>1. ASSUME NEW c \in Cmds, Untouched(c)' PROVE Untouched(c) /\ c # Len(cmd)
    <3>1. c > Len(cmd)
      BY <1>1, <1>3, <1>4, <2>1 DEF Untouched, control
    <3>2. c # Len(cmd)
      BY SMT, <3>1 DEF Cmds
    <3> QED BY <3>1, <3>2 DEF Untouched
  <2> QED BY <2>1 DEF Known, DumpInv, DirInv
<1>8. NumberInv' /\ OfflineInv'
  BY <1>1, <1>2, <1>4, NumberKept DEF Known, DumpInv, OfflineInv
<1>9. CountInv'
  <2>1. Dir'.ua = {}
    BY <1>1, <1>4 DEF Dir, control
  <2>2. Unsaved'
    BY <1>1, <1>4, NumberKept
  <2> QED BY <1>2, <1>3, <1>5, <2>1, <2>2 DEF CountInv
<1>10. ActiveDump'
  BY <1>1, <1>2, <1>3 DEF ActiveDump
<1>11. PersistDump' /\ CleanDump' /\ SavedDump'
  BY <1>3, <1>4 DEF PersistDump, CleanDump, SavedDump
<1> QED BY <1>6, <1>7, <1>8, <1>9, <1>10, <1>11 DEF DumpInv

\* The dirty handles are saved as they are now; the others have not changed
\* since the top half preserved them.
LEMMA DirtyCopyDump ==
    ASSUME Known, NEW D \in SUBSET dirty_handles, DirtyCopy(D), ~Fail
    PROVE  DumpInv'
<1>1. UNCHANGED <<client, parser2worker_wq, ckptdag_wq, mem,
                  state_preserve_counter, slot, wqes, max_wqe_id, th, TH_actve,
                  BH_active, async_cmd, dirty_handles, oob_vars, files,
                  history>>
  BY DEF DirtyCopy
<1>2. /\ D = dirty_handles /\ worker.pc = "stopped"
      /\ worker' = [worker EXCEPT !.pc = "drain"]
      /\ Persist(async_cmd, D, mem)
  BY DEF DirtyCopy
<1>3. UNCHANGED <<call, cmd>>
  BY <1>1 DEF client, oob_vars
<1>4. /\ persist_handles' = Handles
      /\ \A h \in Handles : persist_thread'[h] = IF h \in D
           THEN [status |-> "running", cmd |-> async_cmd, state |-> mem[h]]
           ELSE persist_thread[h]
  BY <1>2, AtStop DEF Persist, Known, TypeInv, PersistTypes
<1>5. ASSUME missed = {}, NEW h \in Handles
      PROVE  Held(h)' /\ Content(h)' = mem[h]
  <2>1. CASE h \in D
    <3>1. PICK x, c, s : /\ x = persist_thread'[h] /\ c = async_cmd
                         /\ s = mem[h]
      OBVIOUS
    <3>2. x = [status |-> "running", cmd |-> c, state |-> s]
      BY <1>4, <2>1, <3>1
    <3>3. x.status = "running" /\ x.cmd = c /\ x.state = s
      BY <3>2
    <3>4. Running(h)' /\ c = Len(cmd)
      BY <1>2, <3>1, <3>3, AtStop DEF Running
    <3> QED BY <1>3, <3>1, <3>3, <3>4 DEF Held, Content
  <2>2. CASE h \notin D
    <3>1. persist_thread'[h] = persist_thread[h]
      BY <1>4, <2>2
    <3>2. Content(h)' = Content(h) /\ (Held(h)' <=> Held(h))
      BY <1>1, <1>3, <3>1 DEF Content, Held, Running, Dir
    <3>3. Held(h) /\ Content(h) = slot[h] /\ CleanInv(h) /\ th.pc = "exit"
          /\ th.todo = {}
      BY <1>2, <1>5, AtStop
    <3>4. slot[h] = mem[h]
      BY <1>2, <2>2, <3>3 DEF CleanInv, ThAt
    <3> QED BY <3>2, <3>3, <3>4
  <2> QED BY <2>1, <2>2
<1>6. ASSUME missed = {}, NEW h \in Handles PROVE SavedState(h)'
  <2>1. Held(h)' /\ Content(h)' = mem[h]
    BY <1>5, <1>6
  <2>2. CallsOf(Dir.ra, h)' = {}
    BY <1>1, <1>2, <1>3, AtStop DEF CallsOf, Dir
  <2>3. Increasing(mem[h]) /\ Range(mem[h]) = CallsOf(1..max_wqe_id, h)
    BY DEF Known, DumpInv, MemInv
  <2>4. CallsOf(1..max_wqe_id, h)' = CallsOf(1..max_wqe_id, h)
    BY <1>1, <1>3 DEF CallsOf
  <2> QED BY <2>1, <2>2, <2>3, <2>4 DEF SavedState, Before
<1>7. \A c \in Cmds : /\ files'[c].ua = files[c].ua
                      /\ c # Len(cmd) => files'[c].ra = files[c].ra
  BY <1>1
<1> QED BY <1>1, <1>2, <1>4, <1>6, <1>7, SaveDump

\* What is added to the calls in a directory.
LEMMA CallsSaved ==
    ASSUME FileTypes, NEW c \in Cmds, NEW C
    PROVE  /\ files' = [files EXCEPT ![c].ra = @ \cup C] =>
                /\ files'[c].ra = files[c].ra \cup C
                /\ files'[c].ua = files[c].ua
                /\ files'[c].state = files[c].state
                /\ \A d \in Cmds \ {c} : files'[d] = files[d]
           /\ files' = [files EXCEPT ![c].ua = @ \cup C] =>
                /\ files'[c].ua = files[c].ua \cup C
                /\ files'[c].ra = files[c].ra
                /\ files'[c].state = files[c].state
                /\ \A d \in Cmds \ {c} : files'[d] = files[d]
<1>1. PICK f : f = files[c]
  OBVIOUS
<1>2. DOMAIN f = {"state", "ra", "ua"} /\ DOMAIN files = Cmds
  BY <1>1 DEF FileTypes, IsDirectory
<1>3. ASSUME files' = [files EXCEPT ![c].ra = @ \cup C]
      PROVE  /\ files'[c].ra = files[c].ra \cup C
             /\ files'[c].ua = files[c].ua /\ files'[c].state = files[c].state
             /\ \A d \in Cmds \ {c} : files'[d] = files[d]
  <2>1. files'[c] = [f EXCEPT !.ra = @ \cup C]
    BY <1>1, <1>2, <1>3
  <2>2. /\ files'[c].ra = f.ra \cup C /\ files'[c].ua = f.ua
        /\ files'[c].state = f.state
    BY <1>2, <2>1
  <2>3. \A d \in Cmds \ {c} : files'[d] = files[d]
    BY <1>2, <1>3
  <2> QED BY <1>1, <2>2, <2>3
<1>4. ASSUME files' = [files EXCEPT ![c].ua = @ \cup C]
      PROVE  /\ files'[c].ua = files[c].ua \cup C
             /\ files'[c].ra = files[c].ra /\ files'[c].state = files[c].state
             /\ \A d \in Cmds \ {c} : files'[d] = files[d]
  <2>1. files'[c] = [f EXCEPT !.ua = @ \cup C]
    BY <1>1, <1>2, <1>4
  <2>2. /\ files'[c].ua = f.ua \cup C /\ files'[c].ra = f.ra
        /\ files'[c].state = f.state
    BY <1>2, <2>1
  <2>3. \A d \in Cmds \ {c} : files'[d] = files[d]
    BY <1>2, <1>4
  <2> QED BY <1>1, <2>2, <2>3
<1> QED BY <1>3, <1>4

\* With copy-on-write, the calls logged are saved, to be run again on the
\* handles as they were when the dump began.
LEMMA RecomputeDump ==
    ASSUME Known, NEW n \in 0..Len(ckptdag_wq), Recompute(n), ~Fail
    PROVE  DumpInv'
<1>1. PICK C : C = Range(ckptdag_wq)
  OBVIOUS
<1>2. /\ n = Len(ckptdag_wq) /\ worker.pc = "stopped"
      /\ cmd[async_cmd].do_cow
      /\ files' = [files EXCEPT ![async_cmd].ra =
                     @ \cup Range(SubSeq(ckptdag_wq, 1, n))]
  BY DEF Recompute
<1>3. /\ worker' = [worker EXCEPT !.pc = "drain"]
      /\ UNCHANGED <<client, parser2worker_wq, handles, wqes, max_wqe_id, th,
                     ckpt_cxt, oob_vars, history>>
  BY <1>2 DEF Recompute
<1>4. /\ BH_active /\ th.todo = {} /\ Len(cmd) \in Cmds
      /\ async_cmd = Len(cmd) /\ async_cmd # 0 /\ persist_handles = Handles
      /\ Dir.ra = {} /\ \A h \in Handles : Held(h) /\ Content(h) = slot[h]
  BY <1>2, AtStop
<1>5. Range(SubSeq(ckptdag_wq, 1, n)) = C
  <2>1. ckptdag_wq \in Seq(Calls)
    BY DEF Known, TypeInv, QueueTypes
  <2>2. SubSeq(ckptdag_wq, 1, n) = ckptdag_wq
    BY SMT, <1>2, <2>1
  <2> QED BY <1>1, <2>2
<1>6. files' = [files EXCEPT ![Len(cmd)].ra = @ \cup C]
  BY <1>2, <1>4, <1>5
<1>7. /\ files'[Len(cmd)].ra = files[Len(cmd)].ra \cup C
      /\ files'[Len(cmd)].ua = files[Len(cmd)].ua
      /\ files'[Len(cmd)].state = files[Len(cmd)].state
      /\ \A d \in Cmds \ {Len(cmd)} : files'[d] = files[d]
  BY <1>4, <1>6, CallsSaved DEF Known, TypeInv
<1>8. UNCHANGED <<mem, slot, state_preserve_counter, persist_thread, call, cmd,
                  missed, start, TH_actve, BH_active, async_cmd, dirty_handles,
                  persist_handles>>
  BY <1>3 DEF handles, client, oob_vars, history, ckpt_cxt
<1>9. do_cow /\ worker.pc \notin Busy
  BY <1>2, <1>4 DEF do_cow, Busy
<1>10. ASSUME missed = {}, NEW h \in Handles PROVE SavedState(h)'
  <2>1. PICK K : K = CallsOf(C, h)
    OBVIOUS
  <2>2. Dir'.ra = C
    BY <1>4, <1>7, <1>8 DEF Dir
  <2>3. CallsOf(Dir.ra, h)' = K
    BY <1>8, <2>1, <2>2 DEF CallsOf
  <2>4. slot[h] = start[h]
    <3>1. CowInv(h)
      BY <1>9 DEF Known, Inv, Safe, Snapshot
    <3> QED BY <1>4, <3>1 DEF CowInv
  <2>5. Held(h)' /\ Content(h)' = start[h]
    <3>1. Held(h) /\ Content(h) = slot[h]
      BY <1>4
    <3>2. Content(h)' = Content(h) /\ (Held(h)' <=> Held(h))
      BY <1>7, <1>8 DEF Content, Held, Running, Dir
    <3> QED BY <2>4, <3>1, <3>2
  <2>6. LoggedInv /\ RedoInv(h)
    BY <1>2, <1>10, AtStop
  <2>7. Increasing(start[h]) /\ Before(Range(start[h]), C)
    BY <1>1, <1>9, <2>6 DEF RedoInv
  <2>8. \A i \in C : i <= max_wqe_id
    BY <1>1, <1>9, <2>6 DEF LoggedInv
  <2>9. Range(mem[h]) = Range(start[h]) \cup {i \in K : i <= max_wqe_id}
    BY <1>1, <1>9, <2>1, <2>6 DEF RedoInv
  <2>10. K \subseteq C
    BY <2>1 DEF CallsOf
  <2>11. Range(start[h]) \cup K = CallsOf(1..max_wqe_id, h)
    <3>1. {i \in K : i <= max_wqe_id} = K
      BY <2>8, <2>10
    <3>2. Range(mem[h]) = CallsOf(1..max_wqe_id, h)
      BY DEF Known, DumpInv, MemInv
    <3> QED BY <2>9, <3>1, <3>2
  <2>12. Before(Range(start[h]), K)
    BY <2>7, <2>10 DEF Before
  <2>13. CallsOf(1..max_wqe_id, h)' = CallsOf(1..max_wqe_id, h)
    BY <1>3, <1>8 DEF CallsOf
  <2> QED BY <2>3, <2>5, <2>7, <2>11, <2>12, <2>13 DEF SavedState
<1>11. \A c \in Cmds : /\ files'[c].ua = files[c].ua
                       /\ c # Len(cmd) => files'[c].ra = files[c].ra
  BY <1>7
<1>12. persist_handles' = Handles
  BY <1>4, <1>8
<1> QED BY <1>2, <1>3, <1>8, <1>10, <1>11, <1>12, SaveDump

\* The calls that are still queued are saved.
LEMMA DrainDump ==
    ASSUME Known, NEW n \in 0..Len(parser2worker_wq), Drain(n), ~Fail
    PROVE  DumpInv'
<1>1. PICK C : C = Range(parser2worker_wq)
  OBVIOUS
<1>2. SubSeq(parser2worker_wq, 1, n) = parser2worker_wq
      /\ parser2worker_wq \in Seq(Calls)
  <2>1. parser2worker_wq \in Seq(Calls)
    BY DEF Known, TypeInv, QueueTypes
  <2>2. n = Len(parser2worker_wq)
    BY DEF Drain
  <2> QED BY SMT, <2>1, <2>2
<1>3. /\ worker.pc = "drain" /\ parser2worker_wq' = <<>>
      /\ parser2worker_wq # <<>>
      /\ files' = [files EXCEPT ![async_cmd].ua = @ \cup C]
      /\ worker' = [worker EXCEPT !.max = Max(C \cup {@})]
      /\ UNCHANGED <<client, ckptdag_wq, handles, wqes, max_wqe_id, th,
                     ckpt_cxt, oob_vars, history>>
  BY <1>1, <1>2 DEF Drain
<1>4. worker.pc \in Bottom /\ worker.pc \in Saving /\ "drain" # "sync_persist"
      /\ worker.pc \notin {"loop"} \cup Busy
  BY <1>3 DEF Bottom, Saving, Busy
<1>5. /\ BH_active /\ th.pc = "exit" /\ cmd_wq = <<>> /\ ~Answered
      /\ async_cmd = Len(cmd) /\ async_cmd # 0 /\ Len(cmd) \in Cmds
  <2>1. BH_active /\ th.pc = "exit"
    BY <1>3 DEF Known, Inv, Safe, OneCommand
  <2> QED BY <1>4, <2>1, Underway
<1>6. wqes = <<>> /\ offline_counter = 2 /\ rpc = "idle"
  BY <1>4 DEF Known, DumpInv, OfflineInv
<1>7. Unsaved /\ Dir.ua = {} /\ worker.max = 0
  BY <1>3 DEF Known, DumpInv, CountInv, SavedAll
<1>8. C = Due
  BY <1>1, <1>6, <1>7, EmptyRange DEF Unsaved, Queued
<1>9. worker'.pc = "drain"
  BY <1>3 DEF Known, TypeInv, WorkerTypes, WorkerRec
<1>10. /\ files'[Len(cmd)].ua = files[Len(cmd)].ua \cup C
       /\ files'[Len(cmd)].ra = files[Len(cmd)].ra
       /\ files'[Len(cmd)].state = files[Len(cmd)].state
       /\ \A d \in Cmds \ {Len(cmd)} : files'[d] = files[d]
  BY <1>3, <1>5, CallsSaved DEF Known, TypeInv
<1>11. /\ UNCHANGED control
       /\ UNCHANGED <<mem, slot, state_preserve_counter, persist_thread, call>>
       /\ UNCHANGED <<missed, start, TH_actve, persist_handles, cmd>>
       /\ UNCHANGED <<rpc, offline_counter, api_inst_pc, skipped>>
  BY <1>3 DEF handles, client, oob_vars, history, ckpt_cxt, control
<1>12. ~Answered' /\ worker'.pc \in Saving /\ worker'.pc \notin Busy
       /\ worker'.pc \notin {"loop"} \cup Busy
  BY <1>3, <1>4, <1>5, <1>9, <1>11, AnswerKept
<1>13. LastInv' /\ MemInv'
  BY <1>3, <1>11, LastKept, MemKept DEF Known, DumpInv
<1>14. DirInv'
  <2>1. ASSUME NEW c \in Cmds, Untouched(c)' PROVE Untouched(c) /\ c # Len(cmd)
    <3>1. c > Len(cmd)
      BY <1>3, <1>5, <1>11, <1>12, <2>1 DEF Untouched, control
    <3>2. c # Len(cmd)
      BY SMT, <3>1 DEF Cmds
    <3> QED BY <3>1, <3>2 DEF Untouched
  <2> QED BY <1>10, <2>1 DEF Known, DumpInv, DirInv
<1>15. NumberInv' /\ OfflineInv'
  <2>1. Queued' = {} /\ Issued' = Issued
    BY <1>3, <1>6, <1>11, EmptyRange DEF Queued, Issued
  <2>2. NumberInv'
    BY ZenonT(30), <1>3, <1>6, <1>11, <2>1, EmptyRange
       DEF Known, DumpInv, NumberInv, Before
  <2> QED BY <1>3, <1>6, <1>9, <1>11, <2>2 DEF OfflineInv
<1>16. CountInv'
  <2>1. Dir'.ua = Due'
    BY <1>3, <1>7, <1>8, <1>10, <1>11 DEF Dir, Due, Issued
  <2>2. SavedAll'
    BY <1>3, <1>6, <1>11, <2>1 DEF SavedAll
  <2> QED BY <1>4, <1>9, <1>11, <1>12, <2>2 DEF CountInv
<1>17. ActiveDump'
  BY <1>5, <1>9, <1>11, <1>12 DEF ActiveDump, control
<1>18. PersistDump' /\ CleanDump'
  <2>1. HandedOn
    BY <1>5 DEF HandedOn
  <2> QED BY <1>11, <1>12, <2>1 DEF PersistDump, CleanDump, Known, DumpInv
<1>19. SavedDump'
  <2> SUFFICES ASSUME missed = {}, NEW h \in Handles PROVE SavedState(h)'
    BY <1>11 DEF SavedDump
  <2>1. SavedState(h)
    BY <1>4 DEF Known, DumpInv, SavedDump
  <2>2. Content(h)' = Content(h) /\ (Held(h)' <=> Held(h)) /\ Dir'.ra = Dir.ra
    BY <1>10, <1>11 DEF Content, Held, Running, Dir
  <2> QED BY <1>3, <1>11, <2>1, <2>2 DEF SavedState, CallsOf
<1> QED BY <1>13, <1>14, <1>15, <1>16, <1>17, <1>18, <1>19 DEF DumpInv

\* Nothing is left to be saved once the last call is.
LEMMA DrainedDump == ASSUME Known, Drained PROVE DumpInv'
<1>1. /\ worker.pc = "drain" /\ ~Undrained
      /\ worker' = [worker EXCEPT !.pc = "sync_persist"]
      /\ UNCHANGED <<client, parser2worker_wq, ckptdag_wq, handles, wqes,
                     max_wqe_id, th, ckpt_cxt, oob_vars, files, history>>
  BY DEF Drained
<1>2. worker'.pc = "sync_persist" /\ worker'.max = worker.max
  BY <1>1 DEF Known, TypeInv, WorkerTypes, WorkerRec
<1>3. /\ worker.pc \in Bottom /\ worker.pc \in Saving
      /\ worker.pc \notin {"loop"} \cup Busy
      /\ worker'.pc \in Saving /\ worker'.pc \notin Busy
  BY <1>1, <1>2 DEF Bottom, Saving, Busy
<1>4. BH_active /\ ~Answered /\ async_cmd # 0
  BY <1>1, <1>3, Underway DEF Known, Inv, Safe, OneCommand
<1>5. /\ UNCHANGED control
      /\ UNCHANGED <<mem, slot, state_preserve_counter, persist_thread, call>>
      /\ UNCHANGED <<missed, start, persist_handles, cmd>>
      /\ UNCHANGED <<rpc, offline_counter, api_inst_pc, skipped>>
  BY <1>1 DEF handles, client, oob_vars, history, ckpt_cxt, control
<1>6. ~Answered'
  BY <1>4, <1>5, AnswerKept
<1>7. wqes = <<>> /\ offline_counter = 2 /\ rpc = "idle"
  BY <1>3 DEF Known, DumpInv, OfflineInv
<1>8. SavedAll
  <2>1. CASE Unsaved /\ Dir.ua = {} /\ worker.max = 0
    <3>1. max_wqe_id \in 0..MaxCalls /\ api_inst_pc \in 1..(MaxCalls + 1)
          /\ MaxCalls \in Nat /\ max_wqe_id < api_inst_pc
          /\ parser2worker_wq \in Seq(Calls)
      BY BoundsAssumption DEF Known, TypeInv, CallTypes, QueueTypes, DumpInv,
         NumberInv
    <3>2. ~(worker.max < api_inst_pc - 1 /\ max_wqe_id < api_inst_pc - 1)
      BY <1>1 DEF Undrained
    <3>3. \A i \in Issued : ~(max_wqe_id < i)
      BY SMT, <2>1, <3>1, <3>2 DEF Issued, Calls
    <3>4. Due = {} /\ Range(parser2worker_wq) = {}
      BY <2>1, <3>3 DEF Due, Unsaved, Queued
    <3>5. parser2worker_wq = <<>>
      <4>1. DOMAIN parser2worker_wq = {}
        BY <3>4 DEF Range
      <4> QED BY SMT, <3>1, <4>1
    <3> QED BY <1>7, <2>1, <3>4, <3>5 DEF SavedAll
  <2> QED BY <1>1, <2>1 DEF Known, DumpInv, CountInv
<1>9. LastInv' /\ MemInv' /\ DirInv'
  BY <1>1, <1>3, <1>5, LastKept, MemKept, DirKept DEF Known, DumpInv, control
<1>10. NumberInv' /\ OfflineInv'
  BY <1>1, <1>2, <1>5, <1>7, NumberKept DEF Known, DumpInv, OfflineInv
<1>11. CountInv'
  <2>1. SavedAll'
    BY <1>1, <1>5, <1>8, NumberKept DEF SavedAll, Dir
  <2> QED BY <1>2, <1>3, <1>6, <2>1 DEF CountInv
<1>12. ActiveDump'
  BY <1>2, <1>3, <1>4, <1>5 DEF ActiveDump, control
<1>13. PersistDump' /\ CleanDump'
  <2>1. HandedOn
    BY <1>4 DEF HandedOn
  <2> QED BY <1>3, <1>5, <2>1 DEF PersistDump, CleanDump, Known, DumpInv
<1>14. SavedDump'
  BY <1>1, <1>3, <1>5, <1>6, SavedKept DEF Known, DumpInv
<1> QED BY <1>9, <1>10, <1>11, <1>12, <1>13, <1>14 DEF DumpInv

\* The dump succeeds once every handle is on disk.
LEMMA SyncPersistDump == ASSUME Known, SyncPersist, ~Fail PROVE DumpInv'
<1>1. /\ worker.pc = "sync_persist" /\ worker' = Polling /\ ~BH_active'
      /\ \A h \in persist_handles : persist_thread[h].status = "ok"
      /\ persist_thread' = [h \in Handles |-> IF h \in persist_handles
                              THEN NoThread ELSE persist_thread[h]]
      /\ reply_parser(async_cmd, "success")
      /\ UNCHANGED <<client, parser2worker_wq, ckptdag_wq, mem,
                     state_preserve_counter, slot, wqes, max_wqe_id, th,
                     TH_actve, async_cmd, dirty_handles, persist_handles,
                     cmd_wq, oob, files, history>>
  BY DEF SyncPersist
<1>2. worker'.pc = "loop"
  BY <1>1 DEF Polling
<1>3. /\ worker.pc \in Bottom /\ worker.pc \in Saving
      /\ worker.pc \notin {"loop"} \cup Busy
      /\ worker'.pc \notin Saving /\ worker'.pc \notin Busy
  BY <1>1, <1>2 DEF Bottom, Saving, Busy
<1>4. BH_active /\ th.pc = "exit" /\ Last.dump
  BY <1>1 DEF Known, Inv, Safe, OneCommand, DumpInv, LastInv
<1>5. /\ oob = "waiting" /\ cmd_wq = <<>> /\ replies = <<>>
      /\ async_cmd = Len(cmd) /\ async_cmd # 0 /\ Len(cmd) \in 1..Len(cmd)
      /\ Len(cmd) \in Cmds
  BY <1>4, Underway
<1>6. /\ LastInv' /\ PersistDump' /\ CleanDump' /\ ~Dumping' /\ Answered'
      /\ Len(cmd') = Len(cmd)
  BY <1>1, <1>4, <1>5, ReplyDump
<1>7. UNCHANGED <<rpc, offline_counter, api_inst_pc, call, skipped, missed>>
  BY <1>1 DEF client, history
<1>8. ASSUME NEW h \in Handles
      PROVE  /\ ~Running(h) /\ ~Running(h)' /\ Content(h)' = Content(h)
             /\ Held(h)' <=> Held(h)
  <2>1. h \in persist_handles
    BY <1>4 DEF Known, DumpInv, PersistDump, HandedOn
  <2>2. persist_thread[h].status = "ok" /\ persist_thread'[h] = NoThread
    BY <1>1, <2>1
  <2>3. NoThread.status = "none"
    BY DEF NoThread
  <2>4. ~Running(h) /\ ~Running(h)'
    BY <2>2, <2>3 DEF Running
  <2> QED BY <1>1, <1>6, <2>4 DEF Content, Held, Dir
<1>9. DirInv'
  <2>1. ASSUME NEW c \in Cmds, Untouched(c)' PROVE Untouched(c)
    BY <1>1, <1>4, <1>5, <1>6, <2>1 DEF Untouched
  <2> QED BY <1>1, <2>1 DEF Known, DumpInv, DirInv
<1>10. SavedAll /\ wqes = <<>> /\ offline_counter = 2 /\ rpc = "idle"
  BY <1>1, <1>3 DEF Known, DumpInv, CountInv, OfflineInv
<1>11. NumberInv' /\ OfflineInv' /\ MemInv'
  BY ZenonT(30), <1>1, <1>2, <1>3, <1>7, <1>10, MemKept, NumberKept
     DEF Known, DumpInv, OfflineInv, Saving
<1>12. CountInv'
  <2>1. SavedAll'
    BY <1>1, <1>6, <1>7, <1>10, NumberKept DEF SavedAll, Dir
  <2> QED BY <1>2, <1>3, <1>6, <1>8, <2>1 DEF CountInv, Saving
<1>13. ActiveDump'
  BY <1>1, <1>2, <1>3, <1>5, <1>6 DEF ActiveDump
<1>14. SavedDump'
  <2> SUFFICES ASSUME missed = {}, NEW h \in Handles PROVE SavedState(h)'
    BY <1>7 DEF SavedDump
  <2>1. SavedState(h)
    BY <1>3 DEF Known, DumpInv, SavedDump
  <2>2. /\ Content(h)' = Content(h) /\ (Held(h)' <=> Held(h))
        /\ Dir'.ra = Dir.ra
    BY <1>1, <1>6, <1>8 DEF Dir
  <2> QED BY <1>1, <1>7, <2>1, <2>2 DEF SavedState, CallsOf
<1> QED BY <1>6, <1>9, <1>11, <1>12, <1>13, <1>14 DEF DumpInv

---------------------------------------------------------------------------
\* A step that changes nothing.
LEMMA IdleDump == ASSUME DumpInv, UNCHANGED vars PROVE DumpInv'
<1>1. UNCHANGED <<rpc, offline_counter, api_inst_pc, call, skipped, parser2worker_wq,
                  ckptdag_wq, mem, state_preserve_counter, slot, persist_thread,
                  worker, wqes, max_wqe_id, th, TH_actve, BH_active, async_cmd,
                  dirty_handles, persist_handles, cmd, cmd_wq, replies, oob,
                  files, start, missed>>
  BY DEF vars, client, handles, ckpt_cxt, oob_vars, history
<1>2. UNCHANGED control /\ Len(cmd') = Len(cmd) /\ UNCHANGED <<Dir, Target>>
  BY <1>1 DEF control, Dir, Target
<1>3. /\ (Answered' <=> Answered) /\ (Dumping' <=> Dumping)
      /\ do_cow' <=> do_cow
      /\ HandedOn' <=> HandedOn
  BY <1>1, <1>2, AnswerKept DEF HandedOn
<1>4. \A h : Running(h)' <=> Running(h)
  BY <1>1 DEF Running
<1>5. LastInv' /\ DirInv' /\ NumberInv' /\ OfflineInv'
  BY <1>1, <1>2, LastKept, DirKept, NumberKept DEF DumpInv, OfflineInv
<1>6. CountInv'
  BY <1>1, <1>2, <1>3, <1>4, NumberKept DEF DumpInv, CountInv, SavedAll
<1>7. MemInv' /\ ActiveDump'
  BY <1>1, <1>3, MemKept, ActiveKept DEF DumpInv
<1>8. PersistDump' /\ SavedDump'
  BY <1>1, <1>2, <1>3, PersistKept, SavedKept DEF DumpInv
<1>9. CleanDump'
  BY <1>1, <1>3, CleanKept DEF DumpInv, ThAt
<1> QED BY <1>5, <1>6, <1>7, <1>8, <1>9 DEF DumpInv

\* Every step keeps it, as long as nothing fails.
LEMMA StepDump == ASSUME Known, [Next]_vars, ~Fail PROVE DumpInv'
<1>1. CASE RpcStep
  BY <1>1, ClientDump, IssueDump DEF RpcStep, IssueAny
<1>2. CASE OobStep
  BY <1>2, TakeReplyDump, RequestDump DEF OobStep
<1>3. CASE ThStep
  BY <1>3, ThAddDump, ThDoneDump, ThPersistDump, ThFinishDump, ThReplyDump
     DEF ThStep
<1>4. ASSUME NEW h \in Handles, PersistStep(h) PROVE DumpInv'
  BY <1>4, PersistedDump DEF PersistStep
<1>5. CASE WorkerStep
  <2>1. ~BhFails /\ Inv
    BY DEF BhFails, Known
  <2> QED BY ZenonT(30), <1>5, <2>1, RefuseDump, ProcessCmdDump, SetActiveDump,
             PollCallsDump, PrepareDump, PreservedDump, LaunchDump, BhWaitDump,
             DirtyCopyDump, RecomputeDump, DrainDump, DrainedDump,
             SyncPersistDump, NoSyncPersistFails DEF WorkerStep
<1>6. CASE UNCHANGED vars
  BY <1>6, IdleDump DEF Known
<1> QED BY <1>1, <1>2, <1>3, <1>4, <1>5, <1>6 DEF Next
===========================================================================
