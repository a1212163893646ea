--------------------------- MODULE Parsing_proofs ---------------------------
(***************************************************************************)
(* Which rule parse_email takes, for every finite set of rules. Induction  *)
(* over finite sets is done with a least counterexample: the finite sets   *)
(* are well-founded by strict inclusion.                                   *)
(***************************************************************************)
EXTENDS Parsing, FiniteSetTheorems, WellFoundedInduction, TLAPS

-----------------------------------------------------------------------------
(* Induction. *)

IsSmallest(T, F) == T \in F /\ \A U \in F : U \subseteq T => U = T

(* Among finite sets some set has no other below it. *)
LEMMA SmallestSet ==
  ASSUME NEW S, NEW F, F # {}, F \subseteq FiniteSubsetsOf(S)
  PROVE  \E T : IsSmallest(T, F)
<1>1. PICK T \in F : \A U \in F : ~(<<U, T>> \in StrictSubsetOrdering(S))
  BY FS_StrictSubsetOrderingWellFounded, WFMin, Zenon
<1>2. \A U \in F : <<U, T>> \in (SUBSET S) \X (SUBSET S)
  BY <1>1, SMT DEF FiniteSubsetsOf
<1>3. ASSUME NEW U \in F, U \subseteq T, U # T
      PROVE  FALSE
  <2>1. <<U, T>> \in StrictSubsetOrdering(S)
    BY <1>2, <1>3, SMT DEF StrictSubsetOrdering
  <2>. QED
    BY <1>1, <1>3, <2>1
<1>. QED
  BY <1>1, <1>3 DEF IsSmallest

(* A set of natural numbers has a least one, and Min finds it. *)
LEMMA LeastNat ==
  ASSUME NEW N, N \subseteq Nat, N # {}
  PROVE  Min(N) \in N /\ \A n \in N : Min(N) <= n
<1> DEFINE F == {0..n : n \in N}
<1>1. F # {}
  OBVIOUS
<1>2. ASSUME NEW n \in N PROVE 0..n \subseteq Nat /\ IsFiniteSet(0..n)
  <2>1. n \in Int
    OBVIOUS
  <2>. QED
    BY <2>1, FS_Interval
<1>3. F \subseteq FiniteSubsetsOf(Nat)
  BY <1>2 DEF FiniteSubsetsOf
<1> HIDE DEF F
<1>4. PICK T : IsSmallest(T, F)
  BY <1>1, <1>3, SmallestSet
<1> USE DEF F
<1>5. PICK m \in N : T = 0..m
  BY <1>4 DEF IsSmallest
<1>6. \A n \in N : m <= n
  <2>1. SUFFICES ASSUME NEW n \in N, n < m
                 PROVE  FALSE
    OBVIOUS
  <2>2. 0..n \in F /\ 0..n \subseteq T
    BY <1>5, <2>1
  <2>3. 0..n = 0..m
    BY <1>4, <1>5, <2>2 DEF IsSmallest
  <2>. QED
    BY <2>1, <2>3
<1>. QED
  BY <1>6 DEF Min

-----------------------------------------------------------------------------
(* Order. *)

(* Rows of the table of rules. *)
Rows(S) ==
  /\ \A r \in S : r.id \in Nat /\ r.priority \in Int
  /\ \A r, q \in S : r.id = q.id => r = q

(* Priority and id order the rows strictly. *)
LEMMA PrecedesOrders ==
  ASSUME NEW S, Rows(S)
  PROVE  /\ \A r \in S : ~Precedes(r, r)
         /\ \A r, q \in S : r # q => Precedes(r, q) \/ Precedes(q, r)
         /\ \A p, q, r \in S : Precedes(p, q) /\ Precedes(q, r) => Precedes(p, r)
BY DEF Rows, Precedes

IsLast(m, S) == m \in S /\ \A r \in S \ {m} : Precedes(r, m)

(* A finite set of rows has a last one. *)
LEMMA LastRow ==
  ASSUME NEW S, Rows(S), IsFiniteSet(S), S # {}
  PROVE  \E m \in S : IsLast(m, S)
<1> DEFINE F == {T \in SUBSET S : T # {} /\ ~\E m \in T : IsLast(m, T)}
<1>1. SUFFICES ASSUME F # {} PROVE FALSE
  OBVIOUS
<1>2. F \subseteq FiniteSubsetsOf(S)
  BY FS_Subset DEF FiniteSubsetsOf
<1> HIDE DEF F
<1>3. PICK T : IsSmallest(T, F)
  BY <1>1, <1>2, SmallestSet
<1> USE DEF F, IsSmallest
<1>4. PICK x \in T : TRUE
  BY <1>3
<1>5. T \ {x} # {}
  BY <1>3, <1>4 DEF IsLast
<1>6. PICK m \in T \ {x} : IsLast(m, T \ {x})
  BY <1>3, <1>4, <1>5
<1>7. IsLast(m, T) \/ IsLast(x, T)
  <2>1. CASE Precedes(x, m)
    BY <1>6, <2>1 DEF IsLast
  <2>2. CASE Precedes(m, x)
    <3>1. \A r \in T \ {x} : Precedes(r, x)
      BY <1>3, <1>4, <1>6, <2>2, PrecedesOrders DEF IsLast
    <3>. QED
      BY <1>4, <3>1 DEF IsLast
  <2>. QED
    BY <1>3, <1>4, <1>6, <2>1, <2>2, PrecedesOrders
<1>. QED
  BY <1>3, <1>4, <1>6, <1>7

Sorts(s, S) ==
  /\ s \in [1..Cardinality(S) -> S]
  /\ \A r \in S : \E i \in 1..Cardinality(S) : s[i] = r
  /\ \A i, j \in 1..Cardinality(S) : i < j => Precedes(s[i], s[j])

(* A finite set of rows can be sorted. *)
LEMMA CanSort ==
  ASSUME NEW S, Rows(S), IsFiniteSet(S)
  PROVE  \E s : Sorts(s, S)
<1> DEFINE F == {T \in SUBSET S : ~\E s : Sorts(s, T)}
<1>1. SUFFICES ASSUME F # {} PROVE FALSE
  OBVIOUS
<1>2. \A T \in SUBSET S : IsFiniteSet(T) /\ Rows(T) /\ Cardinality(T) \in Nat
  BY FS_Subset, FS_CardinalityType DEF Rows
<1>3. F \subseteq FiniteSubsetsOf(S)
  BY <1>2 DEF FiniteSubsetsOf
<1> HIDE DEF F
<1>4. PICK T : IsSmallest(T, F)
  BY <1>1, <1>3, SmallestSet
<1> USE DEF F, IsSmallest
<1>5. T # {}
  <2>1. Sorts(<<>>, {})
    BY FS_EmptySet DEF Sorts
  <2>. QED
    BY <1>4, <2>1
<1>6. PICK m \in T : IsLast(m, T)
  BY <1>2, <1>4, <1>5, LastRow
<1> DEFINE R == T \ {m}
           n == Cardinality(R)
<1>7. n \in Nat /\ Cardinality(T) = n + 1
  BY <1>2, <1>4, <1>6, FS_RemoveElement
<1>8. PICK s : Sorts(s, R)
  BY <1>4, <1>6
<1> DEFINE u == [i \in 1..(n + 1) |-> IF i = n + 1 THEN m ELSE s[i]]
<1>9. Sorts(u, T)
  <2>1. s \in [1..n -> R]
    BY <1>8 DEF Sorts
  <2>2. u \in [1..(n + 1) -> T]
    <3>1. ASSUME NEW i \in 1..(n + 1) PROVE u[i] \in T
      <4>1. CASE i = n + 1
        BY <1>6, <4>1 DEF IsLast
      <4>2. CASE i # n + 1
        <5>1. i \in 1..n
          BY <1>7, <4>2
        <5>2. s[i] \in R
          BY <2>1, <5>1
        <5>. QED
          BY <4>2, <5>2
      <4>. QED
        BY <4>1, <4>2
    <3>. QED
      BY <3>1
  <2>3. \A r \in T : \E i \in 1..(n + 1) : u[i] = r
    <3>1. SUFFICES ASSUME NEW r \in T PROVE \E i \in 1..(n + 1) : u[i] = r
      OBVIOUS
    <3>2. CASE r = m
      BY <1>7, <3>2
    <3>3. CASE r # m
      <4>1. PICK i \in 1..n : s[i] = r
        BY <1>8, <3>1, <3>3 DEF Sorts
      <4>2. i \in 1..(n + 1) /\ i # n + 1
        BY <1>7, <4>1
      <4>. QED
        BY <4>1, <4>2
    <3>. QED
      BY <3>2, <3>3
  <2>4. \A i, j \in 1..(n + 1) : i < j => Precedes(u[i], u[j])
    <3>1. SUFFICES ASSUME NEW i \in 1..(n + 1), NEW j \in 1..(n + 1), i < j
                   PROVE  Precedes(u[i], u[j])
      OBVIOUS
    <3>2. i \in 1..n
      BY <1>7, <3>1
    <3>3. u[i] = s[i] /\ s[i] \in R
      BY <1>7, <2>1, <3>1, <3>2
    <3>4. CASE j = n + 1
      BY <1>6, <1>7, <3>1, <3>3, <3>4 DEF IsLast
    <3>5. CASE j # n + 1
      <4>1. j \in 1..n /\ u[j] = s[j]
        BY <1>7, <3>1, <3>5
      <4>. QED
        BY <1>8, <3>1, <3>2, <3>3, <4>1 DEF Sorts
    <3>. QED
      BY <3>4, <3>5
  <2>. QED
    BY <1>7, <2>2, <2>3, <2>4 DEF Sorts
<1>. QED
  BY <1>4, <1>9

(* sorted: every row once, in order. *)
LEMMA OrderedSorts ==
  ASSUME NEW S, Rows(S), IsFiniteSet(S)
  PROVE  Sorts(Ordered(S), S) /\ Cardinality(S) \in Nat
<1> DEFINE D == 1..Cardinality(S)
           InOrder(s) == \A i, j \in DOMAIN s : i < j => Precedes(s[i], s[j])
<1>1. Cardinality(S) \in Nat
  BY FS_CardinalityType
<1>2. PICK s : Sorts(s, S)
  BY CanSort
<1>3. s \in SetToSeqs(S) /\ InOrder(s)
  <2>1. ASSUME NEW i \in D, NEW j \in D, i # j
        PROVE  s[i] # s[j]
    <3>1. s[i] \in S /\ (Precedes(s[i], s[j]) \/ Precedes(s[j], s[i]))
      BY <1>1, <1>2, <2>1 DEF Sorts
    <3>. QED
      BY <3>1, PrecedesOrders
  <2>2. s \in [D -> S] /\ InOrder(s)
    BY <1>2 DEF Sorts
  <2>. QED
    BY <2>1, <2>2 DEF SetToSeqs
<1> DEFINE o == Ordered(S)
<1>4. o \in SetToSeqs(S) /\ InOrder(o)
  BY <1>3, Zenon DEF Ordered
<1>5. o \in [D -> S] /\ \A i, j \in D : i # j => o[i] # o[j]
  BY <1>4 DEF SetToSeqs
<1>6. o \in Surjection(D, S)
  <2>1. o \in Injection(D, S)
    BY <1>5 DEF Injection, IsInjective
  <2>2. IsFiniteSet(D) /\ Cardinality(D) = Cardinality(S)
    BY <1>1, FS_Interval
  <2>. QED
    BY <2>1, <2>2, FS_Injection
<1>7. \A r \in S : \E i \in D : o[i] = r
  BY <1>6 DEF Surjection
<1>. QED
  BY <1>1, <1>4, <1>5, <1>7 DEF Sorts

-----------------------------------------------------------------------------
(* The rule taken. *)

(* FirstReadableWins of a result and the rules it came from. *)
Wins(o, rules) ==
  LET candidates == {r \in rules : r.enabled /\ r.envelope}
      readable == {r \in candidates : Apply(r).ok}
      pool == IF readable = {} THEN candidates ELSE readable
  IN  /\ o.fields.ok <=> readable # {}
      /\ IF pool = {} THEN o.rule = NoRule
         ELSE \E r \in pool : r.id = o.rule /\ \A q \in pool \ {r} : Precedes(r, q)

(* Of sorted rows, the one at the least index of a set is before the rest.   *)
LEMMA LeastIsFirst ==
  ASSUME NEW S, NEW s, Sorts(s, S), Cardinality(S) \in Nat,
         NEW I, I \subseteq DOMAIN s, I # {}
  PROVE  /\ Min(I) \in I
         /\ \A i \in I : s[i] # s[Min(I)] => Precedes(s[Min(I)], s[i])
<1>1. DOMAIN s = 1..Cardinality(S)
  BY DEF Sorts
<1>2. I \subseteq Nat
  BY <1>1
<1>3. Min(I) \in I /\ \A i \in I : Min(I) <= i
  BY <1>2, LeastNat
<1>4. ASSUME NEW i \in I, s[i] # s[Min(I)]
      PROVE  Precedes(s[Min(I)], s[i])
  <2>1. Min(I) < i
    BY <1>2, <1>3, <1>4
  <2>. QED
    BY <1>1, <1>3, <1>4, <2>1 DEF Sorts
<1>. QED
  BY <1>3, <1>4

LEMMA AppliesOrNot ==
  ASSUME NEW r
  PROVE  Apply(r).ok \in BOOLEAN
BY DEF Apply

LEMMA RightRule ==
  ASSUME NEW rules, Rows(rules), IsFiniteSet(rules)
  PROVE  Wins(ParseEmail(rules), rules)
<1> DEFINE S == {r \in rules : r.enabled}
           s == Ordered(S)
           matches == {i \in DOMAIN s : s[i].envelope}
           reads == {i \in matches : Apply(s[i]).ok}
           candidates == {r \in rules : r.enabled /\ r.envelope}
           readable == {r \in candidates : Apply(r).ok}
           o == ParseEmail(rules)
<1>1. Rows(S) /\ IsFiniteSet(S)
  BY FS_Subset DEF Rows
<1>2. Sorts(s, S) /\ Cardinality(S) \in Nat
  BY <1>1, OrderedSorts
<1> HIDE DEF s
<1>3. /\ \A i \in matches : s[i] \in candidates
      /\ \A r \in candidates : \E i \in matches : s[i] = r
  BY <1>2 DEF Sorts
<1>4. /\ \A i \in reads : s[i] \in readable
      /\ \A r \in readable : \E i \in reads : s[i] = r
  BY <1>3
<1>5. o = IF matches = {} THEN Unread(NoRule)
          ELSE IF reads = {} THEN Unread(s[Min(matches)].id)
          ELSE [rule |-> s[Min(reads)].id, fields |-> Apply(s[Min(reads)])]
  BY DEF ParseEmail, Tries, s
<1> HIDE DEF o, matches, reads, candidates, readable
<1>6. CASE matches = {}
  <2>1. candidates = {} /\ readable = {}
    BY <1>3, <1>6 DEF readable
  <2>2. o.rule = NoRule /\ o.fields.ok = FALSE
    BY <1>5, <1>6 DEF Unread
  <2>. QED
    BY <2>1, <2>2 DEF Wins, candidates, readable, o
<1>7. CASE matches # {} /\ reads = {}
  <2>1. readable = {}
    BY <1>4, <1>7
  <2>2. o.rule = s[Min(matches)].id /\ o.fields.ok = FALSE
    BY <1>5, <1>7 DEF Unread
  <2>3. /\ Min(matches) \in matches
        /\ \A i \in matches : s[i] # s[Min(matches)] => Precedes(s[Min(matches)], s[i])
    BY <1>2, <1>7, LeastIsFirst DEF matches
  <2>4. /\ s[Min(matches)] \in candidates
        /\ \A q \in candidates \ {s[Min(matches)]} : Precedes(s[Min(matches)], q)
    BY <1>3, <2>3
  <2>. QED
    BY <2>1, <2>2, <2>4 DEF Wins, candidates, readable, o
<1>8. CASE matches # {} /\ reads # {}
  <2>1. /\ Min(reads) \in reads
        /\ \A i \in reads : s[i] # s[Min(reads)] => Precedes(s[Min(reads)], s[i])
    BY <1>2, <1>8, LeastIsFirst DEF matches, reads
  <2>2. /\ s[Min(reads)] \in readable
        /\ \A q \in readable \ {s[Min(reads)]} : Precedes(s[Min(reads)], q)
    BY <1>4, <2>1
  <2>3. o.rule = s[Min(reads)].id /\ o.fields.ok
    BY <1>5, <1>8, <2>2 DEF readable
  <2>. QED
    BY <2>2, <2>3 DEF Wins, candidates, readable, o
<1>. QED
  BY <1>6, <1>7, <1>8 DEF o

IInv ==
  /\ alert \in Alerts
  /\ Read => outcome[1] = ParseEmail(alert.rules)

(* FirstReadableWins: whatever rules there are, and whatever each of them    *)
(* reads, parse_email takes the first by priority and id that matches the    *)
(* envelope and reads an amount without failing on its date, and else the    *)
(* first that matches.                                                       *)
THEOREM FirstReads == Spec => []FirstReadableWins
<1>1. Init => IInv
  BY DEF Init, IInv, Read
<1>2. IInv /\ [Next]_vars => IInv'
  <2>1. SUFFICES ASSUME IInv, [Next]_vars PROVE IInv'
    OBVIOUS
  <2>2. CASE Parse
    BY <2>1, <2>2 DEF Parse, IInv, Read
  <2>3. CASE UNCHANGED vars
    BY <2>1, <2>3 DEF vars, IInv, Read
  <2>. QED
    BY <2>1, <2>2, <2>3 DEF Next
<1>3. IInv => FirstReadableWins
  <2>1. SUFFICES ASSUME IInv, Read PROVE Wins(outcome[1], alert.rules)
    BY DEF FirstReadableWins, Wins, Candidates, Fields
  <2>2. Rows(alert.rules) /\ IsFiniteSet(alert.rules)
    BY <2>1, ParsingAssumption DEF IInv, Rows
  <2>. QED
    BY <2>1, <2>2, RightRule DEF IInv
<1>. QED
  BY <1>1, <1>2, <1>3, PTL DEF Spec
=============================================================================
