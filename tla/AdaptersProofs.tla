---------------------------- MODULE AdaptersProofs ----------------------------
(***************************************************************************)
(* Proofs about Adapters, for any calls, any bills and any number of       *)
(* changes: whichever of the fifteen adapters it is, what it enters in the *)
(* usage table is what the calls were billed for.                          *)
(*                                                                         *)
(* The proof goes from the files to the rows. Every entry a tool writes is *)
(* one that its adapter reads well: the counters the adapter picks from it *)
(* are those of its calls, or it picks none (the *Writes lemmas). Whatever *)
(* happens to the files keeps them so (one lemma for each step). And of    *)
(* entries that read well an adapter makes sound records only (the *Parse  *)
(* lemmas), in a whole scan too (the *ScanOK lemmas).                      *)
(*                                                                         *)
(* That a call is counted once takes the same way a second time, for keys: *)
(* each call has a mark, every step leaves each entry of the call with it  *)
(* (the *Keyed lemmas), every adapter makes its key of it (the *Owned      *)
(* lemmas), and so does a whole scan (the *ScanKeyed lemmas).              *)
(***************************************************************************)
EXTENDS Adapters, TLAPS, FiniteSetTheorems, SequenceTheorems, WellFoundedInduction

\* A set of natural numbers that is not empty has a least one.
LEMMA LeastNatural ==
  ASSUME NEW T, T \subseteq Nat, T # {}
  PROVE  \E x \in T : \A y \in T : x <= y
<1> DEFINE R == {ss \in Nat \X Nat : ss[1] < ss[2]}
<1>1. IsWellFoundedOn(R, Nat)
    BY NatLessThanWellFounded DEF OpToRel
<1>2. \A x, y \in Nat : ~(<<y, x>> \in R) => x <= y
    OBVIOUS
<1> HIDE DEF R
<1>3. PICK x \in T : \A y \in T : ~ (<<y, x>> \in R)
    BY <1>1, WFMin
<1> QED
    BY <1>2, <1>3

-----------------------------------------------------------------------------
(* Sequences *)

\* A sequence, of whatever elements.
IsSeq(s) == s \in Seq(ToSet(s))

\* A function on 1 .. n is a sequence.
LEMMA SeqIntro ==
  ASSUME NEW n \in Nat, NEW f, DOMAIN f = 1 .. n, f = [i \in 1 .. n |-> f[i]]
  PROVE  IsSeq(f) /\ Len(f) = n
BY DEF IsSeq, ToSet

\* What a sequence is.
LEMMA SeqShape ==
  ASSUME NEW s, IsSeq(s)
  PROVE  /\ Len(s) \in Nat /\ DOMAIN s = 1 .. Len(s) /\ s = [i \in 1 .. Len(s) |-> s[i]]
         /\ \A i \in DOMAIN s : s[i] \in ToSet(s)
BY DEF IsSeq, ToSet

\* The empty sequence.
LEMMA EmptyIsSeq == IsSeq(<<>>) /\ ToSet(<<>>) = {} /\ Len(<<>>) = 0
BY DEF IsSeq, ToSet

\* A sequence of one element.
LEMMA OneIsSeq == ASSUME NEW x PROVE IsSeq(<<x>>) /\ ToSet(<<x>>) = {x}
BY DEF IsSeq, ToSet

\* Two sequences one after the other.
LEMMA ConcatIsSeq ==
  ASSUME NEW s, NEW t, IsSeq(s), IsSeq(t)
  PROVE  /\ IsSeq(s \o t) /\ ToSet(s \o t) = ToSet(s) \cup ToSet(t)
         /\ Len(s \o t) = Len(s) + Len(t)
<1> DEFINE S == ToSet(s) \cup ToSet(t)
<1>1. s \in Seq(S) /\ t \in Seq(S)
    BY SeqMonotonic DEF IsSeq
<1>2. Len(s) \in Nat /\ Len(t) \in Nat /\ DOMAIN s = 1 .. Len(s) /\ DOMAIN t = 1 .. Len(t)
    BY SeqShape
<1>3. /\ s \o t \in Seq(S) /\ Len(s \o t) = Len(s) + Len(t)
      /\ \A i \in 1 .. Len(s) + Len(t) : (s \o t)[i] = IF i <= Len(s) THEN s[i] ELSE t[i - Len(s)]
    BY <1>1, ConcatProperties
<1>4. DOMAIN (s \o t) = 1 .. Len(s) + Len(t)
    BY <1>3, LenProperties
<1>5. ToSet(s \o t) \subseteq S
    BY <1>2, <1>3, <1>4 DEF ToSet
<1>6. ASSUME NEW i \in 1 .. Len(s) PROVE s[i] \in ToSet(s \o t)
    BY <1>2, <1>3, <1>4 DEF ToSet
<1>7. ASSUME NEW i \in 1 .. Len(t) PROVE t[i] \in ToSet(s \o t)
  <2>1. (s \o t)[i + Len(s)] = t[i] /\ i + Len(s) \in 1 .. Len(s) + Len(t)
      BY <1>2, <1>3
  <2> QED
      BY <2>1, <1>4 DEF ToSet
<1>8. S \subseteq ToSet(s \o t)
    BY <1>2, <1>6, <1>7 DEF ToSet
<1>9. ToSet(s \o t) = S
    BY <1>5, <1>8
<1> QED
    BY <1>3, <1>9 DEF IsSeq

\* What FlattenSeq computes with.
Flattens(h, seqs) == h = [i \in 1 .. Len(seqs) |-> IF i = 1 THEN seqs[i] ELSE h[i - 1] \o seqs[i]]

\* There is a function that flattens: the one FlattenSeq is defined by.
LEMMA FlattenExists ==
  ASSUME NEW seqs, Len(seqs) \in Nat
  PROVE  \E h : Flattens(h, seqs)
<1> DEFINE Step(h, i) == IF i = 1 THEN seqs[i] ELSE h[i - 1] \o seqs[i]
           Solved(n) == \E h : h = [i \in 1 .. n |-> Step(h, i)]
           N == {n \in Nat : ~Solved(n)}
<1>1. Solved(0)
  <2> DEFINE h == [i \in 1 .. 0 |-> 0]
  <2>1. h = [i \in 1 .. 0 |-> Step(h, i)]
      OBVIOUS
  <2> QED
      BY <2>1
<1>2. ASSUME NEW n \in Nat, Solved(n) PROVE Solved(n + 1)
  <2>1. PICK h : h = [i \in 1 .. n |-> Step(h, i)]
      BY <1>2
  <2> DEFINE g == [i \in 1 .. n + 1 |-> Step(h, i)]
  <2>2. \A i \in 1 .. n : g[i] = h[i]
    <3> HIDE DEF Step
    <3> QED
        BY <2>1
  <2>3. ASSUME NEW i \in 1 .. n + 1 PROVE Step(h, i) = Step(g, i)
    <3>1. CASE i = 1
        BY <3>1
    <3>2. CASE i # 1
        <4>1. i - 1 \in 1 .. n
            BY <3>2
        <4> HIDE DEF g
        <4>2. g[i - 1] = h[i - 1]
            BY <2>2, <4>1
        <4> QED
            BY <3>2, <4>2
    <3> QED
        BY <3>1, <3>2
  <2>4. g = [i \in 1 .. n + 1 |-> Step(g, i)]
      BY <2>3
  <2> HIDE DEF g
  <2> QED
      BY <2>4
<1>3. \A n \in Nat : Solved(n)
  <2> SUFFICES ASSUME N # {} PROVE FALSE
      OBVIOUS
  <2> HIDE DEF Solved
  <2>1. PICK n \in N : \A m \in N : n <= m
      BY LeastNatural
  <2>2. n # 0 /\ n - 1 \in Nat /\ n - 1 \notin N
      BY <1>1, <2>1
  <2>3. Solved(n - 1 + 1)
      BY <1>2, <2>2
  <2> QED
      BY <2>1, <2>2, <2>3
<1> QED
    BY <1>3 DEF Flattens

\* Where every element is a sequence, what is flattened has the elements of all of them.
LEMMA FlattenIsSeq ==
  ASSUME NEW seqs, IsSeq(seqs), \A i \in DOMAIN seqs : IsSeq(seqs[i])
  PROVE  /\ IsSeq(FlattenSeq(seqs))
         /\ ToSet(FlattenSeq(seqs)) = UNION {ToSet(seqs[i]) : i \in DOMAIN seqs}
<1>1. Len(seqs) \in Nat /\ DOMAIN seqs = 1 .. Len(seqs)
    BY SeqShape
<1>2. CASE Len(seqs) = 0
  <2>1. seqs = <<>> /\ DOMAIN seqs = {}
      BY <1>1, <1>2 DEF IsSeq
  <2>2. FlattenSeq(seqs) = seqs
      BY <1>2 DEF FlattenSeq
  <2> QED
      BY <2>1, <2>2, EmptyIsSeq
<1>3. CASE Len(seqs) # 0
  <2> DEFINE P(h) == h = [i \in 1 .. Len(seqs) |-> IF i = 1 THEN seqs[i] ELSE h[i - 1] \o seqs[i]]
             h0 == CHOOSE h : P(h)
             N == {n \in Nat : n \in 1 .. Len(seqs)
                     /\ ~(/\ IsSeq(h0[n])
                          /\ ToSet(h0[n]) = UNION {ToSet(seqs[i]) : i \in 1 .. n})}
  <2>1. FlattenSeq(seqs) = h0[Len(seqs)]
      BY <1>3 DEF FlattenSeq
  <2>2. P(h0)
    <3>1. \E h : P(h)
        BY <1>1, FlattenExists DEF Flattens
    <3> HIDE DEF P
    <3> QED
        BY <3>1
  <2> HIDE DEF h0
  <2>3. h0[1] = seqs[1]
      BY <1>1, <1>3, <2>2
  <2>4. ASSUME NEW n \in 2 .. Len(seqs) PROVE h0[n] = h0[n - 1] \o seqs[n]
    <3>1. n \in 1 .. Len(seqs) /\ n # 1
        BY <1>1
    <3> QED
        BY <2>2, <3>1
  <2> HIDE DEF P
  <2>5. N = {}
    <3> SUFFICES ASSUME N # {} PROVE FALSE
        OBVIOUS
    <3>1. PICK n \in N : \A m \in N : n <= m
        BY LeastNatural
    <3>2. n # 1
      <4> SUFFICES ASSUME n = 1 PROVE FALSE
          OBVIOUS
      <4>1. UNION {ToSet(seqs[i]) : i \in 1 .. 1} = ToSet(seqs[1])
          OBVIOUS
      <4> QED
          BY <1>1, <2>3, <3>1, <4>1
    <3>3. n \in 2 .. Len(seqs) /\ n - 1 \in Nat /\ n - 1 \in 1 .. Len(seqs) /\ n - 1 \notin N
        BY <3>1, <3>2
    <3>4. IsSeq(h0[n - 1]) /\ ToSet(h0[n - 1]) = UNION {ToSet(seqs[i]) : i \in 1 .. n - 1}
        BY <3>3
    <3>5. IsSeq(seqs[n]) /\ h0[n] = h0[n - 1] \o seqs[n]
        BY <1>1, <2>4, <3>3
    <3>6. IsSeq(h0[n]) /\ ToSet(h0[n]) = ToSet(h0[n - 1]) \cup ToSet(seqs[n])
        BY <3>4, <3>5, ConcatIsSeq
    <3>7. 1 .. n = (1 .. n - 1) \cup {n}
        BY <3>3
    <3>8. ToSet(h0[n]) = UNION {ToSet(seqs[i]) : i \in 1 .. n}
        BY <3>4, <3>6, <3>7
    <3> QED
        BY <3>1, <3>6, <3>8
  <2>6. IsSeq(h0[Len(seqs)]) /\ ToSet(h0[Len(seqs)]) = UNION {ToSet(seqs[i]) : i \in 1 .. Len(seqs)}
      BY <1>1, <1>3, <2>5
  <2> QED
      BY <1>1, <2>1, <2>6
<1> QED
    BY <1>2, <1>3

(* Sums *)
\* The elements of a finite set are taken away one by one: a family of its subsets that
\* has the empty one, and each that is one element larger than another of the family,
\* has them all.
Member(s) == CHOOSE x \in s : TRUE

\* Induction over the subsets of a finite set, one element at a time.
LEMMA OneByOne ==
  ASSUME NEW S, IsFiniteSet(S), NEW T, {} \in T,
         \A s \in SUBSET S : s # {} /\ s \ {Member(s)} \in T => s \in T
  PROVE  \A s \in SUBSET S : s \in T
<1> DEFINE Bad(s) == s \in SUBSET S /\ s \notin T
           Sizes == {n \in Nat : \E s \in SUBSET S : s \notin T /\ Cardinality(s) = n}
<1>1. SUFFICES ASSUME NEW r \in SUBSET S, r \notin T PROVE FALSE
    OBVIOUS
<1>2. \A s \in SUBSET S : IsFiniteSet(s) /\ Cardinality(s) \in Nat
    BY FS_Subset, FS_CardinalityType
<1>3. Cardinality(r) \in Sizes
    BY <1>1, <1>2
<1>4. PICK n \in Sizes : \A m \in Sizes : n <= m
    BY <1>3, LeastNatural
<1>5. PICK s \in SUBSET S : s \notin T /\ Cardinality(s) = n
    BY <1>4
<1>6. s # {} /\ Member(s) \in s
    BY <1>5 DEF Member
<1>7. s \ {Member(s)} \in SUBSET S /\ Cardinality(s \ {Member(s)}) = n - 1 /\ n \in Nat
    BY <1>2, <1>5, <1>6, FS_RemoveElement
<1>8. s \ {Member(s)} \notin T
    BY <1>5, <1>6
<1>9. n - 1 \in Sizes
    BY <1>2, <1>7, <1>8
<1> QED
    BY <1>4, <1>7, <1>9

\* A sum over the subsets of a set: what MapThenSumSet computes with.
IsSum(h, w, S) == h = [s \in SUBSET S |-> IF s = {} THEN 0 ELSE w[Member(s)] + h[s \ {Member(s)}]]

\* There is a function that sums up over the subsets: the one a fold is defined by.
LEMMA SumExists ==
  ASSUME NEW S, IsFiniteSet(S), NEW w
  PROVE  \E h : IsSum(h, w, S)
<1> DEFINE D(n) == {s \in SUBSET S : Cardinality(s) <= n}
           Step(h, s) == IF s = {} THEN 0 ELSE w[Member(s)] + h[s \ {Member(s)}]
           Solved(n) == \E h : h = [s \in D(n) |-> Step(h, s)]
           N == {n \in Nat : ~Solved(n)}
<1>1. \A s \in SUBSET S : IsFiniteSet(s) /\ Cardinality(s) \in Nat /\ (Cardinality(s) = 0 <=> s = {})
    BY FS_Subset, FS_CardinalityType, FS_EmptySet
<1>2. \A s \in SUBSET S : s # {} => s \ {Member(s)} \in SUBSET S /\ Cardinality(s \ {Member(s)}) = Cardinality(s) - 1
  <2> SUFFICES ASSUME NEW s \in SUBSET S, s # {}
               PROVE Cardinality(s \ {Member(s)}) = Cardinality(s) - 1
      OBVIOUS
  <2>1. Member(s) \in s
      BY DEF Member
  <2> QED
      BY <1>1, <2>1, FS_RemoveElement
<1>3. Solved(0)
  <2> DEFINE h == [s \in D(0) |-> 0]
  <2>1. \A s \in D(0) : s = {}
      BY <1>1
  <2>2. h = [s \in D(0) |-> Step(h, s)]
      BY <2>1
  <2> QED
      BY <2>2
<1>4. ASSUME NEW n \in Nat, Solved(n) PROVE Solved(n + 1)
  <2>1. PICK h : h = [s \in D(n) |-> Step(h, s)]
      BY <1>4
  <2> DEFINE g == [s \in D(n + 1) |-> Step(h, s)]
  <2>2. D(n) \subseteq D(n + 1)
      BY <1>1
  <2>3. \A s \in D(n) : g[s] = h[s]
      BY <2>1, <2>2
  <2>4. ASSUME NEW s \in D(n + 1) PROVE Step(h, s) = Step(g, s)
    <3>1. CASE s = {}
        BY <3>1
    <3>2. CASE s # {}
      <4>1. s \ {Member(s)} \in D(n)
          BY <1>1, <1>2, <3>2
      <4> QED
          BY <2>3, <3>2, <4>1
    <3> QED
        BY <3>1, <3>2
  <2>5. g = [s \in D(n + 1) |-> Step(g, s)]
      BY <2>4
  <2> HIDE DEF g
  <2> QED
      BY <2>5
<1>5. \A n \in Nat : Solved(n)
  <2> SUFFICES ASSUME N # {} PROVE FALSE
      OBVIOUS
  <2> HIDE DEF Solved
  <2>1. PICK n \in N : \A m \in N : n <= m
      BY LeastNatural
  <2>2. n # 0 /\ n - 1 \in Nat /\ n - 1 \notin N
      BY <1>3, <2>1
  <2>3. Solved(n - 1 + 1)
      BY <1>4, <2>2
  <2> QED
      BY <2>1, <2>2, <2>3
<1>6. D(Cardinality(S)) = SUBSET S /\ Cardinality(S) \in Nat
    BY <1>1, FS_Subset
<1> QED
    BY <1>5, <1>6 DEF IsSum

\* And there is but one.
LEMMA SumsAgree ==
  ASSUME NEW S, IsFiniteSet(S), NEW w, NEW h, NEW g, IsSum(h, w, S), IsSum(g, w, S)
  PROVE  h[S] = g[S]
<1> DEFINE T == {s \in SUBSET S : h[s] = g[s]}
<1>1. {} \in T
    BY DEF IsSum
<1>2. ASSUME NEW s \in SUBSET S, s # {}, s \ {Member(s)} \in T PROVE s \in T
    BY <1>2 DEF IsSum
<1>3. S \in T
  <2> HIDE DEF T
  <2> QED
      BY <1>1, <1>2, OneByOne
<1> QED
    BY <1>3

\* A sum of natural numbers.
LEMMA SumIsNatural ==
  ASSUME NEW S, IsFiniteSet(S), NEW w, NEW h, IsSum(h, w, S), \A c \in S : w[c] \in Nat
  PROVE  h[S] \in Nat
<1> DEFINE T == {s \in SUBSET S : h[s] \in Nat}
<1>1. {} \in T
    BY DEF IsSum
<1>2. ASSUME NEW s \in SUBSET S, s # {}, s \ {Member(s)} \in T PROVE s \in T
  <2>1. Member(s) \in S
      BY <1>2 DEF Member
  <2>2. h[s] = w[Member(s)] + h[s \ {Member(s)}]
      BY <1>2 DEF IsSum
  <2> QED
      BY <1>2, <2>1, <2>2
<1>3. S \in T
  <2> HIDE DEF T
  <2> QED
      BY <1>1, <1>2, OneByOne
<1> QED
    BY <1>3

\* A sum of one.
LEMMA SumOfOne ==
  ASSUME NEW c, NEW w, w[c] \in Nat, NEW h, IsSum(h, w, {c})
  PROVE  h[{c}] = w[c]
<1>1. Member({c}) = c
    BY DEF Member
<1>2. h[{}] = 0
    BY DEF IsSum
<1>3. h[{c}] = w[c] + h[{c} \ {c}]
    BY <1>1 DEF IsSum
<1>4. {c} \ {c} = {}
    OBVIOUS
<1> QED
    BY <1>2, <1>3, <1>4

\* The calls the tool may make.
Call == ToSet(Calls)

\* What a call was billed for, of what the store of its tool says.
BilledTo(t, c) == Total(Bill[c]) - (IF t = "codearts" THEN Bill[c].reasoning ELSE 0)

\* What a call is billed for.
LEMMA BillIsTyped ==
  ASSUME NEW c \in Call
  PROVE  /\ Bill[c].fresh \in Nat /\ Bill[c].read \in Nat /\ Bill[c].write \in Nat
         /\ Bill[c].output \in Nat /\ Bill[c].reasoning \in Nat
         /\ Total(Bill[c]) \in Nat /\ \A t : BilledTo(t, c) \in Nat
<1>1. /\ Bill[c].fresh \in Nat /\ Bill[c].read \in Nat /\ Bill[c].write \in Nat
      /\ Bill[c].output \in Nat /\ Bill[c].reasoning \in Nat
    BY CallsAreBilled DEF Call
<1> QED
    BY <1>1 DEF Total, BilledTo

\* What a set of calls was billed for, altogether and for what was read from the cache.
BilledSum(t, S) == MapThenSumSet(LAMBDA c : BilledTo(t, c), S)
\* What some calls read from the cache, and what they were billed for in all.
ReadSum(S) == MapThenSumSet(LAMBDA c : Bill[c].read, S)
TotalSum(S) == MapThenSumSet(LAMBDA c : Total(Bill[c]), S)

\* The fold over the calls of a row is a sum.
LEMMA BilledSumIs ==
  ASSUME NEW t, NEW S \in SUBSET Call, IsFiniteSet(S)
  PROVE  \E h : IsSum(h, [c \in S |-> BilledTo(t, c)], S) /\ BilledSum(t, S) = h[S]
<1> DEFINE w == [c \in S |-> BilledTo(t, c)]
           P(h) == h = [s \in SUBSET S |-> IF s = {} THEN 0
                          ELSE BilledTo(t, CHOOSE y \in s : TRUE) + h[s \ {CHOOSE y \in s : TRUE}]]
<1>1. \A s \in SUBSET S : s # {} => w[Member(s)] = BilledTo(t, CHOOSE y \in s : TRUE)
    BY DEF Member
<1>2. \A h : P(h) <=> IsSum(h, w, S)
    BY <1>1 DEF IsSum, Member
<1>3. \E h : IsSum(h, w, S)
    BY SumExists
<1>4. BilledSum(t, S) = (CHOOSE h : P(h))[S]
    BY DEF BilledSum, MapThenSumSet, MapThenFoldSet
<1> HIDE DEF P, w
<1>5. P(CHOOSE h : P(h))
    BY <1>2, <1>3
<1> QED
    BY <1>2, <1>4, <1>5 DEF w

\* So is the one over what they read from the cache,
LEMMA ReadSumIs ==
  ASSUME NEW S \in SUBSET Call, IsFiniteSet(S)
  PROVE  \E h : IsSum(h, [c \in S |-> Bill[c].read], S) /\ ReadSum(S) = h[S]
<1> DEFINE w == [c \in S |-> Bill[c].read]
           P(h) == h = [s \in SUBSET S |-> IF s = {} THEN 0
                          ELSE Bill[CHOOSE y \in s : TRUE].read + h[s \ {CHOOSE y \in s : TRUE}]]
<1>1. \A s \in SUBSET S : s # {} => w[Member(s)] = Bill[CHOOSE y \in s : TRUE].read
    BY DEF Member
<1>2. \A h : P(h) <=> IsSum(h, w, S)
    BY <1>1 DEF IsSum, Member
<1>3. \E h : IsSum(h, w, S)
    BY SumExists
<1>4. ReadSum(S) = (CHOOSE h : P(h))[S]
    BY DEF ReadSum, MapThenSumSet, MapThenFoldSet
<1> HIDE DEF P, w
<1>5. P(CHOOSE h : P(h))
    BY <1>2, <1>3
<1> QED
    BY <1>2, <1>4, <1>5 DEF w

\* and the one a ledger is made from.
LEMMA TotalSumIs ==
  ASSUME NEW S \in SUBSET Call, IsFiniteSet(S)
  PROVE  \E h : IsSum(h, [c \in S |-> Total(Bill[c])], S) /\ TotalSum(S) = h[S]
<1> DEFINE w == [c \in S |-> Total(Bill[c])]
           P(h) == h = [s \in SUBSET S |-> IF s = {} THEN 0
                          ELSE Total(Bill[CHOOSE y \in s : TRUE]) + h[s \ {CHOOSE y \in s : TRUE}]]
<1>1. \A s \in SUBSET S : s # {} => w[Member(s)] = Total(Bill[CHOOSE y \in s : TRUE])
    BY DEF Member
<1>2. \A h : P(h) <=> IsSum(h, w, S)
    BY <1>1 DEF IsSum, Member
<1>3. \E h : IsSum(h, w, S)
    BY SumExists
<1>4. TotalSum(S) = (CHOOSE h : P(h))[S]
    BY DEF TotalSum, MapThenSumSet, MapThenFoldSet
<1> HIDE DEF P, w
<1>5. P(CHOOSE h : P(h))
    BY <1>2, <1>3
<1> QED
    BY <1>2, <1>4, <1>5 DEF w

-----------------------------------------------------------------------------
(* Records *)

\* Counters that are what those calls were billed for.
Fair(t, tokens, S) ==
    TotalTokens(tokens) = BilledSum(t, S) /\ (tokens.read # 0 => tokens.read = ReadSum(S))

\* The same of counters that make a record.
Matches(t, tokens, S) == TotalTokens(tokens) # 0 => Fair(t, tokens, S)

\* One call's counters.
LEMMA FairOne ==
  ASSUME NEW c \in Call, NEW t, NEW n, TotalTokens(n) = BilledTo(t, c),
         n.read \in {0, Bill[c].read}
  PROVE  Matches(t, n, {c})
<1>1. {c} \in SUBSET Call /\ IsFiniteSet({c})
    BY FS_Singleton
<1> DEFINE w == [d \in {c} |-> BilledTo(t, d)]
           v == [d \in {c} |-> Bill[d].read]
<1>2. PICK h : IsSum(h, w, {c}) /\ BilledSum(t, {c}) = h[{c}]
    BY <1>1, BilledSumIs
<1>3. PICK g : IsSum(g, v, {c}) /\ ReadSum({c}) = g[{c}]
    BY <1>1, ReadSumIs
<1>4. w[c] = BilledTo(t, c) /\ w[c] \in Nat /\ v[c] = Bill[c].read /\ v[c] \in Nat
    BY BillIsTyped
<1> HIDE DEF w, v
<1> QED
    BY <1>2, <1>3, <1>4, SumOfOne DEF Fair, Matches

\* WorkBuddy's figure for a whole session.
LEMMA FairSession ==
  ASSUME NEW S \in SUBSET Call, IsFiniteSet(S), NEW t, t # "codearts"
  PROVE  TotalSum(S) \in Nat /\ Matches(t, Tokens(TotalSum(S), 0, 0, 0), S)
<1> DEFINE w == [c \in S |-> BilledTo(t, c)]
           v == [c \in S |-> Total(Bill[c])]
<1>1. PICK h : IsSum(h, w, S) /\ BilledSum(t, S) = h[S]
    BY BilledSumIs
<1>2. PICK g : IsSum(g, v, S) /\ TotalSum(S) = g[S]
    BY TotalSumIs
<1>3. \A c \in S : v[c] \in Nat
    BY BillIsTyped
<1>4. \A c \in S : w[c] = v[c]
    BY BillIsTyped DEF BilledTo
<1>5. w = v
    BY <1>4
<1> HIDE DEF w, v
<1>6. g[S] \in Nat /\ h[S] = g[S]
    BY <1>1, <1>2, <1>3, <1>5, SumIsNatural, SumsAgree
<1> QED
    BY <1>1, <1>2, <1>6 DEF Fair, Matches, Tokens, TotalTokens

\* What a record consists of before it is noted which file it is from.
RecordFields == {"key", "tokens", "session", "project", "model", "at", "calls", "truth"}

\* A record stands for calls of the tool, and says of them what they were billed for.
Sound(t, r) == r.calls \subseteq Call /\ Fair(t, r.tokens, r.calls)

\* An adapter emits sound records.
AllSound(t, out) == IsSeq(out) /\ \A r \in ToSet(out) : DOMAIN r = RecordFields /\ Sound(t, r)

\* An adapter may emit nothing.
LEMMA NothingIsSound == ASSUME NEW t PROVE AllSound(t, <<>>)
BY EmptyIsSeq DEF AllSound

\* A record is emitted with the calls of its entry, or not at all.
LEMMA EmitSound ==
  ASSUME NEW t, NEW key, NEW tokens, NEW session, NEW project, NEW md, NEW at, NEW entry,
         Matches(t, tokens, entry.calls), entry.calls \subseteq Call
  PROVE  AllSound(t, Emit(key, tokens, session, project, md, at, entry))
<1> DEFINE r == [key |-> key, tokens |-> tokens, session |-> session, project |-> project,
                 model |-> md, at |-> at, calls |-> entry.calls, truth |-> entry.truth]
<1>1. CASE TotalTokens(tokens) = 0
    BY <1>1, NothingIsSound DEF Emit
<1>2. CASE TotalTokens(tokens) # 0
  <2>1. Emit(key, tokens, session, project, md, at, entry) = <<r>>
      BY <1>2 DEF Emit
  <2>2. DOMAIN r = RecordFields /\ r.calls = entry.calls /\ r.tokens = tokens
      BY DEF RecordFields
  <2> HIDE DEF r
  <2>3. Sound(t, r)
      BY <1>2, <2>2 DEF Sound, Matches
  <2> QED
      BY <2>1, <2>2, <2>3, OneIsSeq DEF AllSound
<1> QED
    BY <1>1, <1>2

\* What is sound piece by piece is sound together.
LEMMA FlattenSound ==
  ASSUME NEW t, NEW n \in Nat, NEW seqs, DOMAIN seqs = 1 .. n, seqs = [i \in 1 .. n |-> seqs[i]],
         \A i \in 1 .. n : AllSound(t, seqs[i])
  PROVE  AllSound(t, FlattenSeq(seqs))
<1>1. IsSeq(seqs)
    BY SeqIntro
<1>2. \A i \in DOMAIN seqs : IsSeq(seqs[i])
    BY DEF AllSound
<1>3. /\ IsSeq(FlattenSeq(seqs))
      /\ ToSet(FlattenSeq(seqs)) = UNION {ToSet(seqs[i]) : i \in DOMAIN seqs}
    BY <1>1, <1>2, FlattenIsSeq
<1> QED
    BY <1>3 DEF AllSound

\* What is sound in two parts is sound.
LEMMA ConcatSound ==
  ASSUME NEW t, NEW a, NEW b, AllSound(t, a), AllSound(t, b)
  PROVE  AllSound(t, a \o b)
BY ConcatIsSeq DEF AllSound

-----------------------------------------------------------------------------
(* Scans *)

\* The files of a scan in some order.
LEMMA SetToSeqIs ==
  ASSUME NEW S, IsFiniteSet(S)
  PROVE  IsSeq(SetToSeq(S)) /\ ToSet(SetToSeq(S)) = S
<1> DEFINE n == Cardinality(S)
           s == SetToSeq(S)
<1>1. n \in Nat /\ ExistsBijection(1 .. n, S)
    BY FS_CardinalityType
<1>2. PICK f \in Bijection(1 .. n, S) : TRUE
    BY <1>1 DEF ExistsBijection
<1>3. \E g \in [1 .. n -> S] : IsInjective(g)
    BY <1>2 DEF Bijection, Injection
<1>4. s \in [1 .. n -> S] /\ IsInjective(s)
    BY <1>3 DEF SetToSeq
<1>5. s \in Injection(1 .. n, S)
    BY <1>4 DEF Injection
<1>6. IsFiniteSet(1 .. n) /\ Cardinality(1 .. n) = n
    BY <1>1, FS_Interval
<1>7. s \in Surjection(1 .. n, S)
    BY <1>5, <1>6, FS_Injection
<1> HIDE DEF s
<1>8. \A x \in S : \E i \in 1 .. n : s[i] = x
    BY <1>7 DEF Surjection
<1>9. DOMAIN s = 1 .. n /\ s = [i \in 1 .. n |-> s[i]] /\ \A i \in 1 .. n : s[i] \in S
    BY <1>4
<1>10. IsSeq(s)
    BY <1>1, <1>9, SeqIntro
<1>11. ToSet(s) = S
    BY <1>8, <1>9 DEF ToSet
<1> QED
    BY <1>10, <1>11 DEF s

\* What a scan has read: the records of every file that was parsed, with the file.
LEMMA ScanReads ==
  ASSUME NEW parsed, IsFiniteSet(DOMAIN parsed), \A p \in DOMAIN parsed : IsSeq(parsed[p])
  PROVE  /\ IsSeq(FullScan(parsed).records)
         /\ ToSet(FullScan(parsed).records)
              = UNION {{q ++ [file |-> p] : q \in ToSet(parsed[p])} : p \in DOMAIN parsed}
<1> DEFINE paths == SetToSeq(DOMAIN parsed)
           read(path) == [i \in DOMAIN parsed[path] |-> parsed[path][i] ++ [file |-> path]]
           reads == [i \in DOMAIN paths |-> read(paths[i])]
<1>1. IsSeq(paths) /\ ToSet(paths) = DOMAIN parsed
    BY SetToSeqIs
<1>2. FullScan(parsed).records = FlattenSeq(reads)
    BY DEF FullScan
<1>3. ASSUME NEW p \in DOMAIN parsed
      PROVE  IsSeq(read(p)) /\ ToSet(read(p)) = {q ++ [file |-> p] : q \in ToSet(parsed[p])}
  <2>1. Len(parsed[p]) \in Nat /\ DOMAIN parsed[p] = 1 .. Len(parsed[p])
      BY SeqShape
  <2> DEFINE s == read(p)
  <2>2. DOMAIN s = 1 .. Len(parsed[p]) /\ \A i \in DOMAIN s : s[i] = parsed[p][i] ++ [file |-> p]
      BY <2>1
  <2>3. s = [i \in 1 .. Len(parsed[p]) |-> s[i]]
      BY <2>1
  <2> HIDE DEF s
  <2>4. IsSeq(s)
      BY <2>1, <2>2, <2>3, SeqIntro
  <2>5. ToSet(s) = {q ++ [file |-> p] : q \in ToSet(parsed[p])}
      BY <2>1, <2>2 DEF ToSet
  <2> QED
      BY <2>4, <2>5 DEF s
<1> HIDE DEF paths, read
<1>4. Len(paths) \in Nat /\ DOMAIN paths = 1 .. Len(paths)
    BY <1>1, SeqShape
<1>5. DOMAIN reads = 1 .. Len(paths) /\ reads = [i \in 1 .. Len(paths) |-> reads[i]]
      /\ \A i \in DOMAIN paths : reads[i] = read(paths[i])
    BY <1>4
<1> HIDE DEF reads
<1>6. IsSeq(reads)
    BY <1>4, <1>5, SeqIntro
<1>7. \A i \in DOMAIN paths : paths[i] \in DOMAIN parsed
    BY <1>1 DEF ToSet
<1>8. \A i \in DOMAIN reads : IsSeq(reads[i])
    BY <1>3, <1>4, <1>5, <1>7
<1>9. /\ IsSeq(FlattenSeq(reads))
      /\ ToSet(FlattenSeq(reads)) = UNION {ToSet(reads[i]) : i \in DOMAIN reads}
    BY <1>6, <1>8, FlattenIsSeq
<1>10. UNION {ToSet(reads[i]) : i \in DOMAIN reads} = UNION {ToSet(read(p)) : p \in DOMAIN parsed}
  <2>1. \A i \in DOMAIN reads : paths[i] \in DOMAIN parsed /\ reads[i] = read(paths[i])
      BY <1>4, <1>5, <1>7
  <2>2. \A p \in DOMAIN parsed : \E i \in DOMAIN reads : paths[i] = p
      BY <1>1, <1>4, <1>5 DEF ToSet
  <2> QED
      BY <2>1, <2>2
<1> DEFINE R(p) == ToSet(read(p))
           Q(p) == {q ++ [file |-> p] : q \in ToSet(parsed[p])}
<1>11. UNION {R(p) : p \in DOMAIN parsed} = UNION {Q(p) : p \in DOMAIN parsed}
  <2>1. \A p \in DOMAIN parsed : R(p) = Q(p)
      BY <1>3
  <2> HIDE DEF R, Q
  <2> QED
      BY <2>1
<1> QED
    BY <1>2, <1>9, <1>10, <1>11
-----------------------------------------------------------------------------
(* The inductive invariant. t is the tool: an entry of one of its files, what is in a   *)
(* file, and the files, in terms of what its adapter reads there.                       *)

\* The files whose content the adapter parses.
IsParsed(t, path) ==
    CASE t = "codebuddy" -> IsJsonl(path) \/ IsIndex(path)
      [] t = "atomcode" -> path.ext \in {"meta", "json", "index"}
      [] t = "antigravity" -> IsStoreFile(path)
      [] OTHER -> TRUE

\* A usage object of AtomCode, where it has counters.
AtomUsage(t, u, x) ==
    u.tokens # None =>
        Matches(t, Tokens(u.tokens[1].input, u.tokens[1].output, u.tokens[1].cached_input, 0),
                x.calls)

\* The counters an adapter reads of an entry are what its calls were billed for.
ReadsWell(t, path, x) ==
    CASE t = "claude" ->
           x.kind = "assistant" /\ x.usage # None =>
             LET u == x.usage[1]
             IN  Matches(t, Tokens(u.input_tokens, u.output_tokens, u.cache_read_input_tokens,
                                   u.cache_creation_input_tokens), x.calls)
      [] t = "codex" ->
           x.kind = "token_count" /\ x.usage # None =>
             Matches(t, CodexTokens(x.usage[1]), x.calls)
      [] t = "gemini" ->
           x.kind = "message" /\ x.usageMetadata # None =>
             LET u == x.usageMetadata[1]
             IN  Matches(t, Tokens(Minus(u.prompt, u.cached), u.candidates, u.cached, 0), x.calls)
      [] t = "antigravity" ->
           x.kind = "step" /\ x.tokens # None =>
             LET gen == DecodeGenMetadata(x.tokens[1])
             IN  gen # None => Matches(t, gen[1].tokens, x.calls)
      [] t = "codebuddy" /\ IsIndex(path) ->
           x.usage # None =>
             LET u == x.usage[1]
             IN  Matches(t, Tokens(Minus(Minus(u.input, u.cache), u.write), u.output, u.cache,
                                   u.write), x.calls)
      [] t = "codebuddy" /\ ~IsIndex(path) ->
           IsAssistantSide(x) => Matches(t, CodebuddyTokens(x), x.calls)
      [] t = "workbuddy" /\ IsLedger(path) -> Matches(t, Tokens(x.used, 0, 0, 0), x.calls)
      [] t = "workbuddy" /\ ~IsLedger(path) ->
           IsAssistantSide(x) => Matches(t, WorkbuddyTokens(x), x.calls)
      [] t \in {"opencode", "qoder", "teleagent"} ->
           x.kind # "bad" /\ x.role = "assistant" /\ x.tokens # None =>
             Matches(t, MessageTokens(x.tokens[1]), x.calls)
      [] t = "codearts" ->
           x.kind # "bad" /\ x.tokens # None =>
             LET n == x.tokens[1]
             IN  Matches(t, Tokens(n.input, n.output, n.read, n.write), x.calls)
      [] t = "openclaw" ->
           x.kind = "message" /\ x.role = "assistant" => Matches(t, ParseUsage(x.usage), x.calls)
      [] t = "deepseek" ->
           x.kind = "assistant/message" /\ x.usage # None =>
             LET u == x.usage[1]
             IN  Matches(t, Tokens(u.input, u.output, u.cache_read, u.cache_write), x.calls)
      [] t = "pi" ->
           PiIsBilled(x) /\ x.usage # None =>
             LET u == x.usage[1]
             IN  Matches(t, Tokens(u.input, u.output, u.cache_read, u.cache_write), x.calls)
      [] t = "trae" -> Matches(t, x.tokens, x.calls)
      [] t = "atomcode" ->
           /\ x.kind = "turn" /\ x.model_usage # <<>> =>
                \E u \in {x.model_usage[1]} : x.model_usage = <<u>> /\ AtomUsage(t, u, x)
           /\ x.kind = "turn" /\ x.model_usage = <<>> =>
                /\ Matches(t, Tokens(OrElse(x.used_tokens, 0), 0, 0, 0), x.calls)
                /\ path.ext # "json" => x.total_tokens = None
           /\ x.kind = "turn" /\ path.ext = "json" =>
                /\ x.model_usage = <<>>
                /\ Matches(t, Tokens(OrElse(x.total_tokens, 0), 0, 0, 0), x.calls)
           /\ x.kind = "detached" => path.ext = "index" /\ AtomUsage(t, x.usage, x)

\* An entry as it stays, and the row of a call in flight.
Settled(t, path, x) ==
    /\ "final" \notin DOMAIN x /\ x.kind # "torn"
    /\ x.calls \subseteq Call
    /\ ReadsWell(t, path, x)

\* The row of a call in flight reads as nothing, and the row it becomes reads well.
Pending(t, path, x) ==
    /\ "final" \in DOMAIN x /\ x.kind # "torn" /\ x.kind # "bad"
    /\ x.calls = {}
    /\ ReadsWell(t, path, x)
    /\ Settled(t, path, x.final) /\ x.final.kind # "bad"

\* A file is read as one document, or line by line.
IsDocument(t, path) == t \in {"gemini", "trae", "atomcode"} \/ IsIndex(path)
\* The tools with a store.
IsStored(t) == t \in {"opencode", "qoder", "codearts", "teleagent", "antigravity"}

\* An entry as an adapter may meet it.
GoodEntry(t, path, x) == Settled(t, path, x) \/ (IsStored(t) /\ Pending(t, path, x))

\* An entry that is not the first of its file.
Fits(t, path, x) ==
    /\ t = "atomcode" => x.kind \in {"turn", "detached"}
    /\ t = "opencode" /\ IsLegacyMessage(path) =>
          x.kind # "bad" /\ {"role", "tokens", "calls"} \subseteq DOMAIN x

\* The content of a file that is not being rewritten, or will be of one.
OpenContent(t, path, content) ==
    /\ IsSeq(content) /\ \A i \in DOMAIN content : GoodEntry(t, path, content[i])
    /\ t = "atomcode" => content # <<>> /\ content[1].kind = "header"
    /\ \A i \in DOMAIN content : i # 1 \/ t = "opencode" => Fits(t, path, content[i])

\* A store may have no rows, a file written anew no lines.
MayBeEmpty(t, path) == (IsStored(t) /\ IsStoreFile(path)) \/ (t = "codebuddy" /\ IsJsonl(path))

\* The content of a file as its tool leaves it.
WholeContent(t, path, content) ==
    OpenContent(t, path, content) /\ (content = <<>> => MayBeEmpty(t, path))

\* The same while it is being written.
Halved(t, path, whole) ==
    IF IsDocument(t, path) THEN <<Torn(whole)>> ELSE Append(Front(whole), Torn(whole))

\* A file that is being written: what is torn has the whole.
TornContent(t, path, content) ==
    /\ content # <<>>
    /\ \E whole \in {Last(content).whole} :
        /\ IsDocument(t, path) \/ path.ext = "jsonl.zstd"
        /\ WholeContent(t, path, whole) /\ content = Halved(t, path, whole)

\* What an adapter may find in a file.
GoodContent(t, path, content) ==
    WholeContent(t, path, content) \/ TornContent(t, path, content)

\* A path has the four parts it was made of.
IsPath(p) == p = Path(p.root, p.dir, p.stem, p.ext)

\* Where a file can be: a store of OpenCode is not among the messages of earlier versions.
Placed(t, p) == IsPath(p) /\ (t = "opencode" /\ IsStoreFile(p) => p.dir # "storage/message")

\* A file that its adapter can make sense of.
FileOK(t, p, content) == Placed(t, p) /\ (IsParsed(t, p) => GoodContent(t, p, content))

\* The files of a tool: finitely many, each where it may be.
FilesOK(t, fs) == IsFiniteSet(DOMAIN fs) /\ \A p \in DOMAIN fs : FileOK(t, p, fs[p])

\* Every row is sound and no key is there twice.
RowsOK(t, rs) ==
    /\ \A r \in rs : r.calls \subseteq Call /\ Fair(t, r.tokens, r.calls)
    /\ \A r, q \in rs : r.key = q.key => r = q

\* The adapters that keep what they saw.
Incremental == {"claude", "codex", "codebuddy", "workbuddy", "pi"}

\* What the scanner keeps between scans.
ScanOK ==
    /\ Len(roots) <= 1 /\ Len(fp) <= 1
    /\ DOMAIN known \subseteq DOMAIN files
    /\ known # <<>> => tool \in Incremental

\* The invariant.
BillInv ==
    /\ tool \in Tools /\ homes \subseteq {"home", "wsl"}
    /\ made \in 0 .. Len(Calls) /\ turns \in 0 .. MaxTurns
    /\ FilesOK(tool, files)
    /\ RowsOK(tool, rows)
    /\ ScanOK
-----------------------------------------------------------------------------
(* Parsing: where entries read well, what an adapter makes of a file is sound. *)

\* Entries that may be billed as their adapter reads them.
LinesOK(t, path, content) ==
    /\ IsSeq(content)
    /\ \A i \in DOMAIN content : content[i].calls \subseteq Call /\ ReadsWell(t, path, content[i])

\* The records of the entries of one file.
LEMMA FlattenFrom ==
  ASSUME NEW t, NEW content, IsSeq(content), NEW seqs, seqs = [i \in DOMAIN content |-> seqs[i]],
         \A i \in DOMAIN content : AllSound(t, seqs[i])
  PROVE  AllSound(t, FlattenSeq(seqs))
<1>1. Len(content) \in Nat /\ DOMAIN content = 1 .. Len(content)
    BY SeqShape
<1>2. DOMAIN seqs = 1 .. Len(content) /\ seqs = [i \in 1 .. Len(content) |-> seqs[i]]
    BY <1>1
<1> QED
    BY <1>1, <1>2, FlattenSound

\* What the adapter for Claude makes of a file.
LEMMA ClaudeParse ==
  ASSUME NEW path, NEW content, LinesOK("claude", path, content)
  PROVE  AllSound("claude", ClaudeFile(path, content))
<1> DEFINE seqs == [i \in DOMAIN content |-> ClaudeRecord(path, content[i], i)]
<1>1. IsSeq(content)
    BY DEF LinesOK
<1>2. ASSUME NEW i \in DOMAIN content PROVE AllSound("claude", ClaudeRecord(path, content[i], i))
    BY EmitSound, NothingIsSound DEF LinesOK, ReadsWell, ClaudeRecord
<1>3. \A i \in DOMAIN content : AllSound("claude", seqs[i])
    BY <1>2
<1>4. seqs = [i \in DOMAIN content |-> seqs[i]]
    OBVIOUS
<1>5. ClaudeFile(path, content) = FlattenSeq(seqs)
    BY DEF ClaudeFile
<1> HIDE DEF seqs
<1> QED
    BY <1>1, <1>3, <1>4, <1>5, FlattenFrom

\* What the adapter for Codex makes of a file.
LEMMA CodexParse ==
  ASSUME NEW path, NEW content, LinesOK("codex", path, content)
  PROVE  AllSound("codex", CodexFile(path, content))
<1> DEFINE seqs == [i \in DOMAIN content |-> CodexLine(path, content, i)]
<1>1. IsSeq(content)
    BY DEF LinesOK
<1>2. ASSUME NEW i \in DOMAIN content PROVE AllSound("codex", CodexLine(path, content, i))
    BY EmitSound, NothingIsSound DEF LinesOK, ReadsWell, CodexLine
<1>3. \A i \in DOMAIN content : AllSound("codex", seqs[i])
    BY <1>2
<1>4. seqs = [i \in DOMAIN content |-> seqs[i]]
    OBVIOUS
<1>5. CodexFile(path, content) = FlattenSeq(seqs)
    BY DEF CodexFile
<1> HIDE DEF seqs
<1> QED
    BY <1>1, <1>3, <1>4, <1>5, FlattenFrom

\* What the adapter for CodeBuddy makes of a file.
LEMMA CodebuddyParse ==
  ASSUME NEW path, NEW content, LinesOK("codebuddy", path, content), ~IsIndex(path)
  PROVE  AllSound("codebuddy", CodebuddyFile(path, content))
<1> DEFINE seqs == [i \in DOMAIN content |-> CodebuddyRecord(path, content[i], i)]
<1>1. IsSeq(content)
    BY DEF LinesOK
<1>2. ASSUME NEW i \in DOMAIN content PROVE AllSound("codebuddy", CodebuddyRecord(path, content[i], i))
    BY EmitSound, NothingIsSound DEF LinesOK, ReadsWell, CodebuddyRecord
<1>3. \A i \in DOMAIN content : AllSound("codebuddy", seqs[i])
    BY <1>2
<1>4. seqs = [i \in DOMAIN content |-> seqs[i]]
    OBVIOUS
<1>5. CodebuddyFile(path, content) = FlattenSeq(seqs)
    BY DEF CodebuddyFile
<1> HIDE DEF seqs
<1> QED
    BY <1>1, <1>3, <1>4, <1>5, FlattenFrom

\* What the adapter for WorkBuddy makes of a file.
LEMMA WorkbuddyParse ==
  ASSUME NEW path, NEW content, LinesOK("workbuddy", path, content), ~IsLedger(path)
  PROVE  AllSound("workbuddy", WorkbuddyFile(path, content))
<1> DEFINE seqs == [i \in DOMAIN content |-> WorkbuddyRecord(path, content[i], i)]
<1>1. IsSeq(content)
    BY DEF LinesOK
<1>2. ASSUME NEW i \in DOMAIN content PROVE AllSound("workbuddy", WorkbuddyRecord(path, content[i], i))
    BY EmitSound, NothingIsSound DEF LinesOK, ReadsWell, WorkbuddyRecord
<1>3. \A i \in DOMAIN content : AllSound("workbuddy", seqs[i])
    BY <1>2
<1>4. seqs = [i \in DOMAIN content |-> seqs[i]]
    OBVIOUS
<1>5. WorkbuddyFile(path, content) = FlattenSeq(seqs)
    BY DEF WorkbuddyFile
<1> HIDE DEF seqs
<1> QED
    BY <1>1, <1>3, <1>4, <1>5, FlattenFrom

\* What the adapter for Pi makes of a file.
LEMMA PiParse ==
  ASSUME NEW path, NEW content, LinesOK("pi", path, content)
  PROVE  AllSound("pi", PiFile(path, content))
<1> DEFINE seqs == [i \in DOMAIN content |-> PiLine(path, content, i)]
<1>1. IsSeq(content)
    BY DEF LinesOK
<1>2. ASSUME NEW i \in DOMAIN content PROVE AllSound("pi", PiLine(path, content, i))
    BY EmitSound, NothingIsSound DEF LinesOK, ReadsWell, PiLine
<1>3. \A i \in DOMAIN content : AllSound("pi", seqs[i])
    BY <1>2
<1>4. seqs = [i \in DOMAIN content |-> seqs[i]]
    OBVIOUS
<1>5. PiFile(path, content) = FlattenSeq(seqs)
    BY DEF PiFile
<1> HIDE DEF seqs
<1> QED
    BY <1>1, <1>3, <1>4, <1>5, FlattenFrom

\* What the adapter for OpenClaw makes of a file.
LEMMA OpenClawParse ==
  ASSUME NEW path, NEW content, LinesOK("openclaw", path, content)
  PROVE  AllSound("openclaw", OpenClawFile(path, content))
<1> DEFINE seqs == [i \in DOMAIN content |-> OpenClawRecord(path, content, i)]
<1>1. IsSeq(content)
    BY DEF LinesOK
<1>2. ASSUME NEW i \in DOMAIN content PROVE AllSound("openclaw", OpenClawRecord(path, content, i))
    BY EmitSound, NothingIsSound DEF LinesOK, ReadsWell, OpenClawRecord
<1>3. \A i \in DOMAIN content : AllSound("openclaw", seqs[i])
    BY <1>2
<1>4. seqs = [i \in DOMAIN content |-> seqs[i]]
    OBVIOUS
<1>5. OpenClawFile(path, content) = FlattenSeq(seqs)
    BY DEF OpenClawFile
<1> HIDE DEF seqs
<1> QED
    BY <1>1, <1>3, <1>4, <1>5, FlattenFrom
\* The ledger of WorkBuddy, whichever sessions it passes over.
LEMMA LedgerParse ==
  ASSUME NEW path, NEW content, NEW covered, LinesOK("workbuddy", path, content), IsLedger(path)
  PROVE  AllSound("workbuddy", WorkbuddyLedger(path, content, covered))
<1> DEFINE seqs == [i \in DOMAIN content |-> WorkbuddyLedgerRow(path, content[i], covered)]
<1>1. IsSeq(content)
    BY DEF LinesOK
<1>2. ASSUME NEW i \in DOMAIN content
      PROVE AllSound("workbuddy", WorkbuddyLedgerRow(path, content[i], covered))
    BY EmitSound, NothingIsSound DEF LinesOK, ReadsWell, WorkbuddyLedgerRow
<1>3. \A i \in DOMAIN content : AllSound("workbuddy", seqs[i])
    BY <1>2
<1>4. seqs = [i \in DOMAIN content |-> seqs[i]]
    OBVIOUS
<1>5. WorkbuddyLedger(path, content, covered) = FlattenSeq(seqs)
    BY DEF WorkbuddyLedger
<1> HIDE DEF seqs
<1> QED
    BY <1>1, <1>3, <1>4, <1>5, FlattenFrom

\* Min of a set of natural numbers.
LEMMA LeastIs ==
  ASSUME NEW S, S \subseteq Nat, S # {}
  PROVE  Min(S) \in S /\ \A n \in S : Min(S) <= n
BY LeastNatural DEF Min

\* The entries before the first that ends the reading.
LEMMA BeforeStop ==
  ASSUME NEW s, IsSeq(s), NEW stop, stop \subseteq DOMAIN s
  PROVE  LET r == SubSeq(s, 1, IF stop = {} THEN Len(s) ELSE Min(stop) - 1)
         IN  /\ IsSeq(r) /\ DOMAIN r \subseteq DOMAIN s
             /\ \A i \in DOMAIN r : r[i] = s[i] /\ i \notin stop
<1> DEFINE n == IF stop = {} THEN Len(s) ELSE Min(stop) - 1
           r == SubSeq(s, 1, n)
<1>1. Len(s) \in Nat /\ DOMAIN s = 1 .. Len(s)
    BY SeqShape
<1>2. n \in 0 .. Len(s) /\ \A i \in stop : i > n
  <2>1. CASE stop = {}
      BY <1>1, <2>1
  <2>2. CASE stop # {}
    <3>1. stop \subseteq Nat
        BY <1>1
    <3>2. Min(stop) \in stop /\ \A i \in stop : Min(stop) <= i
        BY <2>2, <3>1, LeastIs
    <3> QED
        BY <1>1, <2>2, <3>1, <3>2
  <2> QED
      BY <2>1, <2>2
<1> HIDE DEF n
<1>3. /\ r \in Seq(ToSet(s)) /\ Len(r) = IF 1 <= n THEN n - 1 + 1 ELSE 0
      /\ \A i \in 1 .. n - 1 + 1 : r[i] = s[1 + i - 1]
  <2>1. \A i \in 1 .. n : s[i] \in ToSet(s)
      BY <1>1, <1>2 DEF ToSet
  <2> QED
      BY <1>2, <2>1, SubSeqProperties
<1>4. Len(r) = n /\ DOMAIN r = 1 .. n /\ \A i \in 1 .. n : r[i] = s[i]
  <2>1. Len(r) = n
      BY <1>2, <1>3
  <2>2. DOMAIN r = 1 .. n
      BY <1>3, <2>1, LenProperties
  <2>3. \A i \in 1 .. n : r[i] = s[i]
    <3> TAKE i \in 1 .. n
    <3>1. i \in 1 .. n - 1 + 1 /\ 1 + i - 1 = i
        BY <1>2
    <3> HIDE DEF r
    <3> QED
        BY <1>3, <3>1
  <2> QED
      BY <2>1, <2>2, <2>3
<1> HIDE DEF r
<1>5. r = [i \in 1 .. n |-> r[i]]
    BY <1>3, <1>4
<1>6. IsSeq(r)
    BY <1>2, <1>4, <1>5, SeqIntro
<1>7. DOMAIN r \subseteq DOMAIN s /\ \A i \in DOMAIN r : r[i] = s[i] /\ i \notin stop
    BY <1>1, <1>2, <1>4
<1> QED
    BY <1>6, <1>7 DEF r, n

\* The rows before the first bad one.
LEMMA GoodRows ==
  ASSUME NEW t, NEW path, NEW content, LinesOK(t, path, content)
  PROVE  /\ LinesOK(t, path, RowsBeforeBad(content))
         /\ \A i \in DOMAIN RowsBeforeBad(content) : RowsBeforeBad(content)[i].kind # "bad"
<1> DEFINE bad == {i \in DOMAIN content : content[i].kind = "bad"}
           r == RowsBeforeBad(content)
<1>1. IsSeq(content) /\ bad \subseteq DOMAIN content
    BY DEF LinesOK
<1>2. r = SubSeq(content, 1, IF bad = {} THEN Len(content) ELSE Min(bad) - 1)
    BY DEF RowsBeforeBad
<1> HIDE DEF r
<1>3. /\ IsSeq(r) /\ DOMAIN r \subseteq DOMAIN content
      /\ \A i \in DOMAIN r : r[i] = content[i] /\ i \notin bad
  <2> HIDE DEF bad
  <2> QED
    BY <1>1, <1>2, BeforeStop
<1>4. LinesOK(t, path, r) /\ \A i \in DOMAIN r : r[i].kind # "bad"
    BY <1>3 DEF LinesOK
<1> QED
    BY <1>4 DEF r

\* What the adapter for DeepSeek makes of a file.
LEMMA DeepSeekParse ==
  ASSUME NEW path, NEW content, LinesOK("deepseek", path, content)
  PROVE  AllSound("deepseek", DeepSeekFile(path, content))
<1> DEFINE torn == {i \in DOMAIN content : content[i].kind = "torn"}
           lines == SessionLines(path, content)
           seqs == [i \in DOMAIN lines |-> MessageRecord(path, lines, i)]
<1>1. LinesOK("deepseek", path, lines)
  <2>1. CASE path.ext = "jsonl"
      BY <2>1 DEF SessionLines
  <2>2. CASE path.ext # "jsonl"
    <3>1. IsSeq(content) /\ torn \subseteq DOMAIN content
        BY DEF LinesOK
    <3>2. lines = SubSeq(content, 1, IF torn = {} THEN Len(content) ELSE Min(torn) - 1)
        BY <2>2 DEF SessionLines
    <3> HIDE DEF lines
    <3>3. IsSeq(lines) /\ DOMAIN lines \subseteq DOMAIN content /\ \A i \in DOMAIN lines : lines[i] = content[i]
      <4> HIDE DEF torn
      <4> QED
        BY <3>1, <3>2, BeforeStop
    <3> QED
        BY <3>3 DEF LinesOK
  <2> QED
      BY <2>1, <2>2
<1>2. DeepSeekFile(path, content) = FlattenSeq(seqs)
    BY DEF DeepSeekFile
<1> HIDE DEF lines
<1>3. IsSeq(lines)
    BY <1>1 DEF LinesOK
<1>4. ASSUME NEW i \in DOMAIN lines PROVE AllSound("deepseek", MessageRecord(path, lines, i))
    BY <1>1, EmitSound, NothingIsSound DEF LinesOK, ReadsWell, MessageRecord
<1>5. \A i \in DOMAIN lines : AllSound("deepseek", seqs[i])
    BY <1>4
<1>6. seqs = [i \in DOMAIN lines |-> seqs[i]]
    OBVIOUS
<1> HIDE DEF seqs
<1> QED
    BY <1>2, <1>3, <1>5, <1>6, FlattenFrom

\* What the adapter for OpenCode makes of a file.
LEMMA OpenCodeParse ==
  ASSUME NEW path, NEW content, LinesOK("opencode", path, content)
  PROVE  AllSound("opencode", OpenCodeStore(path, content))
<1> DEFINE rs == RowsBeforeBad(content)
           seqs == [i \in DOMAIN rs |-> OpenCodeRecord(path.root, rs[i])]
<1>1. OpenCodeStore(path, content) = FlattenSeq(seqs)
    BY DEF OpenCodeStore
<1>2. LinesOK("opencode", path, rs) /\ \A i \in DOMAIN rs : rs[i].kind # "bad"
    BY GoodRows
<1> HIDE DEF rs
<1>3. IsSeq(rs)
    BY <1>2 DEF LinesOK
<1>4. ASSUME NEW i \in DOMAIN rs PROVE AllSound("opencode", OpenCodeRecord(path.root, rs[i]))
    BY <1>2, EmitSound, NothingIsSound DEF LinesOK, ReadsWell, OpenCodeRecord
<1>5. \A i \in DOMAIN rs : AllSound("opencode", seqs[i])
    BY <1>4
<1>6. seqs = [i \in DOMAIN rs |-> seqs[i]]
    OBVIOUS
<1> HIDE DEF seqs
<1> QED
    BY <1>1, <1>3, <1>5, <1>6, FlattenFrom

\* What the adapter for TeleAgent makes of a file.
LEMMA TeleAgentParse ==
  ASSUME NEW path, NEW content, LinesOK("teleagent", path, content)
  PROVE  AllSound("teleagent", TeleAgentStore(path, content))
<1> DEFINE rs == RowsBeforeBad(content)
           seqs == [i \in DOMAIN rs |-> TeleAgentRecord(path.root, rs[i])]
<1>1. TeleAgentStore(path, content) = FlattenSeq(seqs)
    BY DEF TeleAgentStore
<1>2. LinesOK("teleagent", path, rs) /\ \A i \in DOMAIN rs : rs[i].kind # "bad"
    BY GoodRows
<1> HIDE DEF rs
<1>3. IsSeq(rs)
    BY <1>2 DEF LinesOK
<1>4. ASSUME NEW i \in DOMAIN rs PROVE AllSound("teleagent", TeleAgentRecord(path.root, rs[i]))
    BY <1>2, EmitSound, NothingIsSound DEF LinesOK, ReadsWell, TeleAgentRecord
<1>5. \A i \in DOMAIN rs : AllSound("teleagent", seqs[i])
    BY <1>4
<1>6. seqs = [i \in DOMAIN rs |-> seqs[i]]
    OBVIOUS
<1> HIDE DEF seqs
<1> QED
    BY <1>1, <1>3, <1>5, <1>6, FlattenFrom

\* A conversation of Antigravity.
LEMMA ConversationParse ==
  ASSUME NEW fs, NEW path, NEW content, LinesOK("antigravity", path, content)
  PROVE  AllSound("antigravity", ScanConversation(fs, path, content))
<1> DEFINE rs == RowsBeforeBad(content)
           record(step) ==
             LET gen == IF step.kind # "step" \/ step.tokens = None THEN None
                        ELSE DecodeGenMetadata(step.tokens[1])
             IN  IF gen = None THEN <<>>
                 ELSE Emit(Label(path.root) \o <<path.stem, step.idx>>, gen[1].tokens, path.stem,
                           ConversationProject(content), RootModel(fs, path.root), gen[1].at, step)
           seqs == [i \in DOMAIN rs |-> record(rs[i])]
<1>1. ScanConversation(fs, path, content) = FlattenSeq(seqs)
    BY DEF ScanConversation
<1>2. LinesOK("antigravity", path, rs)
    BY GoodRows
<1> HIDE DEF rs
<1>3. IsSeq(rs)
    BY <1>2 DEF LinesOK
<1>4. ASSUME NEW i \in DOMAIN rs PROVE AllSound("antigravity", record(rs[i]))
    BY <1>2, EmitSound, NothingIsSound DEF LinesOK, ReadsWell
<1>5. \A i \in DOMAIN rs : AllSound("antigravity", seqs[i])
  <2> HIDE DEF record
  <2> QED
    BY <1>4
<1>6. seqs = [i \in DOMAIN rs |-> seqs[i]]
    OBVIOUS
<1> HIDE DEF seqs, record
<1> QED
    BY <1>1, <1>3, <1>5, <1>6, FlattenFrom

\* A message file of an earlier version of OpenCode.
LEMMA LegacyParse ==
  ASSUME NEW path, NEW content, LinesOK("opencode", path, content), content # <<>>,
         content[1].kind # "bad", {"role", "tokens", "calls"} \subseteq DOMAIN content[1]
  PROVE  AllSound("opencode", OpenCodeLegacyFile(path, content))
<1> DEFINE x == content[1]
           y == [x EXCEPT !.time_created = "epoch"]
<1>1. 1 \in DOMAIN content
    BY DEF LinesOK, IsSeq
<1>2. x.calls \subseteq Call /\ ReadsWell("opencode", path, x)
    BY <1>1 DEF LinesOK
<1>3. y.role = x.role /\ y.tokens = x.tokens /\ y.calls = x.calls
    OBVIOUS
<1> HIDE DEF y
<1>4. AllSound("opencode", OpenCodeRecord(path.root, y))
    BY <1>2, <1>3, EmitSound, NothingIsSound DEF ReadsWell, OpenCodeRecord
<1> QED
    BY <1>4, NothingIsSound DEF OpenCodeLegacyFile, y

\* What the adapter for Qoder makes of a file.
LEMMA QoderParse ==
  ASSUME NEW path, NEW content, LinesOK("qoder", path, content)
  PROVE  AllSound("qoder", QoderStore(path, content))
<1> DEFINE seqs == [i \in DOMAIN content |-> IF content[i].kind = "bad" THEN <<>> ELSE QoderRecord(content[i])]
<1>1. IsSeq(content)
    BY DEF LinesOK
<1>2. ASSUME NEW i \in DOMAIN content PROVE AllSound("qoder", IF content[i].kind = "bad" THEN <<>> ELSE QoderRecord(content[i]))
    BY EmitSound, NothingIsSound DEF LinesOK, ReadsWell, QoderRecord
<1>3. \A i \in DOMAIN content : AllSound("qoder", seqs[i])
    BY <1>2
<1>4. seqs = [i \in DOMAIN content |-> seqs[i]]
    OBVIOUS
<1>5. QoderStore(path, content) = FlattenSeq(seqs)
    BY DEF QoderStore
<1> HIDE DEF seqs
<1> QED
    BY <1>1, <1>3, <1>4, <1>5, FlattenFrom

\* What the adapter for CodeArts makes of a file.
LEMMA CodeArtsParse ==
  ASSUME NEW path, NEW content, LinesOK("codearts", path, content)
  PROVE  AllSound("codearts", CodeArtsStore(path, content))
<1> DEFINE seqs == [i \in DOMAIN content |-> IF content[i].kind = "bad" THEN <<>> ELSE ParseMessage(content[i])]
<1>1. IsSeq(content)
    BY DEF LinesOK
<1>2. ASSUME NEW i \in DOMAIN content PROVE AllSound("codearts", IF content[i].kind = "bad" THEN <<>> ELSE ParseMessage(content[i]))
    BY EmitSound, NothingIsSound DEF LinesOK, ReadsWell, ParseMessage
<1>3. \A i \in DOMAIN content : AllSound("codearts", seqs[i])
    BY <1>2
<1>4. seqs = [i \in DOMAIN content |-> seqs[i]]
    OBVIOUS
<1>5. CodeArtsStore(path, content) = FlattenSeq(seqs)
    BY DEF CodeArtsStore
<1> HIDE DEF seqs
<1> QED
    BY <1>1, <1>3, <1>4, <1>5, FlattenFrom

\* What the adapter for Gemini makes of a file.
LEMMA GeminiParse ==
  ASSUME NEW path, NEW content, IsTorn(content) \/ LinesOK("gemini", path, content)
  PROVE  AllSound("gemini", CollectUsages(path, content))
<1> DEFINE emits(k) == RecordFromUsage(path, content[k], 0) # <<>>
           before(i) == Cardinality({k \in 1 .. i - 1 : emits(k)})
           seqs == [i \in DOMAIN content |-> RecordFromUsage(path, content[i], before(i))]
<1>1. CASE IsTorn(content)
    BY <1>1, NothingIsSound DEF CollectUsages
<1>2. CASE ~IsTorn(content)
  <2>1. CollectUsages(path, content) = FlattenSeq(seqs)
      BY <1>2 DEF CollectUsages
  <2>2. LinesOK("gemini", path, content) /\ IsSeq(content)
      BY <1>2 DEF LinesOK
  <2>3. ASSUME NEW i \in DOMAIN content, NEW n
        PROVE  AllSound("gemini", RecordFromUsage(path, content[i], n))
      BY <2>2, EmitSound, NothingIsSound DEF LinesOK, ReadsWell, RecordFromUsage
  <2>4. \A i \in DOMAIN content : AllSound("gemini", seqs[i])
    <3> HIDE DEF before
    <3> QED
      BY <2>3
  <2>5. seqs = [i \in DOMAIN content |-> seqs[i]]
      OBVIOUS
  <2> HIDE DEF seqs, before
  <2> QED
      BY <2>1, <2>2, <2>4, <2>5, FlattenFrom
<1> QED
    BY <1>1, <1>2

\* What the adapter for Trae makes of a file.
LEMMA TraeParse ==
  ASSUME NEW path, NEW content, IsTorn(content) \/ LinesOK("trae", path, content)
  PROVE  AllSound("trae", TraeFile(path, content))
<1> DEFINE seqs == [i \in DOMAIN content |-> TraeRecord(path, content[i])]
<1>1. CASE IsTorn(content)
    BY <1>1, NothingIsSound DEF TraeFile
<1>2. CASE ~IsTorn(content)
  <2>1. TraeFile(path, content) = FlattenSeq(seqs)
      BY <1>2 DEF TraeFile
  <2>2. LinesOK("trae", path, content) /\ IsSeq(content)
      BY <1>2 DEF LinesOK
  <2>3. ASSUME NEW i \in DOMAIN content PROVE AllSound("trae", TraeRecord(path, content[i]))
      BY <2>2, EmitSound, NothingIsSound DEF LinesOK, ReadsWell, TraeRecord
  <2>4. \A i \in DOMAIN content : AllSound("trae", seqs[i])
      BY <2>3
  <2>5. seqs = [i \in DOMAIN content |-> seqs[i]]
      OBVIOUS
  <2> HIDE DEF seqs
  <2> QED
      BY <2>1, <2>2, <2>4, <2>5, FlattenFrom
<1> QED
    BY <1>1, <1>2

\* A conversation of the CodeBuddy IDE.
LEMMA DesktopParse ==
  ASSUME NEW fs, NEW path, NEW content, IsIndex(path),
         IsTorn(content) \/ LinesOK("codebuddy", path, content)
  PROVE  AllSound("codebuddy", DesktopConversation(fs, path, content))
<1> DEFINE cwds == LoadCwdMap(fs)
           project == IF path.stem \in DOMAIN cwds THEN Last(cwds[path.stem]) ELSE path.dir
           models == LoadRequestModels(fs, path)
           seqs == [i \in DOMAIN content |-> DesktopRecord(path, project, models, content[i])]
<1>1. CASE IsTorn(content)
    BY <1>1, NothingIsSound DEF DesktopConversation
<1>2. CASE ~IsTorn(content)
  <2>1. DesktopConversation(fs, path, content) = FlattenSeq(seqs)
      BY <1>2 DEF DesktopConversation
  <2>2. LinesOK("codebuddy", path, content) /\ IsSeq(content)
      BY <1>2 DEF LinesOK
  <2> HIDE DEF project, models
  <2>3. ASSUME NEW i \in DOMAIN content
        PROVE  AllSound("codebuddy", DesktopRecord(path, project, models, content[i]))
      BY <2>2, EmitSound, NothingIsSound DEF LinesOK, ReadsWell, DesktopRecord
  <2>4. \A i \in DOMAIN content : AllSound("codebuddy", seqs[i])
      BY <2>3
  <2>5. seqs = [i \in DOMAIN content |-> seqs[i]]
      OBVIOUS
  <2> HIDE DEF seqs
  <2> QED
      BY <2>1, <2>2, <2>4, <2>5, FlattenFrom
<1> QED
    BY <1>1, <1>2

\* What the parser of the sessions with turns needs of an entry.
IsTurn(path, x) ==
    /\ x.calls \subseteq Call /\ ReadsWell("atomcode", path, x)
    /\ x.kind \in {"turn", "detached"}

\* A session of AtomCode whose turns have their usage by call,
LEMMA RichParse ==
  ASSUME NEW fs, NEW path, NEW header, NEW turns0, IsSeq(turns0),
         \A i \in DOMAIN turns0 : IsTurn(path, turns0[i])
  PROVE  AllSound("atomcode", ParseRich(fs, path, header, turns0))
<1> DEFINE began == LoadTurnTimestamps(fs, path)
           later == OrElse(header.updated_at, "file")
           at(turn) == IF TurnId(turn) \in DOMAIN began THEN began[TurnId(turn)] ELSE later
           calls(x) == [k \in DOMAIN x.model_usage |->
                          AtomCodeCall(Rel(path) \o <<TurnId(x), ToString(k)>>, header, path,
                                       at(x), x.model_usage[k], x)]
           record(i) ==
            LET x == turns0[i]
            IN  CASE x.kind = "turn" /\ x.model_usage # <<>> ->
                       FlattenSeq([k \in DOMAIN x.model_usage |->
                          AtomCodeCall(Rel(path) \o <<TurnId(x), ToString(k)>>, header, path,
                                       at(x), x.model_usage[k], x)])
                  [] x.kind = "turn" /\ x.model_usage = <<>> ->
                       LegacyTurn(Rel(path) \o <<TurnId(x), "legacy">>, header, path, at(x), x)
                  [] x.kind = "detached" ->
                       LET n == Cardinality({k \in 1 .. i : turns0[k].kind = "detached"})
                       IN  AtomCodeCall(Rel(path) \o <<"detached", ToString(n)>>, header, path,
                                        later, x.usage, x)
           seqs == [i \in DOMAIN turns0 |-> record(i)]
<1>1. ParseRich(fs, path, header, turns0) = FlattenSeq(seqs)
    BY DEF ParseRich
<1>2. ASSUME NEW x, NEW key, NEW a, NEW u, AtomUsage("atomcode", u, x), x.calls \subseteq Call
      PROVE  AllSound("atomcode", AtomCodeCall(key, header, path, a, u, x))
    BY <1>2, EmitSound, NothingIsSound DEF AtomUsage, AtomCodeCall
<1>3. ASSUME NEW i \in DOMAIN turns0 PROVE AllSound("atomcode", record(i))
  <2> DEFINE x == turns0[i]
  <2>1. IsTurn(path, x)
      OBVIOUS
  <2> HIDE DEF x
  <2>2. CASE x.kind = "turn" /\ x.model_usage # <<>>
    <3>1. record(i) = FlattenSeq(calls(x))
        BY <2>2 DEF x
    <3>2. PICK u : x.model_usage = <<u>> /\ AtomUsage("atomcode", u, x)
        BY <2>1, <2>2 DEF IsTurn, ReadsWell
    <3>3. DOMAIN x.model_usage = {1} /\ x.model_usage[1] = u /\ IsSeq(x.model_usage)
        BY <3>2, OneIsSeq
    <3> DEFINE of == calls(x)
    <3> HIDE DEF at
    <3>4. \A k \in DOMAIN x.model_usage : AllSound("atomcode", of[k])
        BY <1>2, <2>1, <3>2, <3>3 DEF IsTurn
    <3>5. of = [k \in DOMAIN x.model_usage |-> of[k]]
        OBVIOUS
    <3> HIDE DEF of, record
    <3> QED
        BY <3>1, <3>3, <3>4, <3>5, FlattenFrom DEF of
  <2>3. CASE x.kind = "turn" /\ x.model_usage = <<>>
    <3>1. record(i) = LegacyTurn(Rel(path) \o <<TurnId(x), "legacy">>, header, path, at(x), x)
        BY <2>3 DEF x
    <3> HIDE DEF record, at
    <3> QED
        BY <2>1, <2>3, <3>1, EmitSound DEF IsTurn, ReadsWell, LegacyTurn
  <2>4. CASE x.kind = "detached"
    <3> DEFINE n == Cardinality({k \in 1 .. i : turns0[k].kind = "detached"})
    <3>1. record(i) = AtomCodeCall(Rel(path) \o <<"detached", ToString(n)>>, header, path,
                                   later, x.usage, x)
        BY <2>4 DEF x
    <3>2. AtomUsage("atomcode", x.usage, x) /\ x.calls \subseteq Call
        BY <2>1, <2>4 DEF IsTurn, ReadsWell
    <3> HIDE DEF record, later, n
    <3> QED
        BY <1>2, <3>1, <3>2
  <2> QED
      BY <2>1, <2>2, <2>3, <2>4 DEF IsTurn
<1>4. \A i \in DOMAIN turns0 : AllSound("atomcode", seqs[i])
  <2> HIDE DEF record
  <2> QED
    BY <1>3
<1>5. seqs = [i \in DOMAIN turns0 |-> seqs[i]]
  <2> HIDE DEF record
  <2> QED
    OBVIOUS
<1> HIDE DEF seqs, record
<1> QED
    BY <1>1, <1>4, <1>5, FlattenFrom

\* and one whose turns only have a total.
LEMMA TotalsParse ==
  ASSUME NEW path, NEW header, NEW turns0, IsSeq(turns0), path.ext = "json",
         \A i \in DOMAIN turns0 : IsTurn(path, turns0[i])
  PROVE  AllSound("atomcode", ParseJsonNew(path, header, turns0))
<1> DEFINE record(i) ==
             Emit(Rel(path) \o <<ToString(i)>>, Tokens(OrElse(turns0[i].total_tokens, 0), 0, 0, 0),
                  OrElse(header.id, path.stem), Basename(header.working_dir),
                  OrElse(header.prompt, DefaultAtomModel), OrElse(header.updated_at, "file"),
                  turns0[i])
           seqs == [i \in DOMAIN turns0 |-> record(i)]
<1>1. ParseJsonNew(path, header, turns0) = FlattenSeq(seqs)
    BY DEF ParseJsonNew
<1>2. ASSUME NEW i \in DOMAIN turns0 PROVE AllSound("atomcode", record(i))
  <2>1. turns0[i].kind = "turn"
      BY DEF IsTurn, ReadsWell
  <2>2. /\ Matches("atomcode", Tokens(OrElse(turns0[i].total_tokens, 0), 0, 0, 0), turns0[i].calls)
        /\ turns0[i].calls \subseteq Call
      BY <2>1 DEF IsTurn, ReadsWell
  <2> QED
      BY <2>2, EmitSound
<1>3. \A i \in DOMAIN turns0 : AllSound("atomcode", seqs[i])
  <2> HIDE DEF record
  <2> QED
    BY <1>2
<1>4. seqs = [i \in DOMAIN turns0 |-> seqs[i]]
    OBVIOUS
<1> HIDE DEF seqs, record
<1> QED
    BY <1>1, <1>3, <1>4, FlattenFrom

\* Which parser a document gets: the totals of a document whose turns have breakdowns, or
\* whose format has counters of its own, are never read.
LEMMA SessionParse ==
  ASSUME NEW fs, NEW path, NEW content,
         IsTorn(content) \/ WholeContent("atomcode", path, content)
  PROVE  AllSound("atomcode", ParseSession(fs, path, content))
<1>1. CASE IsTorn(content)
    BY <1>1, NothingIsSound DEF ParseSession
<1>2. CASE ~IsTorn(content)
  <2> DEFINE header == Head(content)
             turns0 == Tail(content)
             rich == \E i \in DOMAIN turns0 : /\ turns0[i].kind = "turn"
                                              /\ turns0[i].model_usage # <<>>
             totals == /\ turns0 # <<>> /\ turns0[1].kind = "turn"
                       /\ turns0[1].total_tokens # None
             useTotals == path.ext # "index" /\ ~rich /\ (path.ext = "json" \/ totals)
  <2>1. WholeContent("atomcode", path, content) /\ IsSeq(content) /\ content # <<>>
      BY <1>2 DEF WholeContent, OpenContent
  <2>2. ParseSession(fs, path, content) =
          IF useTotals THEN ParseJsonNew(path, header, turns0)
          ELSE ParseRich(fs, path, header, turns0)
      BY <1>2 DEF ParseSession
  <2>3. /\ turns0 \in Seq(ToSet(content)) /\ Len(turns0) = Len(content) - 1
        /\ \A i \in 1 .. Len(turns0) : turns0[i] = content[i + 1]
      BY <2>1, HeadTailProperties DEF IsSeq
  <2>4. Len(content) \in Nat /\ DOMAIN content = 1 .. Len(content)
      BY <2>1, SeqShape
  <2>5. Len(turns0) \in Nat /\ DOMAIN turns0 = 1 .. Len(turns0) /\ turns0 = [i \in 1 .. Len(turns0) |-> turns0[i]]
      BY <2>3, LenProperties
  <2> HIDE DEF turns0, header
  <2>6. IsSeq(turns0)
      BY <2>5, SeqIntro
  <2>7. ASSUME NEW i \in DOMAIN turns0 PROVE IsTurn(path, turns0[i])
    <3>1. i + 1 \in DOMAIN content /\ i + 1 # 1 /\ turns0[i] = content[i + 1]
        BY <2>3, <2>4, <2>5
    <3> DEFINE j == i + 1
    <3> HIDE DEF j
    <3>2. j \in DOMAIN content /\ j # 1
        BY <3>1 DEF j
    <3>3. IsTurn(path, content[j])
        BY <2>1, <3>2 DEF WholeContent, OpenContent, GoodEntry, Fits, Settled, IsTurn, IsStored
    <3> QED
        BY <3>1, <3>3 DEF j
  <2>8. CASE useTotals
    <3>1. path.ext = "json"
      <4> SUFFICES ASSUME path.ext # "json" PROVE FALSE
          OBVIOUS
      <4>1. ~rich /\ turns0 # <<>> /\ turns0[1].kind = "turn" /\ turns0[1].total_tokens # None
          BY <2>8
      <4>2. 1 \in DOMAIN turns0
          BY <2>5, <4>1
      <4>3. turns0[1].model_usage = <<>>
          BY <4>1, <4>2
      <4> QED
          BY <2>7, <4>1, <4>2, <4>3 DEF IsTurn, ReadsWell
    <3> QED
        BY <2>2, <2>6, <2>7, <2>8, <3>1, TotalsParse
  <2>9. CASE ~useTotals
      BY <2>2, <2>6, <2>7, <2>9, RichParse
  <2> QED
      BY <2>8, <2>9
<1> QED
    BY <1>1, <1>2

-----------------------------------------------------------------------------
(* What the tools write: however a call is recorded, its entry reads well. *)

\* What is noted of a call beside what the tool writes.
Noted(c, id, tr) == [calls |-> {c}, id |-> id, truth |-> tr]

\* A line without usage reads well for every adapter that may meet it.
LEMMA NoiseReadsWell ==
  ASSUME NEW t, NEW path, NEW x, x.calls = {}, "final" \notin DOMAIN x,
         t \in {"claude", "codex", "gemini", "antigravity", "codebuddy", "workbuddy", "opencode",
                "qoder", "openclaw", "deepseek", "pi", "trae", "atomcode", "codearts", "teleagent"},
         x.kind \in {"session_meta", "session", "trajectory", "user", "turn_context",
                     "model_change", "request/header", "header", "bad"},
         t # "trae", t = "codebuddy" => ~IsIndex(path), t = "workbuddy" => ~IsLedger(path),
         IsStored(t) /\ t # "antigravity" => x.kind = "bad"
  PROVE  Settled(t, path, x)
BY DEF Settled, ReadsWell, IsAssistantSide, PiIsBilled, IsStored

\* What Claude writes.
LEMMA ClaudeWrites ==
  ASSUME NEW c \in Call, NEW id, NEW tr, NEW path, NEW x \in ClaudeLines(Bill[c], Noted(c, id, tr))
  PROVE  Settled("claude", path, x)
<1> DEFINE b == Bill[c]
           n == Tokens(b.fresh, b.output + b.reasoning, b.read, b.write)
<1>1. /\ x.kind = "assistant" /\ x.calls = {c} /\ "final" \notin DOMAIN x
      /\ x.usage = <<[input_tokens |-> b.fresh, output_tokens |-> b.output + b.reasoning,
                      cache_creation_input_tokens |-> b.write,
                      cache_read_input_tokens |-> b.read]>>
    BY DEF ClaudeLines, Noted, ++, Some
<1>2. Matches("claude", n, {c})
  <2>1. TotalTokens(n) = BilledTo("claude", c) /\ n.read = b.read
      BY BillIsTyped DEF Tokens, TotalTokens, BilledTo, Total
  <2> HIDE DEF n
  <2> QED
      BY <2>1, FairOne
<1> QED
    BY <1>1, <1>2 DEF Settled, ReadsWell

\* What Codex writes.
LEMMA CodexWrites ==
  ASSUME NEW c \in Call, NEW id, NEW tr, NEW path, NEW x \in CodexLines(Bill[c], Noted(c, id, tr))
  PROVE  Settled("codex", path, x)
<1> DEFINE b == Bill[c]
           u == [input_tokens |-> b.fresh + b.read, cached_input_tokens |-> b.read,
                 cache_write_input_tokens |-> b.write, output_tokens |-> b.output + b.reasoning]
           n == CodexTokens(u)
<1>1. x.kind = "token_count" /\ x.calls = {c} /\ "final" \notin DOMAIN x /\ x.usage = <<u>>
    BY DEF CodexLines, Noted, ++, Some
<1>2. Matches("codex", n, {c})
  <2>1. TotalTokens(n) = BilledTo("codex", c) /\ n.read = b.read
      BY BillIsTyped DEF Tokens, CodexTokens, Minus, TotalTokens, BilledTo, Total
  <2> HIDE DEF n
  <2> QED
      BY <2>1, FairOne
<1> QED
    BY <1>1, <1>2 DEF Settled, ReadsWell

\* What Pi writes.
LEMMA PiWrites ==
  ASSUME NEW c \in Call, NEW id, NEW tr, NEW path, NEW x \in PiLines(Bill[c], Noted(c, id, tr))
  PROVE  Settled("pi", path, x)
<1> DEFINE b == Bill[c]
           n == Tokens(b.fresh + b.reasoning, b.output, b.read, b.write)
<1>1. /\ x.kind \in {"message", "compaction"} /\ x.calls = {c} /\ "final" \notin DOMAIN x
      /\ x.usage = <<[input |-> b.fresh + b.reasoning, output |-> b.output,
                      cache_read |-> b.read, cache_write |-> b.write]>>
    BY DEF PiLines, Noted, ++, Some
<1>2. Matches("pi", n, {c})
  <2>1. TotalTokens(n) = BilledTo("pi", c) /\ n.read = b.read
      BY BillIsTyped DEF Tokens, TotalTokens, BilledTo, Total
  <2> HIDE DEF n
  <2> QED
      BY <2>1, FairOne
<1> QED
    BY <1>1, <1>2 DEF Settled, ReadsWell

\* What DeepSeek writes.
LEMMA DeepSeekWrites ==
  ASSUME NEW c \in Call, NEW id, NEW tr, NEW path,
         NEW x \in DeepSeekLines(Bill[c], Noted(c, id, tr))
  PROVE  Settled("deepseek", path, x)
<1> DEFINE b == Bill[c]
           n == Tokens(b.fresh, b.output + b.reasoning, b.read, b.write)
<1>1. /\ x.kind = "assistant/message" /\ x.calls = {c} /\ "final" \notin DOMAIN x
      /\ x.usage = <<[input |-> b.fresh, output |-> b.output + b.reasoning,
                      cache_read |-> b.read, cache_write |-> b.write]>>
    BY DEF DeepSeekLines, Noted, ++, Some
<1>2. Matches("deepseek", n, {c})
  <2>1. TotalTokens(n) = BilledTo("deepseek", c) /\ n.read = b.read
      BY BillIsTyped DEF Tokens, TotalTokens, BilledTo, Total
  <2> HIDE DEF n
  <2> QED
      BY <2>1, FairOne
<1> QED
    BY <1>1, <1>2 DEF Settled, ReadsWell

\* A difference that does not saturate.
LEMMA MinusIs ==
  ASSUME NEW x \in Nat, NEW y \in Nat, NEW z \in Nat
  PROVE  Minus(x + y + z, y) = x + z /\ Minus(x + y, y) = x /\ Minus(x + z, z) = x
BY DEF Minus

\* What Gemini writes.
LEMMA GeminiWrites ==
  ASSUME NEW c \in Call, NEW id, NEW tr, NEW path, NEW x \in GeminiUsages(Bill[c], Noted(c, id, tr))
  PROVE  Settled("gemini", path, x)
<1> DEFINE b == Bill[c]
           n == Tokens(Minus(b.fresh + b.read + b.write, b.read), b.output + b.reasoning, b.read, 0)
<1>1. /\ x.kind = "message" /\ x.calls = {c} /\ "final" \notin DOMAIN x
      /\ x.usageMetadata = <<[prompt |-> b.fresh + b.read + b.write, cached |-> b.read,
                              candidates |-> b.output + b.reasoning]>>
    BY DEF GeminiUsages, Noted, ++, Some
<1>2. Matches("gemini", n, {c})
  <2>0. Minus(b.fresh + b.read + b.write, b.read) = b.fresh + b.write
    <3>1. b.fresh \in Nat /\ b.read \in Nat /\ b.write \in Nat
        BY BillIsTyped
    <3> HIDE DEF b
    <3> QED
        BY <3>1, MinusIs
  <2>1. TotalTokens(n) = BilledTo("gemini", c) /\ n.read = b.read
      BY <2>0, BillIsTyped DEF Tokens, TotalTokens, BilledTo, Total
  <2> HIDE DEF n
  <2> QED
      BY <2>1, FairOne
<1> QED
    BY <1>1, <1>2 DEF Settled, ReadsWell

\* What Trae writes.
LEMMA TraeWrites ==
  ASSUME NEW c \in Call, NEW id, NEW tr, NEW path, NEW x \in TraeSessions(Bill[c], Noted(c, id, tr))
  PROVE  Settled("trae", path, x)
<1> DEFINE b == Bill[c]
           n == [input |-> b.fresh, output |-> b.output + b.reasoning, read |-> b.read,
                 write |-> b.write]
<1>1. x.kind = "session" /\ x.calls = {c} /\ "final" \notin DOMAIN x /\ x.tokens = n
    BY DEF TraeSessions, Noted, ++, Some
<1>2. Matches("trae", n, {c})
  <2>1. TotalTokens(n) = BilledTo("trae", c) /\ n.read = b.read
      BY BillIsTyped DEF TotalTokens, BilledTo, Total
  <2> HIDE DEF n
  <2> QED
      BY <2>1, FairOne
<1> QED
    BY <1>1, <1>2 DEF Settled, ReadsWell

\* What the CodeBuddy IDE writes.
LEMMA DesktopWrites ==
  ASSUME NEW c \in Call, NEW id, NEW tr, NEW path, IsIndex(path),
         NEW x \in DesktopRequests(Bill[c], Noted(c, id, tr))
  PROVE  Settled("codebuddy", path, x)
<1> DEFINE b == Bill[c]
           n == Tokens(Minus(Minus(b.fresh + b.read + b.write, b.read), b.write),
                       b.output + b.reasoning, b.read, b.write)
<1>1. /\ x.kind = "request" /\ x.calls = {c} /\ "final" \notin DOMAIN x
      /\ x.usage = <<[input |-> b.fresh + b.read + b.write, output |-> b.output + b.reasoning,
                      cache |-> b.read, write |-> b.write]>>
    BY DEF DesktopRequests, Noted, ++, Some
<1>2. Matches("codebuddy", n, {c})
  <2>1. TotalTokens(n) = BilledTo("codebuddy", c) /\ n.read = b.read
      BY BillIsTyped DEF Tokens, TotalTokens, BilledTo, Total, Minus
  <2> HIDE DEF n
  <2> QED
      BY <2>1, FairOne
<1> QED
    BY <1>1, <1>2 DEF Settled, ReadsWell

\* One message of a store, as it is when its call has ended.
LEMMA MessageWrites ==
  ASSUME NEW c \in Call, NEW id, NEW tr, NEW path, NEW more, NEW t, IsStored(t), t # "antigravity",
         {"calls", "tokens", "role", "kind", "final"} \cap DOMAIN more = {},
         NEW x, x = MessageRow(Bill[c], Noted(c, id, tr)) ++ more
  PROVE  /\ Settled(t, path, x) /\ x.kind = "message"
         /\ {"role", "tokens", "calls"} \subseteq DOMAIN x
<1> DEFINE b == Bill[c]
           u == [input |-> b.fresh, output |-> b.output, reasoning |-> b.reasoning,
                 read |-> b.read, write |-> b.write]
           n == MessageTokens(u)
           m == Tokens(u.input, u.output, u.read, u.write)
<1>1. /\ x.kind = "message" /\ x.calls = {c} /\ "final" \notin DOMAIN x
      /\ x.tokens = <<u>> /\ {"role", "tokens", "calls"} \subseteq DOMAIN x
    BY DEF MessageRow, Noted, ++, Some
<1>2. t # "codearts" => Matches(t, n, {c})
  <2>1. t # "codearts" => TotalTokens(n) = BilledTo(t, c) /\ n.read = b.read
      BY BillIsTyped DEF Tokens, TotalTokens, BilledTo, Total, MessageTokens
  <2> HIDE DEF n
  <2> QED
      BY <2>1, FairOne
<1>3. t = "codearts" => Matches(t, m, {c})
  <2>1. t = "codearts" => TotalTokens(m) = BilledTo(t, c) /\ m.read = b.read
      BY BillIsTyped DEF Tokens, TotalTokens, BilledTo, Total
  <2> HIDE DEF m
  <2> QED
      BY <2>1, FairOne
<1> HIDE DEF n, m
<1>4. Matches(t, MessageTokens(x.tokens[1]), {c}) \/ t = "codearts"
    BY <1>1, <1>2 DEF n
<1>5. t = "codearts" => Matches(t, Tokens(x.tokens[1].input, x.tokens[1].output, x.tokens[1].read,
                                          x.tokens[1].write), {c})
    BY <1>1, <1>3 DEF m
<1>6. ReadsWell(t, path, x)
  <2>1. CASE t = "codearts"
      BY <1>1, <1>5, <2>1 DEF ReadsWell
  <2>2. CASE t \in {"opencode", "qoder", "teleagent"}
      BY <1>1, <1>4, <2>2 DEF ReadsWell
  <2> QED
      BY <2>1, <2>2 DEF IsStored
<1> QED
    BY <1>1, <1>6 DEF Settled

\* The row of a call in flight: no counters yet.
LEMMA MessageInFlight ==
  ASSUME NEW t, IsStored(t), t # "antigravity", NEW path,
         NEW row, Settled(t, path, row), row.kind = "message",
         {"role", "tokens", "calls", "kind"} \subseteq DOMAIN row,
         NEW x \in InFlight(row, NoTokens)
  PROVE  Pending(t, path, x) /\ {"role", "tokens", "calls"} \subseteq DOMAIN x
<1>1. PICK n \in {None, Some(NoTokens)} : x = [row EXCEPT !.tokens = n, !.calls = {}] ++ [final |-> row]
    BY DEF InFlight
<1>2. /\ "final" \in DOMAIN x /\ x.final = row /\ x.calls = {} /\ x.kind = "message"
      /\ x.tokens = n /\ {"role", "tokens", "calls"} \subseteq DOMAIN x
    BY <1>1 DEF ++, Settled
<1>3. TotalTokens(MessageTokens(NoTokens)) = 0
      /\ TotalTokens(Tokens(NoTokens.input, NoTokens.output, NoTokens.read, NoTokens.write)) = 0
    BY DEF NoTokens, MessageTokens, Tokens, TotalTokens
<1>4. x.tokens # None => x.tokens[1] = NoTokens
    BY <1>2 DEF Some, None
<1>5. ReadsWell(t, path, x)
  <2>1. CASE t = "codearts"
    <3>1. x.tokens # None => Matches(t, Tokens(x.tokens[1].input, x.tokens[1].output,
                                               x.tokens[1].read, x.tokens[1].write), x.calls)
        BY <1>3, <1>4 DEF Matches
    <3> QED
        BY <2>1, <3>1 DEF ReadsWell
  <2>2. CASE t \in {"opencode", "qoder", "teleagent"}
    <3>1. x.tokens # None => Matches(t, MessageTokens(x.tokens[1]), x.calls)
        BY <1>3, <1>4 DEF Matches
    <3> QED
        BY <2>2, <3>1 DEF ReadsWell
  <2> QED
      BY <2>1, <2>2 DEF IsStored
<1> QED
    BY <1>2, <1>5 DEF Pending

-----------------------------------------------------------------------------
(* Optional fields, and the tools whose adapters look for a counter in several places. *)

\* The first option that has a value.
LEMMA FirstOfAt ==
  ASSUME NEW options, DOMAIN options \subseteq Nat, NEW i \in DOMAIN options, options[i] # None,
         \A j \in DOMAIN options : j < i => options[j] = None
  PROVE  FirstOf(options) = options[i]
<1> DEFINE present == {k \in DOMAIN options : options[k] # None}
<1>1. present \subseteq Nat /\ i \in present
    OBVIOUS
<1>2. Min(present) \in present /\ \A n \in present : Min(present) <= n
    BY <1>1, LeastIs
<1>3. Min(present) <= i /\ ~ Min(present) < i
    BY <1>1, <1>2
<1>4. Min(present) = i
    BY <1>1, <1>2, <1>3
<1> QED
    BY <1>1, <1>4 DEF FirstOf

\* No option has a value.
LEMMA FirstOfNone ==
  ASSUME NEW options, \A j \in DOMAIN options : options[j] = None
  PROVE  FirstOf(options) = None
BY DEF FirstOf

\* The first of two.
LEMMA FirstOfTwo ==
  ASSUME NEW x, NEW y
  PROVE  FirstOf(<<x, y>>) = IF x # None THEN x ELSE y
<1> DEFINE s == <<x, y>>
<1>1. DOMAIN s = {1, 2} /\ s[1] = x /\ s[2] = y
    OBVIOUS
<1> HIDE DEF s
<1>2. CASE x # None
    BY <1>1, <1>2, FirstOfAt DEF s
<1>3. CASE x = None /\ y # None
    BY <1>1, <1>3, FirstOfAt DEF s
<1>4. CASE x = None /\ y = None
    BY <1>1, <1>4, FirstOfNone DEF s
<1> QED
    BY <1>2, <1>3, <1>4

\* The first of three.
LEMMA FirstOfThree ==
  ASSUME NEW x, NEW y, NEW z
  PROVE  FirstOf(<<x, y, z>>) = IF x # None THEN x ELSE IF y # None THEN y ELSE z
<1> DEFINE s == <<x, y, z>>
<1>1. DOMAIN s = {1, 2, 3} /\ s[1] = x /\ s[2] = y /\ s[3] = z
    OBVIOUS
<1> HIDE DEF s
<1>2. CASE x # None
    BY <1>1, <1>2, FirstOfAt DEF s
<1>3. CASE x = None /\ y # None
    BY <1>1, <1>3, FirstOfAt DEF s
<1>4. CASE x = None /\ y = None /\ z # None
    BY <1>1, <1>4, FirstOfAt DEF s
<1>5. CASE x = None /\ y = None /\ z = None
    BY <1>1, <1>5, FirstOfNone DEF s
<1> QED
    BY <1>2, <1>3, <1>4, <1>5

\* Of five places, the one of the first, third or fifth that has a value.
LEMMA FirstOfFive ==
  ASSUME NEW x, NEW u, NEW y, NEW v, NEW z
  PROVE  /\ x # None => FirstOf(<<x, u, y, v, z>>) = x
         /\ x = None /\ u = None /\ y # None => FirstOf(<<x, u, y, v, z>>) = y
         /\ x = None /\ u = None /\ y = None /\ v = None => FirstOf(<<x, u, y, v, z>>) = z
<1> DEFINE s == <<x, u, y, v, z>>
<1>1. DOMAIN s = {1, 2, 3, 4, 5} /\ s[1] = x /\ s[2] = u /\ s[3] = y /\ s[4] = v /\ s[5] = z
    OBVIOUS
<1> HIDE DEF s
<1>2. x # None => FirstOf(s) = x
    BY <1>1, FirstOfAt
<1>3. x = None /\ u = None /\ y # None => FirstOf(s) = y
    BY <1>1, FirstOfAt
<1>4. x = None /\ u = None /\ y = None /\ v = None /\ z # None => FirstOf(s) = z
    BY <1>1, FirstOfAt
<1>5. x = None /\ u = None /\ y = None /\ v = None /\ z = None => FirstOf(s) = z
    BY <1>1, FirstOfNone
<1> QED
    BY <1>2, <1>3, <1>4, <1>5 DEF s

\* An option with a value.
LEMMA SomeIs == ASSUME NEW x PROVE Some(x) # None /\ Some(x)[1] = x /\ OrElse(Some(x), 0) = x
BY DEF Some, None, OrElse

\* An option without.
LEMMA NoneIs == OrElse(None, 0) = 0 /\ \A name : Field(None, name) = None
BY DEF None, OrElse, Field

\* A field of a usage object.
LEMMA FieldIs == ASSUME NEW x, NEW name PROVE Field(Some(x), name) = x[name]
BY DEF Some, None, Field

\* An option is empty or not.
LEMMA OneOption == ASSUME NEW x PROVE OrZero(<<Some(x)>>) = x
<1> DEFINE s == <<Some(x)>>
<1>1. DOMAIN s = {1} /\ s[1] = Some(x)
    OBVIOUS
<1> HIDE DEF s
<1>2. FirstOf(s) = Some(x)
    BY <1>1, SomeIs, FirstOfAt
<1> QED
    BY <1>2, SomeIs DEF s, OrZero

\* What CodeBuddy's counters come to, by where the line has them.
LEMMA CodebuddyMessage ==
  ASSUME NEW input, NEW output, NEW read, NEW x, x.provider = None, x.raw = None,
         x.message = Some([input |-> Some(input), output |-> Some(output), cache_read |-> Some(read)])
  PROVE  CodebuddyTokens(x) = Tokens(Minus(Minus(input, read), 0), output, read, 0)
<1> DEFINE lean == [input |-> Some(input), output |-> Some(output), cache_read |-> Some(read)]
<1>1. /\ Field(x.message, "input") = Some(input) /\ Field(x.message, "output") = Some(output)
      /\ Field(x.message, "cache_read") = Some(read)
    BY FieldIs
<1>2. \A name : Field(x.provider, name) = None /\ Field(x.raw, name) = None
    BY NoneIs
<1> HIDE DEF lean
<1>3. OrZero(<<Some(input), None, None>>) = input /\ OrZero(<<Some(output), None, None>>) = output
    BY FirstOfThree, SomeIs DEF OrZero
<1>4. OrZero(<<None, None, None, None, Some(read)>>) = read
    BY FirstOfFive, SomeIs DEF OrZero
<1>5. OrZero(<<None, None>>) = 0
    BY FirstOfTwo, NoneIs DEF OrZero
<1> QED
    BY <1>1, <1>2, <1>3, <1>4, <1>5 DEF CodebuddyTokens

\* Usage in the raw form of the provider.
LEMMA CodebuddyRaw ==
  ASSUME NEW input, NEW output, NEW read, NEW write, NEW x, NEW w, x.provider = None,
         x.message = Some([input |-> Some(input), output |-> Some(output), cache_read |-> Some(read)]),
         x.raw = Some(w), w["hit"] = Some(read), w["creation"] = None, w["write"] = Some(write)
  PROVE  CodebuddyTokens(x) = Tokens(Minus(Minus(input, read), write), output, read, write)
<1> DEFINE lean == [input |-> Some(input), output |-> Some(output), cache_read |-> Some(read)]
<1>1. Field(x.message, "input") = Some(input) /\ Field(x.message, "output") = Some(output)
    BY FieldIs
<1>2. \A name : Field(x.provider, name) = None /\ Field(x.raw, name) = w[name]
    BY NoneIs, FieldIs
<1> HIDE DEF lean
<1>3. \A v : /\ OrZero(<<Some(input), None, v>>) = input
             /\ OrZero(<<Some(output), None, v>>) = output
    BY FirstOfThree, SomeIs DEF OrZero
<1>4. \A u, y, v, z : OrZero(<<Some(read), u, y, v, z>>) = read
    BY FirstOfFive, SomeIs DEF OrZero
<1>5. OrZero(<<None, Some(write)>>) = write
    BY FirstOfTwo, SomeIs DEF OrZero
<1> QED
    BY <1>1, <1>2, <1>3, <1>4, <1>5 DEF CodebuddyTokens

\* Usage in providerData.
LEMMA CodebuddyProvider ==
  ASSUME NEW input, NEW output, NEW read, NEW x, x.message = None, x.raw = None,
         x.provider = Some([input |-> Some(input), output |-> Some(output), cached |-> Some(read)])
  PROVE  CodebuddyTokens(x) = Tokens(Minus(Minus(input, read), 0), output, read, 0)
<1> DEFINE lean == [input |-> Some(input), output |-> Some(output), cached |-> Some(read)]
<1>1. /\ Field(x.provider, "input") = Some(input) /\ Field(x.provider, "output") = Some(output)
      /\ x.provider # None /\ x.provider[1].cached = Some(read)
    BY FieldIs, SomeIs
<1>2. \A name : Field(x.message, name) = None /\ Field(x.raw, name) = None
    BY NoneIs
<1> HIDE DEF lean
<1>3. OrZero(<<None, Some(input), None>>) = input /\ OrZero(<<None, Some(output), None>>) = output
    BY FirstOfThree, SomeIs DEF OrZero
<1>4. OrZero(<<None, None, Some(read), None, None>>) = read
    BY FirstOfFive, SomeIs DEF OrZero
<1>5. OrZero(<<None, None>>) = 0
    BY FirstOfTwo, NoneIs DEF OrZero
<1>6. OrZero(<<x.provider[1].cached>>) = read
    BY <1>1, OneOption
<1> QED
    BY <1>1, <1>2, <1>3, <1>4, <1>5, <1>6 DEF CodebuddyTokens

\* What CodeBuddy writes.
LEMMA CodebuddyWrites ==
  ASSUME NEW c \in Call, NEW id, NEW tr, NEW path, ~IsIndex(path),
         NEW x \in CodebuddyLines(Bill[c], Noted(c, id, tr))
  PROVE  Settled("codebuddy", path, x)
<1> DEFINE b == Bill[c]
           input == b.fresh + b.read + b.write
           output == b.output + b.reasoning
           lean == [input |-> Some(input), output |-> Some(output), cache_read |-> Some(b.read)]
           provider == [input |-> Some(input), output |-> Some(output), cached |-> Some(b.read)]
           raw == [prompt |-> Some(input), completion |-> Some(output), hit |-> Some(b.read),
                   cache_read |-> Some(0), cached |-> None, creation |-> None,
                   write |-> Some(b.write)]
           n == Tokens(Minus(Minus(input, b.read), 0), output, b.read, 0)
           m == Tokens(Minus(Minus(input, b.read), b.write), output, b.read, b.write)
<1>1. /\ x.kind \in {"message", "function_call"} /\ x.calls = {c} /\ "final" \notin DOMAIN x
      /\ \/ x.message = Some(lean) /\ x.provider = None /\ x.raw = None
         \/ x.message = Some(lean) /\ x.provider = None /\ x.raw = Some(raw)
         \/ x.message = None /\ x.provider = Some(provider) /\ x.raw = None
  <2> DEFINE e == Noted(c, id, tr)
             line == [role |-> "assistant", session_id |-> Some(e.truth.session),
                      cwd |-> Some(<<"work", e.truth.project>>), timestamp |-> Some("own"),
                      message_id |-> None, trace_id |-> None,
                      conversation_request_id |-> None, model |-> Some("requested"),
                      request_model_id |-> Some(<<"custom-local", e.truth.model>>),
                      message |-> None, provider |-> None, raw |-> None] ++ e
             usual == [line EXCEPT !.message = Some(lean), !.message_id = Some(e.id)]
             detailed == [line EXCEPT !.message = Some(lean), !.raw = Some(raw),
                                      !.trace_id = Some(e.id)]
             function == [line EXCEPT !.provider = Some(provider), !.model = Some(e.truth.model),
                                      !.request_model_id = None]
  <2>1. \/ x = usual ++ [kind |-> "message"]
        \/ x = detailed ++ [kind |-> "message"]
        \/ x = function ++ [kind |-> "function_call"]
      BY DEF CodebuddyLines
  <2>2. /\ line.message = None /\ line.provider = None /\ line.raw = None /\ line.calls = {c}
        /\ {"message", "provider", "raw", "calls", "message_id", "trace_id", "model",
            "request_model_id"} \subseteq DOMAIN line
        /\ "final" \notin DOMAIN line /\ "kind" \notin DOMAIN line
      BY DEF Noted, ++
  <2> HIDE DEF line, lean, raw, provider, e
  <2>3. /\ usual.message = Some(lean) /\ usual.provider = None /\ usual.raw = None
        /\ usual.calls = {c} /\ DOMAIN usual = DOMAIN line
      BY <2>2
  <2>4. /\ detailed.message = Some(lean) /\ detailed.provider = None /\ detailed.raw = Some(raw)
        /\ detailed.calls = {c} /\ DOMAIN detailed = DOMAIN line
      BY <2>2
  <2>5. /\ function.message = None /\ function.provider = Some(provider) /\ function.raw = None
        /\ function.calls = {c} /\ DOMAIN function = DOMAIN line
      BY <2>2
  <2> HIDE DEF usual, detailed, function
  <2> QED
      BY <2>1, <2>2, <2>3, <2>4, <2>5 DEF ++
<1>2. raw["hit"] = Some(b.read) /\ raw["creation"] = None /\ raw["write"] = Some(b.write)
    OBVIOUS
<1>3. CodebuddyTokens(x) \in {n, m}
  <2> HIDE DEF raw, input, output, n, m
  <2>1. CASE x.message = Some(lean) /\ x.provider = None /\ x.raw = None
      BY <2>1, CodebuddyMessage DEF n
  <2>2. CASE x.message = Some(lean) /\ x.provider = None /\ x.raw = Some(raw)
      BY <1>2, <2>2, CodebuddyRaw DEF m
  <2>3. CASE x.message = None /\ x.provider = Some(provider) /\ x.raw = None
      BY <2>3, CodebuddyProvider DEF n
  <2> QED
      BY <1>1, <2>1, <2>2, <2>3
<1>4. Minus(Minus(input, b.read), 0) = b.fresh + b.write /\ Minus(Minus(input, b.read), b.write) = b.fresh
  <2>1. b.fresh \in Nat /\ b.read \in Nat /\ b.write \in Nat
      BY BillIsTyped
  <2> HIDE DEF b
  <2>2. Minus(input, b.read) = b.fresh + b.write /\ Minus(b.fresh + b.write, b.write) = b.fresh
      BY <2>1, MinusIs
  <2>3. Minus(b.fresh + b.write, 0) = b.fresh + b.write
      BY <2>1 DEF Minus
  <2> QED
      BY <2>2, <2>3
<1>5. /\ TotalTokens(n) = BilledTo("codebuddy", c) /\ n.read = b.read
      /\ TotalTokens(m) = BilledTo("codebuddy", c) /\ m.read = b.read
    BY <1>4, BillIsTyped DEF Tokens, TotalTokens, BilledTo, Total
<1> HIDE DEF n, m
<1>6. Matches("codebuddy", CodebuddyTokens(x), {c})
    BY <1>3, <1>5, FairOne
<1> QED
    BY <1>1, <1>6 DEF Settled, ReadsWell

\* What WorkBuddy writes.
LEMMA WorkbuddyWrites ==
  ASSUME NEW c \in Call, NEW id, NEW tr, NEW path, ~IsLedger(path),
         NEW x \in WorkbuddyLines(Bill[c], Noted(c, id, tr))
  PROVE  Settled("workbuddy", path, x)
<1> DEFINE b == Bill[c]
           usage == [input |-> b.fresh + b.read, output |-> b.output + b.reasoning,
                     cache_read |-> b.read]
           raw == [prompt |-> b.fresh + b.read, completion |-> b.output + b.reasoning,
                   hit |-> b.read, write |-> Some(b.write), creation |-> None]
           n == Tokens(Minus(b.fresh + b.read, b.read), b.output + b.reasoning, b.read, b.write)
<1>1. /\ x.kind \in {"message", "function_call"} /\ x.calls = {c} /\ "final" \notin DOMAIN x
      /\ x.message \in {None, Some(usage)} /\ x.provider = None /\ x.raw = Some(raw)
    BY DEF WorkbuddyLines, Noted, ++
<1>2. WorkbuddyTokens(x) = n
  <2>1. Field(x.raw, "write") = Some(b.write)
      BY <1>1, FieldIs
  <2>2. OrZero(<<Field(x.raw, "write"), Field(x.raw, "creation")>>) = b.write
    <3>1. \A v : OrZero(<<Some(b.write), v>>) = b.write
        BY FirstOfTwo, SomeIs DEF OrZero
    <3> QED
        BY <2>1, <3>1
  <2>3. FirstOf(<<x.message, x.provider>>) = x.message
      BY <1>1, FirstOfTwo
  <2> HIDE DEF b
  <2>4. CASE x.message = None
      BY <1>1, <2>2, <2>3, <2>4, SomeIs DEF WorkbuddyTokens
  <2>5. CASE x.message = Some(usage)
    <3>1. x.message # None /\ x.message[1] = usage
        BY <2>5, SomeIs
    <3> QED
        BY <2>2, <2>3, <3>1 DEF WorkbuddyTokens
  <2> QED
      BY <1>1, <2>4, <2>5
<1>3. Matches("workbuddy", n, {c})
  <2>0. Minus(b.fresh + b.read, b.read) = b.fresh
    <3>1. b.fresh \in Nat /\ b.read \in Nat
        BY BillIsTyped
    <3> HIDE DEF b
    <3> QED
        BY <3>1, MinusIs
  <2>1. TotalTokens(n) = BilledTo("workbuddy", c) /\ n.read = b.read
      BY <2>0, BillIsTyped DEF Tokens, TotalTokens, BilledTo, Total
  <2> HIDE DEF n
  <2> QED
      BY <2>1, FairOne
<1> QED
    BY <1>1, <1>2, <1>3 DEF Settled, ReadsWell

\* What WorkBuddy enters in its ledger for a whole session.
LEMMA SessionWrites ==
  ASSUME NEW S \in SUBSET Call, IsFiniteSet(S), NEW e, e.calls = S, NEW path, IsLedger(path)
  PROVE  Settled("workbuddy", path, WorkbuddySession(TotalSum(S), e))
<1> DEFINE x == WorkbuddySession(TotalSum(S), e)
<1>1. x.kind = "session" /\ x.calls = S /\ "final" \notin DOMAIN x /\ x.used = TotalSum(S)
    BY DEF WorkbuddySession
<1>2. Matches("workbuddy", Tokens(x.used, 0, 0, 0), x.calls)
    BY <1>1, FairSession
<1> HIDE DEF x
<1>3. Settled("workbuddy", path, x)
    BY <1>1, <1>2 DEF Settled, ReadsWell
<1> QED
    BY <1>3 DEF x

\* A counter under the first of three spellings, or of two, that the object has.
LEMMA PickOfThree ==
  ASSUME NEW u, NEW k, NEW l, NEW m
  PROVE  PickNumber(u, <<k, l, m>>) = IF k \in DOMAIN u THEN u[k]
                                      ELSE IF l \in DOMAIN u THEN u[l]
                                      ELSE IF m \in DOMAIN u THEN u[m] ELSE 0
<1> DEFINE opt(key) == IF key \in DOMAIN u THEN Some(u[key]) ELSE None
<1>1. PickNumber(u, <<k, l, m>>) = OrZero(<<opt(k), opt(l), opt(m)>>)
  <2>1. [i \in DOMAIN <<k, l, m>> |-> opt(<<k, l, m>>[i])] = <<opt(k), opt(l), opt(m)>>
    <3> HIDE DEF opt
    <3> QED
        OBVIOUS
  <2> QED
      BY <2>1 DEF PickNumber
<1>2. /\ \A key : key \in DOMAIN u => opt(key) # None /\ opt(key) = Some(u[key])
      /\ \A key : key \notin DOMAIN u => opt(key) = None
    BY SomeIs
<1> HIDE DEF opt
<1> QED
    BY <1>1, <1>2, FirstOfThree, SomeIs, NoneIs DEF OrZero

\* The counter under the first of two names.
LEMMA PickOfTwo ==
  ASSUME NEW u, NEW k, NEW l
  PROVE  PickNumber(u, <<k, l>>) = IF k \in DOMAIN u THEN u[k]
                                   ELSE IF l \in DOMAIN u THEN u[l] ELSE 0
<1> DEFINE opt(key) == IF key \in DOMAIN u THEN Some(u[key]) ELSE None
<1>1. PickNumber(u, <<k, l>>) = OrZero(<<opt(k), opt(l)>>)
  <2>1. [i \in DOMAIN <<k, l>> |-> opt(<<k, l>>[i])] = <<opt(k), opt(l)>>
    <3> HIDE DEF opt
    <3> QED
        OBVIOUS
  <2> QED
      BY <2>1 DEF PickNumber
<1>2. /\ \A key : key \in DOMAIN u => opt(key) # None /\ opt(key) = Some(u[key])
      /\ \A key : key \notin DOMAIN u => opt(key) = None
    BY SomeIs
<1> HIDE DEF opt
<1> QED
    BY <1>1, <1>2, FirstOfTwo, SomeIs, NoneIs DEF OrZero

\* What OpenClaw writes.
LEMMA OpenClawWrites ==
  ASSUME NEW c \in Call, NEW id, NEW tr, NEW path,
         NEW x \in OpenClawLines(Bill[c], Noted(c, id, tr))
  PROVE  Settled("openclaw", path, x)
<1> DEFINE b == Bill[c]
           own == [input |-> b.fresh, output |-> b.output, cacheRead |-> b.read,
                   cacheWrite |-> b.write, reasoningTokens |-> b.reasoning]
           openai == [prompt_tokens |-> b.fresh + b.read + b.write, completion_tokens |-> b.output,
                      details_cached_tokens |-> b.read, details_cache_write_tokens |-> b.write,
                      details_reasoning_tokens |-> b.reasoning]
           anthropic == [input_tokens |-> b.fresh, output_tokens |-> b.output + b.reasoning,
                         cache_read_input_tokens |-> b.read,
                         cache_creation_input_tokens |-> b.write]
           n == Tokens(b.fresh, b.output + b.reasoning, b.read, b.write)
<1>1. /\ x.kind = "message" /\ x.calls = {c} /\ "final" \notin DOMAIN x
      /\ x.usage \in {own, openai, anthropic}
    BY DEF OpenClawLines, Noted, ++
<1>2. /\ b.fresh \in Nat /\ b.read \in Nat /\ b.write \in Nat /\ b.output \in Nat
      /\ b.reasoning \in Nat
    BY BillIsTyped
<1>3. Matches("openclaw", n, {c})
  <2>1. TotalTokens(n) = BilledTo("openclaw", c) /\ n.read = b.read
      BY <1>2 DEF Tokens, TotalTokens, BilledTo, Total
  <2> HIDE DEF n
  <2> QED
      BY <2>1, FairOne
<1> HIDE DEF b
<1>4. ParseUsage(own) = n
  <2>1. DOMAIN own = {"input", "output", "cacheRead", "cacheWrite", "reasoningTokens"}
      OBVIOUS
  <2>2. /\ own["input"] = b.fresh /\ own["output"] = b.output /\ own["cacheRead"] = b.read
        /\ own["cacheWrite"] = b.write /\ own["reasoningTokens"] = b.reasoning
      OBVIOUS
  <2> HIDE DEF own
  <2>3. /\ PickNumber(own, CacheReadKeys) = b.read /\ PickNumber(own, CacheWriteKeys) = b.write
        /\ PickNumber(own, InputKeys) = b.fresh /\ PickNumber(own, OutputKeys) = b.output
        /\ PickNumber(own, ReasoningKeys) = b.reasoning
      BY <2>1, <2>2, PickOfThree, PickOfTwo
         DEF CacheReadKeys, CacheWriteKeys, InputKeys, OutputKeys, ReasoningKeys
  <2>4. /\ HasAny(own, {"input"}) /\ ~HasAny(own, {"details_cached_tokens"})
      BY <2>1 DEF HasAny
  <2>5. Minus(b.fresh, 0) = b.fresh
      BY <1>2 DEF Minus
  <2> QED
      BY <2>3, <2>4, <2>5 DEF ParseUsage
<1>5. ParseUsage(openai) = n
  <2>1. DOMAIN openai = {"prompt_tokens", "completion_tokens", "details_cached_tokens",
                         "details_cache_write_tokens", "details_reasoning_tokens"}
      OBVIOUS
  <2>2. /\ openai["prompt_tokens"] = b.fresh + b.read + b.write
        /\ openai["completion_tokens"] = b.output /\ openai["details_cached_tokens"] = b.read
        /\ openai["details_cache_write_tokens"] = b.write
        /\ openai["details_reasoning_tokens"] = b.reasoning
      OBVIOUS
  <2> HIDE DEF openai
  <2>3. /\ PickNumber(openai, CacheReadKeys) = b.read
        /\ PickNumber(openai, CacheWriteKeys) = b.write
        /\ PickNumber(openai, InputKeys) = b.fresh + b.read + b.write
        /\ PickNumber(openai, OutputKeys) = b.output
        /\ PickNumber(openai, ReasoningKeys) = b.reasoning
      BY <2>1, <2>2, PickOfThree, PickOfTwo
         DEF CacheReadKeys, CacheWriteKeys, InputKeys, OutputKeys, ReasoningKeys
  <2>4. /\ ~HasAny(openai, {"input"}) /\ HasAny(openai, {"details_cached_tokens"})
        /\ HasAny(openai, {"details_cache_write_tokens"})
      BY <2>1 DEF HasAny
  <2>5. Minus(b.fresh + b.read + b.write, b.read + b.write) = b.fresh
      BY <1>2 DEF Minus
  <2> QED
      BY <2>3, <2>4, <2>5 DEF ParseUsage
<1>6. ParseUsage(anthropic) = n
  <2>1. DOMAIN anthropic = {"input_tokens", "output_tokens", "cache_read_input_tokens",
                            "cache_creation_input_tokens"}
      OBVIOUS
  <2>2. /\ anthropic["input_tokens"] = b.fresh
        /\ anthropic["output_tokens"] = b.output + b.reasoning
        /\ anthropic["cache_read_input_tokens"] = b.read
        /\ anthropic["cache_creation_input_tokens"] = b.write
      OBVIOUS
  <2> HIDE DEF anthropic
  <2>3. /\ PickNumber(anthropic, CacheReadKeys) = b.read
        /\ PickNumber(anthropic, CacheWriteKeys) = b.write
        /\ PickNumber(anthropic, InputKeys) = b.fresh
        /\ PickNumber(anthropic, OutputKeys) = b.output + b.reasoning
        /\ PickNumber(anthropic, ReasoningKeys) = 0
      BY <2>1, <2>2, PickOfThree, PickOfTwo
         DEF CacheReadKeys, CacheWriteKeys, InputKeys, OutputKeys, ReasoningKeys
  <2>4. /\ ~HasAny(anthropic, {"input"}) /\ ~HasAny(anthropic, {"details_cached_tokens"})
        /\ ~HasAny(anthropic, {"details_cache_write_tokens"})
      BY <2>1 DEF HasAny
  <2>5. Minus(b.fresh, 0 + 0) = b.fresh /\ b.output + b.reasoning + 0 = b.output + b.reasoning
      BY <1>2 DEF Minus
  <2> QED
      BY <2>3, <2>4, <2>5 DEF ParseUsage
<1> HIDE DEF own, openai, anthropic, n
<1>7. ParseUsage(x.usage) = n
    BY <1>1, <1>4, <1>5, <1>6
<1> QED
    BY <1>1, <1>3, <1>7 DEF Settled, ReadsWell

\* What AtomCode writes.
LEMMA AtomCodeWrites ==
  ASSUME NEW c \in Call, NEW id, NEW tr, NEW path,
         NEW x \in AtomCodeTurns(path.ext, Bill[c], Noted(c, id, tr))
  PROVE  Settled("atomcode", path, x) /\ x.kind \in {"turn", "detached"}
<1> DEFINE b == Bill[c]
           u == [model_id |-> Some(tr.model), tokens |-> Some(AtomTokens(b))]
           n == Tokens(b.fresh + b.write, b.output + b.reasoning, b.read, 0)
           m == Tokens(AtomTotal(b), 0, 0, 0)
<1>1. /\ x.calls = {c} /\ "final" \notin DOMAIN x
      /\ \/ path.ext \in {"index", "meta"} /\ x.kind = "turn" /\ x.model_usage = <<u>>
         \/ path.ext = "index" /\ x.kind = "detached" /\ x.usage = u
         \/ /\ path.ext = "meta" /\ x.kind = "turn" /\ x.model_usage = <<>>
            /\ x.used_tokens = Some(AtomTotal(b)) /\ x.total_tokens = None
         \/ /\ path.ext = "json" /\ x.kind = "turn" /\ x.model_usage = <<>>
            /\ x.used_tokens = None /\ x.total_tokens = Some(AtomTotal(b))
  <2> DEFINE e == Noted(c, id, tr)
             turn == [kind |-> "turn", turn_id |-> Some(e.id), used_tokens |-> None,
                      total_tokens |-> None, model_usage |-> <<>>] ++ e
             rich == [turn EXCEPT !.model_usage = <<u>>, !.total_tokens = Some(1000)]
             nameless == [rich EXCEPT !.turn_id = None]
             counted == [turn EXCEPT !.used_tokens = Some(AtomTotal(b))]
             grown == [turn EXCEPT !.total_tokens = Some(AtomTotal(b))]
             detached == [kind |-> "detached", usage |-> u] ++ e
  <2>1. e.truth.model = tr.model
      BY DEF Noted
  <2>2. \/ path.ext = "index" /\ x \in {rich, nameless, detached}
        \/ path.ext = "meta" /\ x \in {rich, nameless, counted}
        \/ path.ext = "json" /\ x = grown
      BY <2>1 DEF AtomCodeTurns
  <2>3. /\ turn.kind = "turn" /\ turn.used_tokens = None /\ turn.total_tokens = None
        /\ turn.model_usage = <<>> /\ turn.calls = {c} /\ "final" \notin DOMAIN turn
        /\ {"kind", "used_tokens", "total_tokens", "model_usage", "calls"} \subseteq DOMAIN turn
      BY DEF Noted, ++
  <2>4. /\ detached.kind = "detached" /\ detached.usage = u /\ detached.calls = {c}
        /\ "final" \notin DOMAIN detached
      BY DEF Noted, ++
  <2> HIDE DEF turn, u, e, detached
  <2>5. /\ rich.kind = "turn" /\ rich.model_usage = <<u>> /\ rich.calls = {c}
        /\ DOMAIN rich = DOMAIN turn
      BY <2>3
  <2> HIDE DEF rich
  <2>8. /\ nameless.kind = "turn" /\ nameless.model_usage = <<u>> /\ nameless.calls = {c}
        /\ DOMAIN nameless = DOMAIN turn
      BY <2>5
  <2>6. /\ counted.kind = "turn" /\ counted.model_usage = <<>> /\ counted.calls = {c}
        /\ DOMAIN counted = DOMAIN turn /\ counted.total_tokens = None
        /\ counted.used_tokens = Some(AtomTotal(b))
      BY <2>3
  <2>7. /\ grown.kind = "turn" /\ grown.model_usage = <<>> /\ grown.calls = {c}
        /\ DOMAIN grown = DOMAIN turn /\ grown.used_tokens = None
        /\ grown.total_tokens = Some(AtomTotal(b))
      BY <2>3
  <2> HIDE DEF nameless, counted, grown
  <2> QED
      BY <2>2, <2>3, <2>4, <2>5, <2>6, <2>7, <2>8
<1>2. Matches("atomcode", n, {c}) /\ Matches("atomcode", m, {c})
  <2>1. /\ TotalTokens(n) = BilledTo("atomcode", c) /\ n.read = b.read
        /\ TotalTokens(m) = BilledTo("atomcode", c) /\ m.read = 0
      BY BillIsTyped DEF Tokens, TotalTokens, BilledTo, Total, AtomTotal
  <2> HIDE DEF n, m
  <2> QED
      BY <2>1, FairOne
<1>3. /\ u.tokens[1].input = b.fresh + b.write /\ u.tokens[1].output = b.output + b.reasoning
      /\ u.tokens[1].cached_input = b.read
    BY SomeIs DEF AtomTokens
<1>4. AtomUsage("atomcode", u, x)
    BY <1>1, <1>2, <1>3 DEF AtomUsage
<1>5. Matches("atomcode", Tokens(0, 0, 0, 0), {c})
    BY DEF Matches, Tokens, TotalTokens
<1> HIDE DEF u, n
<1>6. ReadsWell("atomcode", path, x)
  <2>1. CASE x.kind = "turn" /\ x.model_usage = <<u>> /\ path.ext \in {"index", "meta"}
      BY <1>4, <2>1 DEF ReadsWell
  <2>2. CASE path.ext = "index" /\ x.kind = "detached" /\ x.usage = u
      BY <1>4, <2>2 DEF ReadsWell
  <2>3. CASE /\ path.ext = "meta" /\ x.kind = "turn" /\ x.model_usage = <<>>
             /\ x.used_tokens = Some(AtomTotal(b)) /\ x.total_tokens = None
      BY <1>1, <1>2, <2>3, SomeIs DEF ReadsWell
  <2>4. CASE /\ path.ext = "json" /\ x.kind = "turn" /\ x.model_usage = <<>>
             /\ x.used_tokens = None /\ x.total_tokens = Some(AtomTotal(b))
      BY <1>1, <1>2, <1>5, <2>4, SomeIs, NoneIs DEF ReadsWell
  <2> QED
      BY <1>1, <2>1, <2>2, <2>3, <2>4
<1> QED
    BY <1>1, <1>6 DEF Settled

\* The first field of a number.
LEMMA FirstFieldAt ==
  ASSUME NEW fields, DOMAIN fields \subseteq Nat, NEW number, NEW wire, NEW i \in DOMAIN fields,
         fields[i].number = number, \A j \in DOMAIN fields : j < i => fields[j].number # number
  PROVE  FirstField(fields, number, wire) = IF fields[i].wire = wire THEN Some(fields[i].value) ELSE None
<1> DEFINE of == {k \in DOMAIN fields : fields[k].number = number}
<1>1. of \subseteq Nat /\ i \in of
    OBVIOUS
<1>2. Min(of) \in of /\ \A n \in of : Min(of) <= n
    BY <1>1, LeastIs
<1>3. Min(of) <= i /\ ~ Min(of) < i
    BY <1>1, <1>2
<1>4. Min(of) = i
    BY <1>1, <1>2, <1>3
<1> QED
    BY <1>1, <1>4 DEF FirstField

\* No field has the number.
LEMMA FirstFieldNone ==
  ASSUME NEW fields, NEW number, NEW wire, \A j \in DOMAIN fields : fields[j].number # number
  PROVE  FirstField(fields, number, wire) = None
BY DEF FirstField

\* What Antigravity writes.
LEMMA AntigravityWrites ==
  ASSUME NEW c \in Call, NEW id, NEW tr, NEW path,
         NEW x \in AntigravitySteps(Bill[c], Noted(c, id, tr))
  PROVE  /\ Settled("antigravity", path, x) /\ x.kind = "step"
         /\ {"tokens", "calls", "kind"} \subseteq DOMAIN x
<1> DEFINE b == Bill[c]
           total == b.fresh + b.read + b.write
           output == b.output + b.reasoning
           stats == <<Varint(2, total), Varint(3, output), Varint(5, b.read)>>
           time == <<Varint(1, "own")>>
           fields == <<Bytes(1, time), Bytes(9, stats)>>
           n == Tokens(total - b.read, output, b.read, 0)
<1>1. /\ x.kind = "step" /\ x.calls = {c} /\ "final" \notin DOMAIN x /\ x.tokens = Some(fields)
      /\ {"tokens", "calls", "kind"} \subseteq DOMAIN x
    BY DEF AntigravitySteps, Noted, ++
<1>2. total \in Nat /\ output \in Nat /\ b.read \in Nat /\ ~(total < b.read)
    BY BillIsTyped
<1>3. FirstVarint(time, 1) = Some("own")
  <2>1. DOMAIN time = {1} /\ time[1].number = 1 /\ time[1].wire = "varint" /\ time[1].value = "own"
      BY DEF Varint
  <2> HIDE DEF time
  <2> QED
      BY <2>1, FirstFieldAt DEF FirstVarint
<1>4. /\ FirstVarint(stats, 2) = Some(total) /\ FirstVarint(stats, 3) = Some(output)
      /\ FirstVarint(stats, 5) = Some(b.read)
  <2>1. /\ DOMAIN stats = {1, 2, 3} /\ stats[1].number = 2 /\ stats[1].wire = "varint"
        /\ stats[1].value = total /\ stats[2].number = 3 /\ stats[2].wire = "varint"
        /\ stats[2].value = output /\ stats[3].number = 5 /\ stats[3].wire = "varint"
        /\ stats[3].value = b.read
    <3> HIDE DEF b, total, output
    <3> QED
        BY DEF Varint
  <2> HIDE DEF stats, total, output, b
  <2>2. FirstVarint(stats, 2) = Some(total)
      BY <2>1, FirstFieldAt DEF FirstVarint
  <2>3. FirstVarint(stats, 3) = Some(output)
    <3>1. 2 \in DOMAIN stats /\ \A j \in DOMAIN stats : j < 2 => stats[j].number # 3
        BY <2>1
    <3> QED
        BY <2>1, <3>1, FirstFieldAt DEF FirstVarint
  <2>4. FirstVarint(stats, 5) = Some(b.read)
    <3>1. 3 \in DOMAIN stats /\ \A j \in DOMAIN stats : j < 3 => stats[j].number # 5
        BY <2>1
    <3> QED
        BY <2>1, <3>1, FirstFieldAt DEF FirstVarint
  <2> QED
      BY <2>2, <2>3, <2>4
<1> HIDE DEF stats, time, total, output
<1>5. FirstField(fields, 1, "bytes") = Some(time) /\ FirstField(fields, 9, "bytes") = Some(stats)
  <2>1. /\ DOMAIN fields = {1, 2} /\ fields[1].number = 1 /\ fields[1].wire = "bytes"
        /\ fields[1].value = time /\ fields[2].number = 9 /\ fields[2].wire = "bytes"
        /\ fields[2].value = stats
      BY DEF Bytes
  <2> HIDE DEF fields
  <2>2. FirstField(fields, 1, "bytes") = Some(time)
      BY <2>1, FirstFieldAt
  <2>3. FirstField(fields, 9, "bytes") = Some(stats)
    <3>1. 2 \in DOMAIN fields /\ \A j \in DOMAIN fields : j < 2 => fields[j].number # 9
        BY <2>1
    <3> QED
        BY <2>1, <3>1, FirstFieldAt
  <2> QED
      BY <2>2, <2>3
<1> HIDE DEF fields
<1>6. DecodeGenMetadata(fields) # None /\ DecodeGenMetadata(fields)[1].tokens = n
  <2>1. /\ OrZero(<<Some(total)>>) = total /\ OrZero(<<Some(output)>>) = output
        /\ OrZero(<<Some(b.read)>>) = b.read
      BY OneOption
  <2>2. Some(time) # None /\ Some(time)[1] = time /\ Some(stats) # None /\ Some(stats)[1] = stats
        /\ Some("own") # None
      BY SomeIs
  <2> HIDE DEF b
  <2>3. DecodeGenMetadata(fields) = Some([at |-> Some("own")[1], tokens |-> n])
      BY <1>2, <1>3, <1>4, <1>5, <2>1, <2>2 DEF DecodeGenMetadata
  <2> QED
      BY <2>3, SomeIs
<1>7. Matches("antigravity", n, {c})
  <2>1. TotalTokens(n) = BilledTo("antigravity", c) /\ n.read = b.read
      BY BillIsTyped DEF Tokens, TotalTokens, BilledTo, Total, total, output
  <2> HIDE DEF n
  <2> QED
      BY <2>1, FairOne
<1>8. x.tokens[1] = fields
    BY <1>1, SomeIs
<1>9. ReadsWell("antigravity", path, x)
    BY <1>1, <1>6, <1>7, <1>8 DEF ReadsWell
<1> QED
    BY <1>1, <1>9 DEF Settled

\* A step without statistics: nothing is decoded of it.
LEMMA StepInFlight ==
  ASSUME NEW path, NEW row, Settled("antigravity", path, row), row.kind = "step",
         {"tokens", "calls", "kind"} \subseteq DOMAIN row,
         NEW x \in InFlight(row, NoStats)
  PROVE  Pending("antigravity", path, x)
<1>1. PICK n \in {None, Some(NoStats)} : x = [row EXCEPT !.tokens = n, !.calls = {}] ++ [final |-> row]
    BY DEF InFlight
<1>2. /\ "final" \in DOMAIN x /\ x.final = row /\ x.calls = {} /\ x.kind = "step" /\ x.tokens = n
    BY <1>1 DEF ++, Settled
<1>3. DecodeGenMetadata(NoStats) = None
  <2>1. DOMAIN NoStats = {1} /\ NoStats[1].number = 1
      BY DEF NoStats, Bytes
  <2>2. FirstField(NoStats, 9, "bytes") = None
      BY <2>1, FirstFieldNone
  <2> QED
      BY <2>2 DEF DecodeGenMetadata
<1>4. x.tokens # None => x.tokens[1] = NoStats
    BY <1>2, SomeIs
<1>5. ReadsWell("antigravity", path, x)
    BY <1>2, <1>3, <1>4 DEF ReadsWell
<1> QED
    BY <1>2, <1>5 DEF Pending

-----------------------------------------------------------------------------
(* What can be done to the content of a file. *)

\* For a store the path does not matter, for any other file its extension and directory do.
LEMMA StoredReads ==
  ASSUME NEW t, IsStored(t), NEW p, NEW q, NEW x, GoodEntry(t, p, x)
  PROVE  GoodEntry(t, q, x)
<1>1. \A y : ReadsWell(t, p, y) = ReadsWell(t, q, y)
    BY DEF IsStored, ReadsWell
<1> QED
    BY <1>1 DEF GoodEntry, Settled, Pending

\* For any other file its extension and directory do.
LEMMA SameKindReads ==
  ASSUME NEW t, NEW p, NEW q, p.ext = q.ext, p.dir = q.dir
  PROVE  /\ \A x : GoodEntry(t, p, x) = GoodEntry(t, q, x)
         /\ \A content : GoodContent(t, p, content) => GoodContent(t, q, content)
<1>1. /\ IsIndex(p) = IsIndex(q) /\ IsLedger(p) = IsLedger(q)
      /\ IsLegacyMessage(p) = IsLegacyMessage(q) /\ IsStoreFile(p) = IsStoreFile(q)
      /\ IsJsonl(p) = IsJsonl(q)
    BY DEF IsIndex, IsLedger, IsLegacyMessage, IsStoreFile, IsJsonl
<1>2. \A x : ReadsWell(t, p, x) = ReadsWell(t, q, x)
    BY <1>1 DEF ReadsWell
<1>3. \A x : GoodEntry(t, p, x) = GoodEntry(t, q, x)
    BY <1>2 DEF GoodEntry, Settled, Pending
<1>4. \A content : WholeContent(t, p, content) <=> WholeContent(t, q, content)
    BY <1>1, <1>3 DEF WholeContent, OpenContent, Fits, MayBeEmpty
<1>5. \A whole : Halved(t, p, whole) = Halved(t, q, whole)
    BY <1>1 DEF Halved, IsDocument
<1>6. \A content : TornContent(t, p, content) => TornContent(t, q, content)
    BY <1>1, <1>4, <1>5 DEF TornContent, IsDocument
<1> QED
    BY <1>3, <1>4, <1>6 DEF GoodContent

\* Entries that fit are appended.
LEMMA Extends ==
  ASSUME NEW t, NEW path, NEW head, OpenContent(t, path, head), NEW tail, IsSeq(tail),
         \A i \in DOMAIN tail : GoodEntry(t, path, tail[i]) /\ Fits(t, path, tail[i])
  PROVE  /\ OpenContent(t, path, head \o tail)
         /\ tail # <<>> => WholeContent(t, path, head \o tail)
<1> DEFINE both == head \o tail
           S == ToSet(head) \cup ToSet(tail)
<1>1. head \in Seq(S) /\ tail \in Seq(S)
    BY SeqMonotonic DEF IsSeq, OpenContent
<1>2. /\ Len(head) \in Nat /\ Len(tail) \in Nat
      /\ DOMAIN head = 1 .. Len(head) /\ DOMAIN tail = 1 .. Len(tail)
    BY SeqShape DEF OpenContent
<1>3. /\ both \in Seq(S) /\ Len(both) = Len(head) + Len(tail)
      /\ \A i \in 1 .. Len(head) + Len(tail) :
            both[i] = IF i <= Len(head) THEN head[i] ELSE tail[i - Len(head)]
    BY <1>1, ConcatProperties
<1>4. DOMAIN both = 1 .. Len(head) + Len(tail) /\ IsSeq(both)
    BY <1>3, ConcatIsSeq, LenProperties DEF OpenContent
<1> HIDE DEF both
<1>5. \A i \in DOMAIN both : \/ i \in DOMAIN head /\ both[i] = head[i]
                             \/ \E j \in DOMAIN tail : both[i] = tail[j] /\ i = j + Len(head)
  <2> SUFFICES ASSUME NEW i \in DOMAIN both, i \notin DOMAIN head
               PROVE  \E j \in DOMAIN tail : both[i] = tail[j] /\ i = j + Len(head)
      BY <1>2, <1>3, <1>4
  <2>1. i - Len(head) \in DOMAIN tail /\ both[i] = tail[i - Len(head)]
        /\ i = (i - Len(head)) + Len(head)
      BY <1>2, <1>3, <1>4
  <2> QED
      BY <2>1
<1>6. \A i \in DOMAIN both : GoodEntry(t, path, both[i])
    BY <1>5 DEF OpenContent
<1>7. ASSUME NEW i \in DOMAIN both, i # 1 \/ t = "opencode" PROVE Fits(t, path, both[i])
    BY <1>5, <1>7 DEF OpenContent
<1>8. t = "atomcode" => both # <<>> /\ both[1].kind = "header"
  <2> SUFFICES ASSUME t = "atomcode" PROVE both # <<>> /\ both[1].kind = "header"
      OBVIOUS
  <2>1. head # <<>> /\ head[1].kind = "header"
      BY DEF OpenContent
  <2>2. Len(head) # 0
      BY <1>1, <2>1, EmptySeq
  <2>3. 1 \in 1 .. Len(head) + Len(tail) /\ 1 <= Len(head)
      BY <1>2, <2>2
  <2>4. both[1] = head[1] /\ 1 \in DOMAIN both
      BY <1>3, <1>4, <2>3
  <2>5. both # <<>>
      BY <2>4
  <2> QED
      BY <2>1, <2>4, <2>5
<1>9. OpenContent(t, path, both)
    BY <1>4, <1>6, <1>7, <1>8 DEF OpenContent
<1>10. tail # <<>> => both # <<>>
  <2> SUFFICES ASSUME tail # <<>> PROVE both # <<>>
      OBVIOUS
  <2>1. Len(tail) # 0
      BY <1>1, EmptySeq
  <2>2. 1 \in DOMAIN both
      BY <1>2, <1>4, <2>1
  <2> QED
      BY <2>2
<1> QED
    BY <1>9, <1>10 DEF WholeContent, both

\* Some entries are replaced.
LEMMA Replaces ==
  ASSUME NEW t, NEW path, NEW old, WholeContent(t, path, old), t # "atomcode",
         NEW new, new = [i \in DOMAIN old |-> new[i]],
         \A i \in DOMAIN old : GoodEntry(t, path, new[i]) /\ Fits(t, path, new[i])
  PROVE  WholeContent(t, path, new)
<1>1. IsSeq(old) /\ Len(old) \in Nat /\ DOMAIN old = 1 .. Len(old)
    BY SeqShape DEF WholeContent, OpenContent
<1>2. DOMAIN new = 1 .. Len(old) /\ new = [i \in 1 .. Len(old) |-> new[i]]
    BY <1>1
<1>3. IsSeq(new) /\ Len(new) = Len(old)
    BY <1>1, <1>2, SeqIntro
<1>4. new = <<>> => old = <<>>
  <2> SUFFICES ASSUME new = <<>> PROVE old = <<>>
      OBVIOUS
  <2>1. Len(old) = 0
      BY <1>3
  <2> QED
      BY <1>1, <2>1, EmptySeq DEF IsSeq
<1> QED
    BY <1>2, <1>1, <1>3, <1>4 DEF WholeContent, OpenContent

\* A whole file shows no half of an entry.
LEMMA WholeIsNotTorn ==
  ASSUME NEW t, NEW path, NEW content, WholeContent(t, path, content)
  PROVE  \A i \in DOMAIN content : content[i].kind # "torn"
BY DEF WholeContent, OpenContent, GoodEntry, Settled, Pending

\* What is torn says so in its last entry.
LEMMA TornShows ==
  ASSUME NEW t, NEW path, NEW content, TornContent(t, path, content)
  PROVE  /\ \E i \in DOMAIN content : content[i].kind = "torn"
         /\ WholeContent(t, path, Last(content).whole)
         /\ IsDocument(t, path) => IsTorn(content)
         /\ IsSeq(content)
         /\ ~IsDocument(t, path) => \A i \in DOMAIN content :
                \/ content[i].kind = "torn" /\ content[i].calls = {}
                \/ GoodEntry(t, path, content[i])
<1> DEFINE whole == Last(content).whole
           half == Torn(whole)
<1>1. WholeContent(t, path, whole) /\ content = Halved(t, path, whole)
    BY DEF TornContent
<1>2. half.kind = "torn" /\ half.whole = whole /\ half.calls = {}
    BY DEF Torn, Noise, ++
<1> HIDE DEF half, whole
<1>3. CASE IsDocument(t, path)
  <2>1. content = <<half>>
      BY <1>1, <1>3 DEF Halved, half
  <2>2. 1 \in DOMAIN content /\ content[1] = half /\ content # <<>>
      BY <2>1
  <2> QED
      BY <1>1, <1>2, <1>3, <2>1, <2>2, OneIsSeq DEF IsTorn, whole
<1>4. CASE ~IsDocument(t, path)
  <2> DEFINE front == Front(whole)
  <2>1. content = Append(front, half)
      BY <1>1, <1>4 DEF Halved, half
  <2>2. /\ IsSeq(whole) /\ Len(whole) \in Nat /\ DOMAIN whole = 1 .. Len(whole)
        /\ whole \in Seq(ToSet(whole))
      BY <1>1, SeqShape DEF WholeContent, OpenContent, IsSeq
  <2>3. front \in Seq(ToSet(whole)) /\ \A i \in DOMAIN front : i \in DOMAIN whole /\ front[i] = whole[i]
    <3>1. CASE Len(whole) = 0
      <4>1. front = <<>>
          BY <3>1 DEF Front
      <4> QED
          BY <4>1
    <3>2. CASE Len(whole) # 0
      <4>1. 1 \in 1 .. Len(whole) + 1 /\ Len(whole) - 1 \in 1 - 1 .. Len(whole)
          BY <2>2, <3>2
      <4>2. /\ front \in Seq(ToSet(whole)) /\ Len(front) = Len(whole) - 1
            /\ \A k \in 1 .. Len(whole) - 1 : front[k] = whole[k]
          BY <2>2, <3>2, <4>1, SubSeqProperties DEF Front
      <4>3. DOMAIN front = 1 .. Len(whole) - 1
          BY <2>2, <4>2, LenProperties
      <4> QED
          BY <2>2, <4>2, <4>3
    <3> QED
        BY <3>1, <3>2
  <2> HIDE DEF front
  <2> DEFINE T == ToSet(whole) \cup {half}
  <2>4. front \in Seq(T) /\ half \in T
      BY <2>3, SeqMonotonic
  <2>5. /\ content \in Seq(T) /\ Len(content) = Len(front) + 1
        /\ \A i \in 1 .. Len(front) : content[i] = front[i]
        /\ content[Len(front) + 1] = half
      BY <2>1, <2>4, AppendProperties
  <2>6. Len(front) \in Nat /\ DOMAIN front = 1 .. Len(front) /\ DOMAIN content = 1 .. Len(front) + 1
      BY <2>4, <2>5, LenProperties
  <2>7. \A i \in DOMAIN content : i \in DOMAIN front \/ i = Len(front) + 1
      BY <2>6
  <2>8. \A i \in DOMAIN content : content[i] \in ToSet(content)
      BY DEF ToSet
  <2>9. IsSeq(content)
      BY <2>5, <2>6, <2>8 DEF IsSeq
  <2>10. /\ content[Len(front) + 1].kind = "torn" /\ content[Len(front) + 1].calls = {}
         /\ Len(front) + 1 \in DOMAIN content
      BY <1>2, <2>5, <2>6
  <2>11. ASSUME NEW i \in DOMAIN content
         PROVE  \/ content[i].kind = "torn" /\ content[i].calls = {}
                \/ GoodEntry(t, path, content[i])
    <3>1. CASE i = Len(front) + 1
        BY <2>10, <3>1
    <3>2. CASE i \in DOMAIN front
      <4>1. i \in DOMAIN whole /\ content[i] = whole[i]
          BY <2>3, <2>5, <2>6, <3>2
      <4> QED
          BY <1>1, <4>1 DEF WholeContent, OpenContent
    <3> QED
        BY <2>7, <3>1, <3>2
  <2> QED
      BY <1>1, <1>4, <2>9, <2>10, <2>11 DEF whole
<1> QED
    BY <1>3, <1>4

-----------------------------------------------------------------------------
(* What can be done to the files. *)

\* A path is what it was made of.
LEMMA FileFields ==
  ASSUME NEW root, NEW dir, NEW stem, NEW ext
  PROVE  LET p == Path(root, dir, stem, ext)
         IN  p.root = root /\ p.dir = dir /\ p.stem = stem /\ p.ext = ext /\ IsPath(p)
BY DEF Path, IsPath

\* One good file.
LEMMA OneFile ==
  ASSUME NEW t, NEW p, NEW content, FileOK(t, p, content)
  PROVE  FilesOK(t, File(p, content))
BY FS_Singleton DEF FilesOK, File

\* None.
LEMMA NoFiles == ASSUME NEW t PROVE FilesOK(t, <<>>)
<1>1. DOMAIN <<>> = {}
    OBVIOUS
<1> QED
    BY <1>1, FS_EmptySet DEF FilesOK

\* Good files beside good files.
LEMMA FilesTogether ==
  ASSUME NEW t, NEW f, NEW g, FilesOK(t, f), FilesOK(t, g)
  PROVE  FilesOK(t, f ++ g) /\ DOMAIN (f ++ g) = DOMAIN f \cup DOMAIN g
<1>1. IsFiniteSet(DOMAIN f \cup DOMAIN g)
    BY FS_Union DEF FilesOK
<1>2. /\ DOMAIN (f ++ g) = DOMAIN f \cup DOMAIN g
      /\ \A p \in DOMAIN f \cup DOMAIN g : (f ++ g)[p] = IF p \in DOMAIN f THEN f[p] ELSE g[p]
    BY DEF ++
<1> QED
    BY <1>1, <1>2 DEF FilesOK

\* Files are taken away, or change for good ones.
LEMMA FilesWithout ==
  ASSUME NEW t, NEW f, FilesOK(t, f), NEW g, NEW X,
         DOMAIN g = DOMAIN f \ X, \A p \in DOMAIN g : g[p] = f[p] \/ FileOK(t, p, g[p])
  PROVE  FilesOK(t, g)
BY FS_Subset DEF FilesOK

\* A file gets another content.
LEMMA FileChanges ==
  ASSUME NEW t, NEW f, FilesOK(t, f), NEW path, NEW content,
         path \in DOMAIN f => FileOK(t, path, content)
  PROVE  FilesOK(t, [f EXCEPT ![path] = content])
BY DEF FilesOK

\* A store is read the same beside its WAL.
LEMMA StoreIsWhole ==
  ASSUME NEW t, IsStored(t), NEW p, IsStoreFile(p), NEW content, GoodContent(t, p, content)
  PROVE  WholeContent(t, p, content)
BY DEF IsStored, IsStoreFile, GoodContent, TornContent, IsDocument, IsIndex

\* A store and its WAL are read alike.
LEMMA StoreMoves ==
  ASSUME NEW t, IsStored(t), NEW p, NEW q, IsStoreFile(p), IsStoreFile(q), NEW content,
         WholeContent(t, p, content)
  PROVE  WholeContent(t, q, content)
<1>1. ~IsLegacyMessage(p) /\ ~IsLegacyMessage(q) /\ t # "atomcode"
    BY DEF IsLegacyMessage, IsStoreFile, IsStored
<1>2. \A i \in DOMAIN content : GoodEntry(t, q, content[i]) /\ Fits(t, q, content[i])
    BY <1>1, StoredReads DEF WholeContent, OpenContent, Fits
<1>3. MayBeEmpty(t, q)
    BY DEF MayBeEmpty
<1> QED
    BY <1>1, <1>2, <1>3 DEF WholeContent, OpenContent

\* The WAL is beside its store.
LEMMA WalIs ==
  ASSUME NEW p, IsPath(p)
  PROVE  /\ IsPath(Wal(p)) /\ Wal(p).ext = "db-wal" /\ Wal(p).dir = p.dir /\ Wal(p).root = p.root
         /\ IsStoreFile(Wal(p)) /\ (IsDb(p) => IsStoreFile(p))
BY DEF IsPath, Path, Wal, IsStoreFile, IsDb

-----------------------------------------------------------------------------
(* What a tool writes. *)

\* The tool is one of the fifteen.
LEMMA ToolIsKnown ==
  ASSUME tool \in Tools
  PROVE  tool \in {"claude", "codex", "gemini", "antigravity", "codebuddy", "workbuddy", "opencode",
                   "qoder", "openclaw", "deepseek", "pi", "trae", "atomcode", "codearts", "teleagent"}
BY ToolsAreKnown

\* What a new file begins with reads well.
LEMMA HeaderOK ==
  ASSUME tool \in Tools, NEW path, tool = "workbuddy" => ~IsLedger(path)
  PROVE  OpenContent(tool, path, Header(path))
<1> DEFINE h == Header(path)
<1>1. \A x : /\ h = <<x>> /\ Settled(tool, path, x) /\ tool # "opencode"
              /\ (tool = "atomcode" => x.kind = "header")
              => OpenContent(tool, path, h)
    BY OneIsSeq DEF OpenContent, GoodEntry
<1>2. ASSUME h = <<>>, tool # "atomcode" PROVE OpenContent(tool, path, h)
    BY <1>2, EmptyIsSeq DEF OpenContent
<1> DEFINE session == [id |-> Some(Session), cwd |-> Some(<<"work", Project>>)]
<1>3. CASE tool = "codex"
  <2> DEFINE x == [session_id |-> None] ++ session ++ Noise("session_meta")
  <2>1. h = <<x>>
      BY <1>3 DEF Header
  <2>2. x.kind = "session_meta" /\ x.calls = {} /\ "final" \notin DOMAIN x
      BY DEF Noise, ++
  <2> HIDE DEF x
  <2>3. Settled(tool, path, x)
      BY <1>3, <2>2, NoiseReadsWell DEF IsStored
  <2> QED
      BY <1>1, <1>3, <2>1, <2>3
<1>4. CASE tool \in {"pi", "openclaw", "deepseek"}
  <2> DEFINE x == session ++ Noise("session")
  <2>1. h = <<x>>
      BY <1>4 DEF Header
  <2>2. x.kind = "session" /\ x.calls = {} /\ "final" \notin DOMAIN x
      BY DEF Noise, ++
  <2> HIDE DEF x
  <2>3. Settled(tool, path, x)
      BY <1>4, <2>2, NoiseReadsWell DEF IsStored
  <2> QED
      BY <1>1, <1>4, <2>1, <2>3
<1>5. CASE tool = "atomcode"
  <2> DEFINE x == AtomCodeHeader(Session, Project, model)
  <2>1. h = <<x>>
      BY <1>5 DEF Header
  <2>2. x.kind = "header" /\ x.calls = {} /\ "final" \notin DOMAIN x
      BY DEF AtomCodeHeader
  <2> HIDE DEF x
  <2>3. Settled(tool, path, x)
      BY <1>5, <2>2, NoiseReadsWell DEF IsStored
  <2> QED
      BY <1>1, <1>5, <2>1, <2>2, <2>3
<1>6. CASE tool = "antigravity"
  <2> DEFINE x == [fields |-> <<Varint(1, 0), Bytes(1, <<Text(1, <<"work", Project>>)>>)>>]
                    ++ Noise("trajectory")
  <2>1. h = <<x>>
      BY <1>6 DEF Header
  <2>2. x.kind = "trajectory" /\ x.calls = {} /\ "final" \notin DOMAIN x
      BY DEF Noise, ++
  <2> HIDE DEF x
  <2>3. Settled(tool, path, x)
      BY <1>6, <2>2, NoiseReadsWell DEF IsStored
  <2> QED
      BY <1>1, <1>6, <2>1, <2>3
<1>7. CASE tool \in {"claude", "codebuddy", "workbuddy"} /\ ~Document(path)
  <2> DEFINE x == Noise("user")
  <2>1. h = <<x>>
      BY <1>7 DEF Header
  <2>2. x.kind = "user" /\ x.calls = {} /\ "final" \notin DOMAIN x
      BY DEF Noise
  <2>3. ~IsIndex(path)
      BY <1>7 DEF Document
  <2> HIDE DEF x
  <2>4. Settled(tool, path, x)
      BY <1>7, <2>2, <2>3, NoiseReadsWell DEF IsStored
  <2> QED
      BY <1>1, <1>7, <2>1, <2>4
<1>8. CASE /\ tool \notin {"codex", "pi", "openclaw", "deepseek", "atomcode", "antigravity"}
           /\ ~(tool \in {"claude", "codebuddy", "workbuddy"} /\ ~Document(path))
  <2>1. h = <<>>
      BY <1>8 DEF Header
  <2> QED
      BY <1>2, <1>8, <2>1
<1> QED
    BY <1>3, <1>4, <1>5, <1>6, <1>7, <1>8

\* So does a line that says which model is in use.
LEMMA ContextOK ==
  ASSUME tool \in Tools, NEW path, NEW content
  PROVE  /\ IsSeq(Context(content))
         /\ \A i \in DOMAIN Context(content) :
               GoodEntry(tool, path, Context(content)[i]) /\ Fits(tool, path, Context(content)[i])
<1> DEFINE x == [model |-> Some(model)] ++ Noise(ContextKind)
           ctx == Context(content)
<1>1. ctx = <<>> \/ (ctx = <<x>> /\ ContextKind # "none")
    BY DEF Context
<1>2. ContextKind # "none" =>
        /\ tool \in {"codex", "pi", "deepseek"}
        /\ ContextKind \in {"turn_context", "model_change", "request/header"}
    BY DEF ContextKind
<1>3. x.kind = ContextKind /\ x.calls = {} /\ "final" \notin DOMAIN x
    BY DEF Noise, ++
<1> HIDE DEF x, ctx
<1>4. ContextKind # "none" => Settled(tool, path, x) /\ Fits(tool, path, x)
    BY <1>2, <1>3, NoiseReadsWell DEF IsStored, Fits
<1> QED
    BY <1>1, <1>4, EmptyIsSeq, OneIsSeq DEF GoodEntry, ctx

\* A message of a store, whichever of the four tools that have them it is.
LEMMA MessageOK ==
  ASSUME NEW c \in Call, NEW path, NEW t, IsStored(t), t # "antigravity", NEW id, NEW tr,
         NEW x, NEW more, {"calls", "tokens", "role", "kind", "final"} \cap DOMAIN more = {},
         x = MessageRow(Bill[c], Noted(c, id, tr)) ++ more
  PROVE  /\ Settled(t, path, x) /\ Fits(t, path, x)
         /\ \A y \in InFlight(x, NoTokens) : GoodEntry(t, path, y) /\ Fits(t, path, y)
<1>1. /\ Settled(t, path, x) /\ x.kind = "message"
      /\ {"role", "tokens", "calls"} \subseteq DOMAIN x
    BY MessageWrites
<1>2. "kind" \in DOMAIN x
    BY DEF MessageRow, ++
<1>3. Fits(t, path, x)
    BY <1>1 DEF Fits, IsStored
<1>4. ASSUME NEW y \in InFlight(x, NoTokens) PROVE GoodEntry(t, path, y) /\ Fits(t, path, y)
  <2>1. Pending(t, path, y) /\ {"role", "tokens", "calls"} \subseteq DOMAIN y
      BY <1>1, <1>2, MessageInFlight
  <2> QED
      BY <2>1 DEF GoodEntry, Fits, Pending, IsStored
<1> QED
    BY <1>1, <1>3, <1>4

\* An entry for one call, and its row while the call is in flight.
EntryFits(path, c, x) ==
    /\ Settled(tool, path, x) /\ Fits(tool, path, x)
    /\ IsStored(tool) =>
          \A y \in InFlight(x, IF tool = "antigravity" THEN NoStats ELSE NoTokens) :
              GoodEntry(tool, path, y) /\ Fits(tool, path, y)

\* However a call is recorded, its entry reads well and fits where it is written.
LEMMA EntryOK ==
  ASSUME tool \in Tools, NEW path, tool = "workbuddy" => ~IsLedger(path), NEW c \in Call,
         NEW x \in Entries(path, Bill[c], Noted(c, c, Truth))
  PROVE  EntryFits(path, c, x)
<1> DEFINE b == Bill[c]
           tr == Truth
           e == Noted(c, c, tr)
<1> HIDE DEF b, tr, e
<1>e. x \in Entries(path, b, e) /\ b = Bill[c] /\ e = Noted(c, c, tr)
    BY DEF b, e, tr
<1>1. CASE tool = "claude"
    BY <1>1, <1>e, ClaudeWrites DEF Entries, EntryFits, Fits, IsStored
<1>2. CASE tool = "codex"
    BY <1>2, <1>e, CodexWrites DEF Entries, EntryFits, Fits, IsStored
<1>3. CASE tool = "gemini"
    BY <1>3, <1>e, GeminiWrites DEF Entries, EntryFits, Fits, IsStored
<1>4. CASE tool = "codebuddy"
  <2>1. CASE IsIndex(path)
      BY <1>4, <1>e, <2>1, DesktopWrites DEF Entries, EntryFits, Fits, IsStored
  <2>2. CASE ~IsIndex(path)
      BY <1>4, <1>e, <2>2, CodebuddyWrites DEF Entries, EntryFits, Fits, IsStored
  <2> QED
      BY <2>1, <2>2
<1>5. CASE tool = "workbuddy"
    BY <1>5, <1>e, WorkbuddyWrites DEF Entries, EntryFits, Fits, IsStored
<1>6. CASE tool = "openclaw"
    BY <1>6, <1>e, OpenClawWrites DEF Entries, EntryFits, Fits, IsStored
<1>7. CASE tool = "deepseek"
    BY <1>7, <1>e, DeepSeekWrites DEF Entries, EntryFits, Fits, IsStored
<1>8. CASE tool = "pi"
    BY <1>8, <1>e, PiWrites DEF Entries, EntryFits, Fits, IsStored
<1>9. CASE tool = "trae"
    BY <1>9, <1>e, TraeWrites DEF Entries, EntryFits, Fits, IsStored
<1>10. CASE tool = "atomcode"
  <2>1. x \in AtomCodeTurns(path.ext, b, e)
      BY <1>10, <1>e DEF Entries
  <2>2. Settled("atomcode", path, x) /\ x.kind \in {"turn", "detached"}
      BY <1>e, <2>1, AtomCodeWrites
  <2> QED
      BY <1>10, <2>2 DEF EntryFits, Fits, IsStored
<1>11. CASE tool = "antigravity"
  <2>1. x \in AntigravitySteps(b, e)
      BY <1>11, <1>e DEF Entries
  <2>2. /\ Settled("antigravity", path, x) /\ x.kind = "step"
        /\ {"tokens", "calls", "kind"} \subseteq DOMAIN x
      BY <1>e, <2>1, AntigravityWrites
  <2>3. \A y \in InFlight(x, NoStats) : Pending("antigravity", path, y)
      BY <2>2, StepInFlight
  <2>4. \A z : Fits("antigravity", path, z)
      BY DEF Fits
  <2> QED
      BY <1>11, <2>2, <2>3, <2>4 DEF EntryFits, GoodEntry, IsStored
<1>12. CASE tool \in {"opencode", "qoder"}
  <2>1. x \in OpenCodeRows(b, e)
      BY <1>12, <1>e DEF Entries, QoderRows
  <2>2. PICK created \in {None, Some("own")} :
           x = MessageRow(b, e) ++ [cwd |-> Some(<<"work", e.truth.project>>), created |-> created]
      BY <2>1 DEF OpenCodeRows
  <2> DEFINE more == [cwd |-> Some(<<"work", e.truth.project>>), created |-> created]
  <2>3. {"calls", "tokens", "role", "kind", "final"} \cap DOMAIN more = {} /\ IsStored(tool)
      BY <1>12 DEF IsStored
  <2> HIDE DEF more
  <2>4. /\ Settled(tool, path, x) /\ Fits(tool, path, x)
        /\ \A y \in InFlight(x, NoTokens) : GoodEntry(tool, path, y) /\ Fits(tool, path, y)
      BY <1>12, <1>e, <2>2, <2>3, MessageOK DEF more
  <2> QED
      BY <1>12, <2>4 DEF EntryFits
<1>13. CASE tool = "codearts"
  <2> DEFINE more == [directory |-> <<"work", e.truth.project>>, created |-> Some("own"),
                      json_time_created |-> None]
  <2>1. x = MessageRow(b, e) ++ more
      BY <1>13, <1>e DEF Entries, CodeArtsRows
  <2>2. {"calls", "tokens", "role", "kind", "final"} \cap DOMAIN more = {} /\ IsStored(tool)
      BY <1>13 DEF IsStored
  <2> HIDE DEF more
  <2>3. /\ Settled(tool, path, x) /\ Fits(tool, path, x)
        /\ \A y \in InFlight(x, NoTokens) : GoodEntry(tool, path, y) /\ Fits(tool, path, y)
      BY <1>13, <1>e, <2>1, <2>2, MessageOK
  <2> QED
      BY <1>13, <2>3 DEF EntryFits
<1>14. CASE tool = "teleagent"
  <2>1. x \in TeleAgentRows(b, e)
      BY <1>14, <1>e DEF Entries
  <2>2. PICK created \in {None, Some("own")} :
           x = MessageRow(b, e) ++ [title |-> Some(e.truth.project), created |-> created]
      BY <2>1 DEF TeleAgentRows
  <2> DEFINE more == [title |-> Some(e.truth.project), created |-> created]
  <2>3. {"calls", "tokens", "role", "kind", "final"} \cap DOMAIN more = {} /\ IsStored(tool)
      BY <1>14 DEF IsStored
  <2> HIDE DEF more
  <2>4. /\ Settled(tool, path, x) /\ Fits(tool, path, x)
        /\ \A y \in InFlight(x, NoTokens) : GoodEntry(tool, path, y) /\ Fits(tool, path, y)
      BY <1>14, <1>e, <2>2, <2>3, MessageOK DEF more
  <2> QED
      BY <1>14, <2>4 DEF EntryFits
<1> QED
    BY <1>1, <1>2, <1>3, <1>4, <1>5, <1>6, <1>7, <1>8, <1>9, <1>10, <1>11, <1>12, <1>13, <1>14,
       ToolIsKnown

-----------------------------------------------------------------------------
(* The environment's steps. *)

\* Where the adapter will read what is written.
IsRead(path) ==
    /\ Placed(tool, path) /\ IsParsed(tool, path)
    /\ tool = "workbuddy" => ~IsLedger(path)
    /\ IsStored(tool) => IsDb(path) \/ (tool = "opencode" /\ IsLegacyMessage(path))

\* The tools with a store, and the documents.
LEMMA StoredIs == Stored = IsStored(tool) /\ \A p : Document(p) = IsDocument(tool, p)
BY DEF Stored, IsStored, Document, IsDocument

\* A tool writes where its adapter reads.
LEMMA LocationsAreRead ==
  ASSUME tool \in Tools, NEW path \in Locations
  PROVE  IsRead(path)
<1> DEFINE sessions == {Path(root, Project, Session, "jsonl") : root \in homes}
           halves == {Path(root, Project, Session, "jsonl") : root \in homes}
                 \cup {Path("ide", Workspace, Session, "index.json")}
           claws == {Path(root, "sessions", Session, "jsonl") : root \in OpenClawRoots(homes)}
           harness == {Path(root, Project, Session, ext) :
                    root \in homes, ext \in {"jsonl", "jsonl.zstd"}}
           chats == {Path(root, Project, Session, "json") : root \in homes}
           caches == {Path(root, NoDir, "cache", "json") : root \in CacheDirCandidates}
           atoms == {Path(root, Project, Session, ext) :
                    root \in homes, ext \in {"meta", "json", "index"}}
           codes == {Path(root, NoDir, stem, "db") :
                    root \in homes, stem \in {"opencode", "opencode-stable"}}
                 \cup {Path(root, "storage/message", Calls[made + 1], "json") : root \in homes}
           local == {Path("home", NoDir, "local", "db")}
           arts == {Path(root, NoDir, "opencode", "db") : root \in {"home", "appdata"}}
           agents == {Path(root, NoDir, "teleagent", "db") : root \in homes}
           talks == {Path(root, "conversations", Session, "db") :
                    root \in AntigravityRoots(homes)}
<1>1. Locations =
        CASE tool \in {"claude", "codex", "pi", "workbuddy"} -> sessions
          [] tool = "codebuddy" -> halves
          [] tool = "openclaw" -> claws
          [] tool = "deepseek" -> harness
          [] tool = "gemini" -> chats
          [] tool = "trae" -> caches
          [] tool = "atomcode" -> atoms
          [] tool = "opencode" -> codes
          [] tool = "qoder" -> local
          [] tool = "codearts" -> arts
          [] tool = "teleagent" -> agents
          [] tool = "antigravity" -> talks
    BY DEF Locations
<1> HIDE DEF sessions, halves, claws, harness, chats, caches, atoms, codes, local, arts, agents, talks
<1>2. CASE tool \in {"claude", "codex", "pi", "workbuddy"}
  <2>1. path \in sessions
      BY <1>1, <1>2
  <2>2. IsPath(path) /\ path.ext = "jsonl"
      BY <2>1, FileFields DEF sessions
  <2> QED
      BY <1>2, <2>2 DEF IsRead, Placed, IsParsed, IsStored, IsLedger
<1>4. CASE tool = "codebuddy"
  <2>1. path \in halves
      BY <1>1, <1>4
  <2>2. IsPath(path) /\ path.ext \in {"jsonl", "index.json"}
      BY <2>1, FileFields DEF halves
  <2> QED
      BY <1>4, <2>2 DEF IsRead, Placed, IsParsed, IsStored, IsJsonl, IsIndex
<1>5. CASE tool = "openclaw"
  <2>1. path \in claws
      BY <1>1, <1>5
  <2>2. IsPath(path)
      BY <2>1, FileFields DEF claws
  <2> QED
      BY <1>5, <2>2 DEF IsRead, Placed, IsParsed, IsStored
<1>6. CASE tool = "deepseek"
  <2>1. path \in harness
      BY <1>1, <1>6
  <2>2. IsPath(path)
      BY <2>1, FileFields DEF harness
  <2> QED
      BY <1>6, <2>2 DEF IsRead, Placed, IsParsed, IsStored
<1>7. CASE tool = "gemini"
  <2>1. path \in chats
      BY <1>1, <1>7
  <2>2. IsPath(path)
      BY <2>1, FileFields DEF chats
  <2> QED
      BY <1>7, <2>2 DEF IsRead, Placed, IsParsed, IsStored
<1>8. CASE tool = "trae"
  <2>1. path \in caches
      BY <1>1, <1>8
  <2>2. IsPath(path)
      BY <2>1 DEF caches, Path, IsPath
  <2> QED
      BY <1>8, <2>2 DEF IsRead, Placed, IsParsed, IsStored
<1>9. CASE tool = "atomcode"
  <2>1. path \in atoms
      BY <1>1, <1>9
  <2>2. IsPath(path) /\ path.ext \in {"meta", "json", "index"}
      BY <2>1, FileFields DEF atoms
  <2> QED
      BY <1>9, <2>2 DEF IsRead, Placed, IsParsed, IsStored
<1>10. CASE tool = "opencode"
  <2>1. path \in codes
      BY <1>1, <1>10
  <2>2. IsPath(path) /\ \/ path.ext = "db" /\ path.dir = NoDir
                        \/ path.ext = "json" /\ path.dir = "storage/message"
      BY <2>1 DEF codes, Path, IsPath
  <2> QED
      BY <1>10, <2>2 DEF IsRead, Placed, IsParsed, IsStored, IsDb, IsLegacyMessage, IsStoreFile, NoDir
<1>11. CASE tool = "qoder"
  <2>1. path \in local
      BY <1>1, <1>11
  <2>2. IsPath(path) /\ path.ext = "db"
      BY <2>1 DEF local, Path, IsPath
  <2> QED
      BY <1>11, <2>2 DEF IsRead, Placed, IsParsed, IsDb, IsStoreFile
<1>12. CASE tool = "codearts"
  <2>1. path \in arts
      BY <1>1, <1>12
  <2>2. IsPath(path) /\ path.ext = "db"
      BY <2>1 DEF arts, Path, IsPath
  <2> QED
      BY <1>12, <2>2 DEF IsRead, Placed, IsParsed, IsDb, IsStoreFile
<1>13. CASE tool = "teleagent"
  <2>1. path \in agents
      BY <1>1, <1>13
  <2>2. IsPath(path) /\ path.ext = "db"
      BY <2>1 DEF agents, Path, IsPath
  <2> QED
      BY <1>13, <2>2 DEF IsRead, Placed, IsParsed, IsDb, IsStoreFile
<1>14. CASE tool = "antigravity"
  <2>1. path \in talks
      BY <1>1, <1>14
  <2>2. IsPath(path) /\ path.ext = "db"
      BY <2>1, FileFields DEF talks
  <2> QED
      BY <1>14, <2>2 DEF IsRead, Placed, IsParsed, IsDb, IsStoreFile
<1> QED
    BY <1>2, <1>4, <1>5, <1>6, <1>7, <1>8, <1>9, <1>10, <1>11, <1>12, <1>13, <1>14, ToolIsKnown

\* A file that is not being rewritten.
LEMMA WholeFile ==
  ASSUME FilesOK(tool, files), NEW path \in DOMAIN files, IsParsed(tool, path), IsWhole(path)
  PROVE  WholeContent(tool, path, files[path])
BY TornShows DEF FilesOK, FileOK, GoodContent, IsWhole

\* What a writer finds.
LEMMA ContentOK ==
  ASSUME tool \in Tools, FilesOK(tool, files), NEW path, IsRead(path),
         IsWhole(path) \/ (IsStored(tool) /\ IsDb(path))
  PROVE  /\ OpenContent(tool, path, Content(path))
         /\ IsStored(tool) /\ IsDb(path) => WholeContent(tool, path, Content(path))
<1> DEFINE wal == Wal(path)
<1>1. /\ IsPath(wal) /\ IsStoreFile(wal) /\ wal.dir = path.dir /\ (IsDb(path) => IsStoreFile(path))
    BY WalIs DEF IsRead, Placed
<1> HIDE DEF wal
<1>2. CASE IsStored(tool) /\ wal \in DOMAIN files
  <2>1. Content(path) = files[wal]
      BY <1>2, StoredIs DEF Content, wal
  <2>2. IsDb(path)
    <3>1. Placed(tool, wal)
        BY <1>2 DEF FilesOK, FileOK
    <3>2. tool = "opencode" => path.dir # "storage/message"
        BY <1>1, <3>1 DEF Placed
    <3>3. ~(tool = "opencode" /\ IsLegacyMessage(path))
        BY <3>2 DEF IsLegacyMessage
    <3> QED
        BY <1>2, <3>3 DEF IsRead
  <2>3. GoodContent(tool, wal, files[wal])
      BY <1>1, <1>2 DEF FilesOK, FileOK, IsParsed, IsStored
  <2>4. WholeContent(tool, path, files[wal])
      BY <1>1, <1>2, <2>2, <2>3, StoreIsWhole, StoreMoves
  <2> QED
      BY <2>1, <2>4 DEF WholeContent
<1>3. CASE ~(IsStored(tool) /\ wal \in DOMAIN files) /\ path \in DOMAIN files
  <2>1. Content(path) = files[path]
      BY <1>3, StoredIs DEF Content, wal
  <2>2. GoodContent(tool, path, files[path]) /\ IsParsed(tool, path)
      BY <1>3 DEF FilesOK, FileOK, IsRead
  <2>3. WholeContent(tool, path, files[path])
    <3>1. CASE IsWhole(path)
        BY <1>3, <2>2, <3>1, WholeFile
    <3>2. CASE IsStored(tool) /\ IsDb(path)
        BY <1>1, <2>2, <3>2, StoreIsWhole
    <3> QED
        BY <3>1, <3>2
  <2> QED
      BY <2>1, <2>3 DEF WholeContent
<1>4. CASE ~(IsStored(tool) /\ wal \in DOMAIN files) /\ path \notin DOMAIN files
  <2>1. Content(path) = Header(path)
      BY <1>4, StoredIs DEF Content, wal
  <2>2. OpenContent(tool, path, Header(path))
      BY HeaderOK DEF IsRead
  <2> QED
      BY <1>1, <2>1, <2>2 DEF WholeContent, MayBeEmpty
<1> QED
    BY <1>2, <1>3, <1>4

\* What a writer leaves.
LEMMA WithOK ==
  ASSUME tool \in Tools, FilesOK(tool, files), NEW path, IsRead(path),
         NEW content, WholeContent(tool, path, content)
  PROVE  FilesOK(tool, With(path, content)) /\ DOMAIN files \subseteq DOMAIN With(path, content)
<1>1. GoodContent(tool, path, content) /\ FileOK(tool, path, content)
    BY DEF GoodContent, FileOK, IsRead
<1>2. CASE IsStored(tool) /\ IsDb(path)
  <2> DEFINE wal == Wal(path)
             others == IF path \in DOMAIN files THEN files ELSE File(path, Header(path)) ++ files
  <2>1. /\ IsPath(wal) /\ IsStoreFile(wal) /\ wal.dir = path.dir /\ IsStoreFile(path)
      BY <1>2, WalIs DEF IsRead, Placed
  <2>2. With(path, content) = File(wal, content) ++ others
      BY <1>2, StoredIs DEF With
  <2>3. WholeContent(tool, wal, content)
      BY <1>2, <2>1, StoreMoves
  <2>4. Placed(tool, wal)
      BY <2>1 DEF Placed, IsRead
  <2>5. FileOK(tool, wal, content)
      BY <2>3, <2>4 DEF FileOK, GoodContent
  <2>6. FileOK(tool, path, Header(path))
    <3>1. OpenContent(tool, path, Header(path)) /\ MayBeEmpty(tool, path)
        BY <1>2, <2>1, HeaderOK DEF IsRead, MayBeEmpty
    <3> QED
        BY <3>1 DEF FileOK, GoodContent, WholeContent, IsRead
  <2>7. FilesOK(tool, others) /\ DOMAIN files \subseteq DOMAIN others
    <3>1. CASE path \in DOMAIN files
        BY <3>1
    <3>2. CASE path \notin DOMAIN files
      <4>1. FilesOK(tool, File(path, Header(path)))
          BY <2>6, OneFile
      <4>2. others = File(path, Header(path)) ++ files
          BY <3>2
      <4> DEFINE f == File(path, Header(path))
      <4> HIDE DEF f
      <4>3. FilesOK(tool, f ++ files) /\ DOMAIN (f ++ files) = DOMAIN f \cup DOMAIN files
          BY <4>1, FilesTogether DEF f
      <4> QED
          BY <4>2, <4>3 DEF f
    <3> QED
        BY <3>1, <3>2
  <2> HIDE DEF others, wal
  <2> DEFINE f == File(wal, content)
  <2>8. FilesOK(tool, f)
      BY <2>5, OneFile
  <2> HIDE DEF f
  <2>9. FilesOK(tool, f ++ others) /\ DOMAIN (f ++ others) = DOMAIN f \cup DOMAIN others
      BY <2>7, <2>8, FilesTogether
  <2> QED
      BY <2>2, <2>7, <2>9 DEF f
<1>3. CASE ~(IsStored(tool) /\ IsDb(path))
  <2>1. With(path, content) = File(path, content) ++ files
      BY <1>3, StoredIs DEF With
  <2>2. FilesOK(tool, File(path, content))
      BY <1>1, OneFile
  <2>3. FilesOK(tool, File(path, content) ++ files)
        /\ DOMAIN (File(path, content) ++ files) = DOMAIN File(path, content) \cup DOMAIN files
      BY <2>2, FilesTogether
  <2> QED
      BY <2>1, <2>3
<1> QED
    BY <1>2, <1>3

-----------------------------------------------------------------------------
(* Each of the environment's steps leaves what the adapters can read, and takes away no *)
(* file that the last scan saw.                                                         *)

\* The files stay good and none goes that the last scan saw.
FilesMove ==
    /\ FilesOK(tool, files')
    /\ known # <<>> => DOMAIN files \subseteq DOMAIN files'

\* Another file of the same session.
LEMMA Sibling ==
  ASSUME NEW p, IsPath(p), NEW ext
  PROVE  LET q == [p EXCEPT !.ext = ext]
         IN  IsPath(q) /\ q.ext = ext /\ q.dir = p.dir /\ q.root = p.root /\ q.stem = p.stem
BY DEF IsPath, Path

\* The log of turns beside a session of AtomCode.
LEMMA TurnStartOK ==
  ASSUME NEW path, IsPath(path), NEW turn
  PROVE  FilesOK(tool, TurnStart(path, turn))
<1>1. CASE tool # "atomcode" \/ path.ext = "json"
    BY <1>1, NoFiles DEF TurnStart
<1>2. CASE ~(tool # "atomcode" \/ path.ext = "json")
  <2> DEFINE log == [path EXCEPT !.ext = IF path.ext = "index" THEN "events" ELSE "jsonl"]
             content == Append(IF log \in DOMAIN files THEN files[log] ELSE <<>>,
                               [turn |-> turn, at |-> "own"] ++ Noise("turn_start"))
  <2>1. IsPath(log) /\ log.ext \in {"events", "jsonl"}
      BY Sibling
  <2>2. TurnStart(path, turn) = File(log, content)
      BY <1>2 DEF TurnStart
  <2> HIDE DEF log, content
  <2>3. FileOK(tool, log, content)
      BY <1>2, <2>1 DEF FileOK, Placed, IsParsed
  <2> QED
      BY <2>2, <2>3, OneFile
<1> QED
    BY <1>1, <1>2

\* A file is written among others.
LEMMA FilesWritten ==
  ASSUME NEW f, NEW g, FilesOK(tool, f), FilesOK(tool, g), DOMAIN files \subseteq DOMAIN g,
         files' = f ++ g
  PROVE  FilesOK(tool, files') /\ DOMAIN files \subseteq DOMAIN files'
<1>1. FilesOK(tool, f ++ g)
    BY FilesTogether
<1>2. DOMAIN g \subseteq DOMAIN (f ++ g)
    BY DEF ++
<1> QED
    BY <1>1, <1>2

\* MakeCall keeps the files good.
LEMMA MakeCallOK ==
  ASSUME BillInv, MakeCall
  PROVE  FilesMove /\ made' \in 0 .. Len(Calls)
<1> DEFINE c == Calls[made + 1]
<1>1. tool \in Tools /\ FilesOK(tool, files) /\ made \in 0 .. Len(Calls) /\ made < Len(Calls)
      /\ made' = made + 1
    BY DEF BillInv, MakeCall
<1>2. Len(Calls) \in Nat /\ DOMAIN Calls = 1 .. Len(Calls)
    BY CallsAreBilled
<1>3. c \in Call
    BY <1>1, <1>2 DEF Call, ToSet
<1>4. PICK path \in {p \in Locations : Writable(p)} :
         \E entry \in Entries(path, Bill[c], [calls |-> {c}, id |-> c, truth |-> Truth]) :
         \E written \in {entry} \cup
                (IF Stored THEN InFlight(entry, IF tool = "antigravity" THEN NoStats ELSE NoTokens)
                 ELSE {}) :
            files' = TurnStart(path, c)
                     ++ With(path, Content(path) \o Context(Content(path)) \o <<written>>)
    BY DEF MakeCall
<1> HIDE DEF c
<1>5. PICK entry \in Entries(path, Bill[c], Noted(c, c, Truth)) :
         \E written \in {entry} \cup
                (IF Stored THEN InFlight(entry, IF tool = "antigravity" THEN NoStats ELSE NoTokens)
                 ELSE {}) :
            files' = TurnStart(path, c)
                     ++ With(path, Content(path) \o Context(Content(path)) \o <<written>>)
    BY <1>4 DEF Noted
<1>6. PICK written \in {entry} \cup
                (IF Stored THEN InFlight(entry, IF tool = "antigravity" THEN NoStats ELSE NoTokens)
                 ELSE {}) :
            files' = TurnStart(path, c)
                     ++ With(path, Content(path) \o Context(Content(path)) \o <<written>>)
    BY <1>5
<1>9. IsRead(path) /\ IsWhole(path) /\ IsPath(path)
    BY <1>1, <1>4, LocationsAreRead DEF Writable, IsRead, Placed
<1>7. EntryFits(path, c, entry)
    BY <1>1, <1>3, <1>5, <1>9, EntryOK DEF IsRead
<1>8. GoodEntry(tool, path, written) /\ Fits(tool, path, written)
  <2>1. CASE written = entry
      BY <1>7, <2>1 DEF EntryFits, GoodEntry
  <2>2. CASE written # entry
      BY <1>6, <1>7, <2>2, StoredIs DEF EntryFits
  <2> QED
      BY <2>1, <2>2
<1>10. OpenContent(tool, path, Content(path))
    BY <1>1, <1>9, ContentOK
<1> DEFINE old == Content(path)
           mid == old \o Context(old)
           new == mid \o <<written>>
<1>11. OpenContent(tool, path, mid)
    BY <1>1, <1>10, ContextOK, Extends
<1> HIDE DEF mid
<1>12. WholeContent(tool, path, new)
  <2>1. IsSeq(<<written>>) /\ \A i \in DOMAIN <<written>> : <<written>>[i] = written
      BY OneIsSeq
  <2> QED
      BY <1>8, <1>11, <2>1, Extends
<1>13. files' = TurnStart(path, c) ++ With(path, new)
    BY <1>6 DEF mid
<1> HIDE DEF new
<1>14. FilesOK(tool, With(path, new)) /\ DOMAIN files \subseteq DOMAIN With(path, new)
    BY <1>1, <1>9, <1>12, WithOK
<1>15. FilesOK(tool, TurnStart(path, c))
    BY <1>9, TurnStartOK
<1> DEFINE f == TurnStart(path, c)
           g == With(path, new)
<1>16. FilesOK(tool, f) /\ FilesOK(tool, g) /\ DOMAIN files \subseteq DOMAIN g /\ files' = f ++ g
    BY <1>13, <1>14, <1>15
<1> HIDE DEF f, g
<1>17. FilesOK(tool, files') /\ DOMAIN files \subseteq DOMAIN files'
    BY <1>16, FilesWritten
<1> QED
    BY <1>1, <1>2, <1>17 DEF FilesMove

\* Finish keeps the files good.
LEMMA FinishOK ==
  ASSUME BillInv, Finish
  PROVE  FilesMove
<1>1. tool \in Tools /\ FilesOK(tool, files)
    BY DEF BillInv
<1>2. PICK path \in {p \in DOMAIN files : Stored /\ IsDb(p)} :
         \E i \in DOMAIN Content(path) :
            /\ "final" \in DOMAIN Content(path)[i]
            /\ files' = With(path, [Content(path) EXCEPT ![i] = @.final])
    BY DEF Finish
<1> DEFINE old == Content(path)
<1>3. PICK i \in DOMAIN old :
            /\ "final" \in DOMAIN old[i]
            /\ files' = With(path, [old EXCEPT ![i] = @.final])
    BY <1>2
<1>4. IsStored(tool) /\ IsDb(path) /\ Placed(tool, path) /\ ~IsLegacyMessage(path)
    BY <1>1, <1>2, StoredIs DEF FilesOK, FileOK, IsDb, IsLegacyMessage
<1>5. IsRead(path)
    BY <1>4 DEF IsRead, IsParsed, IsStored, IsDb, IsStoreFile
<1>6. WholeContent(tool, path, old)
    BY <1>1, <1>4, <1>5, ContentOK
<1>7. tool # "atomcode" /\ \A x : Fits(tool, path, x)
    BY <1>4 DEF IsStored, Fits
<1> HIDE DEF old
<1> DEFINE new == [old EXCEPT ![i] = @.final]
<1>8. new = [j \in DOMAIN old |-> IF j = i THEN old[j].final ELSE old[j]]
    OBVIOUS
<1>9. new = [j \in DOMAIN old |-> new[j]]
      /\ \A j \in DOMAIN old : new[j] = IF j = i THEN old[j].final ELSE old[j]
    OBVIOUS
<1>10. files' = With(path, new)
    BY <1>3
<1> HIDE DEF new
<1>11. \A j \in DOMAIN old : GoodEntry(tool, path, new[j])
  <2>1. \A j \in DOMAIN old : GoodEntry(tool, path, old[j])
      BY <1>6 DEF WholeContent, OpenContent
  <2>2. Settled(tool, path, old[i].final)
      BY <1>3, <2>1 DEF GoodEntry, Settled, Pending
  <2> QED
      BY <1>9, <2>1, <2>2 DEF GoodEntry
<1>12. WholeContent(tool, path, new)
    BY <1>6, <1>7, <1>9, <1>11, Replaces
<1>13. FilesOK(tool, With(path, new)) /\ DOMAIN files \subseteq DOMAIN With(path, new)
    BY <1>1, <1>5, <1>12, WithOK
<1> QED
    BY <1>10, <1>13 DEF FilesMove

\* AddBadRow keeps the files good.
LEMMA AddBadRowOK ==
  ASSUME BillInv, AddBadRow
  PROVE  FilesMove
<1>1. tool \in Tools /\ FilesOK(tool, files)
    BY DEF BillInv
<1>2. PICK path \in {p \in DOMAIN files : IsDb(p)} :
         Stored /\ Turn(With(path, Append(Content(path), Noise("bad"))))
    BY DEF AddBadRow
<1>3. IsStored(tool) /\ IsDb(path) /\ Placed(tool, path) /\ ~IsLegacyMessage(path)
    BY <1>1, <1>2, StoredIs DEF FilesOK, FileOK, IsDb, IsLegacyMessage
<1>4. IsRead(path)
    BY <1>3 DEF IsRead, IsParsed, IsStored, IsDb, IsStoreFile
<1> DEFINE old == Content(path)
           bad == Noise("bad")
<1>5. OpenContent(tool, path, old)
    BY <1>1, <1>3, <1>4, ContentOK
<1>6. bad.calls = {} /\ "final" \notin DOMAIN bad /\ bad.kind = "bad"
    BY DEF Noise
<1>7. IsSeq(<<bad>>) /\ \A i \in DOMAIN <<bad>> : <<bad>>[i] = bad
    BY OneIsSeq
<1> HIDE DEF old, bad
<1>8. GoodEntry(tool, path, bad) /\ Fits(tool, path, bad)
  <2>1. Settled(tool, path, bad)
      BY <1>3, <1>6, NoiseReadsWell DEF IsStored
  <2> QED
      BY <1>3, <2>1 DEF GoodEntry, Fits, IsStored
<1>9. WholeContent(tool, path, old \o <<bad>>)
    BY <1>5, <1>7, <1>8, Extends
<1>10. Append(old, bad) = old \o <<bad>>
    BY <1>5 DEF OpenContent, IsSeq
<1>11. files' = With(path, Append(old, bad))
    BY <1>2 DEF Turn, old, bad
<1> DEFINE new == Append(old, bad)
<1>12. WholeContent(tool, path, new) /\ files' = With(path, new)
    BY <1>9, <1>10, <1>11
<1> HIDE DEF new
<1>13. FilesOK(tool, With(path, new)) /\ DOMAIN files \subseteq DOMAIN With(path, new)
    BY <1>1, <1>4, <1>12, WithOK
<1> QED
    BY <1>12, <1>13 DEF FilesMove

\* AddHome keeps the files good.
LEMMA AddHomeOK ==
  ASSUME BillInv, AddHome
  PROVE  FilesMove /\ homes' \subseteq {"home", "wsl"}
BY DEF BillInv, AddHome, Turn, FilesMove

\* Files beside those there are.
LEMMA FilesBeside ==
  ASSUME FilesOK(tool, files), NEW more, FilesOK(tool, more)
  PROVE  FilesOK(tool, more ++ files) /\ DOMAIN files \subseteq DOMAIN (more ++ files)
<1>1. FilesOK(tool, more ++ files)
    BY FilesTogether
<1>2. DOMAIN files \subseteq DOMAIN (more ++ files)
    BY DEF ++
<1> QED
    BY <1>1, <1>2

\* A file that the adapter does not parse.
LEMMA BesideOK ==
  ASSUME NEW path, IsPath(path), ~IsParsed(tool, path), tool # "opencode", NEW content,
         FilesOK(tool, files)
  PROVE  /\ FilesOK(tool, File(path, content) ++ files)
         /\ DOMAIN files \subseteq DOMAIN (File(path, content) ++ files)
<1>1. FileOK(tool, path, content)
    BY DEF FileOK, Placed
<1>2. FilesOK(tool, File(path, content))
    BY <1>1, OneFile
<1> QED
    BY <1>2, FilesBeside

\* SwitchModel keeps the files good.
LEMMA SwitchModelOK ==
  ASSUME BillInv, SwitchModel
  PROVE  FilesMove
<1>1. tool \in Tools /\ homes \subseteq {"home", "wsl"} /\ FilesOK(tool, files)
    BY DEF BillInv
<1>2. CASE tool # "antigravity"
    BY <1>1, <1>2 DEF SwitchModel, Turn, FilesMove
<1>3. CASE tool = "antigravity"
  <2> DEFINE R == AntigravityRoots(homes)
             P == {Path(root, NoDir, "settings", "json") : root \in R}
             s == [p \in P |-> <<[model |-> Some("m2")] ++ Noise("settings")>>]
  <2>1. files' = s ++ files
      BY <1>3 DEF SwitchModel, Turn
  <2>2. R \subseteq {"home", "wsl", "ide", "wsl/ide"}
      BY <1>1 DEF AntigravityRoots
  <2>3. IsFiniteSet({"home", "wsl", "ide", "wsl/ide"})
    <3>1. IsFiniteSet({}) /\ IsFiniteSet({} \cup {"home"})
        BY FS_EmptySet, FS_AddElement
    <3>2. IsFiniteSet({} \cup {"home"} \cup {"wsl"})
        BY <3>1, FS_AddElement
    <3>3. IsFiniteSet({} \cup {"home"} \cup {"wsl"} \cup {"ide"})
        BY <3>2, FS_AddElement
    <3>4. IsFiniteSet({} \cup {"home"} \cup {"wsl"} \cup {"ide"} \cup {"wsl/ide"})
        BY <3>3, FS_AddElement
    <3>5. {"home", "wsl", "ide", "wsl/ide"}
             = {} \cup {"home"} \cup {"wsl"} \cup {"ide"} \cup {"wsl/ide"}
        OBVIOUS
    <3> QED
        BY <3>4, <3>5
  <2>4. IsFiniteSet(R)
      BY <2>2, <2>3, FS_Subset
  <2>5. IsFiniteSet(P)
    <3> DEFINE g == [root \in R |-> Path(root, NoDir, "settings", "json")]
    <3>1. P = {g[root] : root \in R}
        OBVIOUS
    <3>2. g \in Surjection(R, P)
        BY <3>1 DEF Surjection
    <3> QED
        BY <2>4, <3>2, FS_Surjection
  <2>6. \A p \in P : IsPath(p) /\ p.ext = "json"
      BY FileFields
  <2>7. DOMAIN s = P
      OBVIOUS
  <2> HIDE DEF P, s
  <2>8. FilesOK(tool, s)
      BY <1>3, <2>5, <2>6, <2>7 DEF FilesOK, FileOK, Placed, IsParsed, IsStoreFile
  <2>9. FilesOK(tool, s ++ files) /\ DOMAIN (s ++ files) = DOMAIN s \cup DOMAIN files
      BY <1>1, <2>8, FilesTogether
  <2> QED
      BY <2>1, <2>9 DEF FilesMove
<1> QED
    BY <1>2, <1>3

\* Nothing is known of the files of a store.
LEMMA NothingKnown ==
  ASSUME BillInv, IsStored(tool) \/ tool = "atomcode"
  PROVE  known = <<>>
BY DEF BillInv, ScanOK, Incremental, IsStored

\* Checkpoint keeps the files good.
LEMMA CheckpointOK ==
  ASSUME BillInv, Checkpoint
  PROVE  FilesMove
<1>1. tool \in Tools /\ FilesOK(tool, files) /\ IsStored(tool)
    BY StoredIs DEF BillInv, Checkpoint
<1>2. PICK path \in {p \in DOMAIN files : Wal(p) \in DOMAIN files /\ IsDb(p)} :
         Turn([p \in DOMAIN files \ {Wal(path)} |-> IF p = path THEN Content(path) ELSE files[p]])
    BY DEF Checkpoint
<1>3. IsDb(path) /\ Placed(tool, path) /\ ~IsLegacyMessage(path)
    BY <1>1, <1>2 DEF FilesOK, FileOK, IsDb, IsLegacyMessage
<1>4. IsRead(path)
    BY <1>1, <1>3 DEF IsRead, IsParsed, IsStored, IsDb, IsStoreFile
<1>5. WholeContent(tool, path, Content(path))
    BY <1>1, <1>3, <1>4, ContentOK
<1>6. FileOK(tool, path, Content(path))
    BY <1>3, <1>5 DEF FileOK, GoodContent
<1> DEFINE X == {Wal(path)}
           g == [p \in DOMAIN files \ X |-> IF p = path THEN Content(path) ELSE files[p]]
<1>7. files' = g
    BY <1>2 DEF Turn
<1>8. DOMAIN g = DOMAIN files \ X /\ \A p \in DOMAIN g : g[p] = files[p] \/ FileOK(tool, p, g[p])
    BY <1>6
<1> HIDE DEF g, X
<1>9. FilesOK(tool, g)
    BY <1>1, <1>8, FilesWithout
<1> QED
    BY <1>1, <1>7, <1>9, NothingKnown DEF FilesMove

\* The last entry of a file that was torn.
LEMMA TornLast ==
  ASSUME NEW s, IsSeq(s), NEW x
  PROVE  Append(s, x) # <<>> /\ Last(Append(s, x)) = x /\ Last(<<x>>) = x /\ <<x>> # <<>>
BY DEF IsSeq, Last

\* Tear keeps the files good.
LEMMA TearOK ==
  ASSUME BillInv, Tear
  PROVE  FilesMove
<1>1. tool \in Tools /\ FilesOK(tool, files)
    BY DEF BillInv
<1>2. PICK path \in DOMAIN files :
         /\ path.ext = "jsonl.zstd" \/ (Document(path) /\ ~IsJsonl(path) /\ path.ext # "events")
         /\ IsWhole(path)
         /\ LET whole == files[path]
            IN  Turn([files EXCEPT ![path] = IF Document(path) THEN <<Torn(whole)>>
                                             ELSE Append(Front(whole), Torn(whole))])
    BY DEF Tear
<1> DEFINE whole == files[path]
           content == IF IsDocument(tool, path) THEN <<Torn(whole)>>
                      ELSE Append(Front(whole), Torn(whole))
<1>3. files' = [files EXCEPT ![path] = content]
    BY <1>2, StoredIs DEF Turn
<1>4. Placed(tool, path)
    BY <1>1 DEF FilesOK, FileOK
<1>5. Torn(whole).kind = "torn" /\ Torn(whole).whole = whole
    BY DEF Torn, Noise, ++
<1> DEFINE torn == Torn(whole)
<1>6. ASSUME IsParsed(tool, path) PROVE TornContent(tool, path, content)
  <2>1. WholeContent(tool, path, whole)
      BY <1>1, <1>2, <1>6, WholeFile
  <2>2. IsDocument(tool, path) \/ path.ext = "jsonl.zstd"
      BY <1>2, StoredIs
  <2>3. content # <<>> /\ Last(content) = torn
    <3>1. CASE IsDocument(tool, path)
      <4>1. content = <<torn>>
          BY <3>1
      <4> QED
          BY <4>1, TornLast, EmptyIsSeq
    <3>2. CASE ~IsDocument(tool, path)
      <4>1. IsSeq(whole) /\ whole # <<>>
        <5>1. ~MayBeEmpty(tool, path)
            BY <2>2, <3>2 DEF MayBeEmpty, IsStoreFile, IsJsonl
        <5> QED
            BY <2>1, <5>1 DEF WholeContent, OpenContent
      <4> DEFINE front == Front(whole)
      <4>2. IsSeq(front)
        <5>1. whole \in Seq(ToSet(whole)) /\ Len(whole) \in Nat /\ Len(whole) # 0
            BY <4>1 DEF IsSeq
        <5>2. front = SubSeq(whole, 1, Len(whole) - 1)
            BY DEF Front
        <5>3. DOMAIN front = 1 .. (Len(whole) - 1) /\ front = [i \in 1 .. (Len(whole) - 1) |-> front[i]]
            BY <5>1, <5>2
        <5> HIDE DEF front
        <5> QED
            BY <5>1, <5>3, SeqIntro
      <4>3. content = Append(front, torn)
          BY <3>2
      <4> HIDE DEF front
      <4> QED
          BY <4>2, <4>3, TornLast
    <3> QED
        BY <3>1, <3>2
  <2>4. content = Halved(tool, path, whole)
      BY DEF Halved
  <2> HIDE DEF content
  <2>5. Last(content).whole = whole
      BY <1>5, <2>3
  <2> QED
      BY <2>1, <2>2, <2>3, <2>4, <2>5 DEF TornContent
<1> HIDE DEF content
<1>7. FileOK(tool, path, content)
    BY <1>4, <1>6 DEF FileOK, GoodContent
<1>8. FilesOK(tool, [files EXCEPT ![path] = content])
    BY <1>1, <1>7, FileChanges
<1> QED
    BY <1>3, <1>8 DEF FilesMove

\* Mend keeps the files good.
LEMMA MendOK ==
  ASSUME BillInv, Mend
  PROVE  FilesMove
<1>1. tool \in Tools /\ FilesOK(tool, files)
    BY DEF BillInv
<1>2. PICK path \in DOMAIN files :
         ~IsWhole(path) /\ files' = [files EXCEPT ![path] = Last(@).whole]
    BY DEF Mend
<1> DEFINE content == Last(files[path]).whole
<1>3. files' = [files EXCEPT ![path] = content]
    BY <1>2
<1>4. FileOK(tool, path, files[path])
    BY <1>1 DEF FilesOK
<1>5. ASSUME IsParsed(tool, path) PROVE WholeContent(tool, path, content)
  <2>1. GoodContent(tool, path, files[path])
      BY <1>4, <1>5 DEF FileOK
  <2>2. ~WholeContent(tool, path, files[path])
      BY <1>2, WholeIsNotTorn DEF IsWhole
  <2> QED
      BY <2>1, <2>2, TornShows DEF GoodContent
<1> HIDE DEF content
<1>6. FileOK(tool, path, content)
    BY <1>4, <1>5 DEF FileOK, GoodContent
<1>7. FilesOK(tool, [files EXCEPT ![path] = content])
    BY <1>1, <1>6, FileChanges
<1> QED
    BY <1>3, <1>7 DEF FilesMove

\* Mirror keeps the files good.
LEMMA MirrorOK ==
  ASSUME BillInv, Mirror
  PROVE  FilesMove
<1>1. tool \in Tools /\ FilesOK(tool, files)
    BY DEF BillInv
<1>2. PICK path \in DOMAIN files :
         /\ IsWhole(path)
         /\ \/ /\ tool = "codebuddy" /\ IsJsonl(path)
               /\ Turn(File([path EXCEPT !.stem = "s2"], files[path]) ++ files)
            \/ /\ tool = "trae"
               /\ \E root \in CacheDirCandidates :
                     Turn(File([path EXCEPT !.root = root], files[path]) ++ files)
    BY DEF Mirror
<1>3. \E copy : /\ IsPath(copy) /\ copy.ext = path.ext /\ copy.dir = path.dir
                /\ files' = File(copy, files[path]) ++ files
  <2>1. IsPath(path)
      BY <1>1 DEF FilesOK, FileOK, Placed
  <2>2. IsPath([path EXCEPT !.stem = "s2"]) /\ [path EXCEPT !.stem = "s2"].ext = path.ext
        /\ [path EXCEPT !.stem = "s2"].dir = path.dir
      BY <2>1 DEF IsPath, Path
  <2>3. \A root : /\ IsPath([path EXCEPT !.root = root]) /\ [path EXCEPT !.root = root].ext = path.ext
                  /\ [path EXCEPT !.root = root].dir = path.dir
      BY <2>1 DEF IsPath, Path
  <2> QED
      BY <1>2, <2>2, <2>3 DEF Turn
<1>4. PICK copy : /\ IsPath(copy) /\ copy.ext = path.ext /\ copy.dir = path.dir
                  /\ files' = File(copy, files[path]) ++ files
    BY <1>3
<1>5. FileOK(tool, copy, files[path])
  <2>1. FileOK(tool, path, files[path])
      BY <1>1 DEF FilesOK
  <2>2. IsParsed(tool, copy) = IsParsed(tool, path)
      BY <1>2, <1>4 DEF IsParsed, IsJsonl, IsIndex, IsStoreFile
  <2> QED
      BY <1>2, <1>4, <2>1, <2>2, SameKindReads DEF FileOK, Placed
<1>6. FilesOK(tool, File(copy, files[path]))
    BY <1>5, OneFile
<1>7. /\ FilesOK(tool, File(copy, files[path]) ++ files)
      /\ DOMAIN files \subseteq DOMAIN (File(copy, files[path]) ++ files)
    BY <1>1, <1>6, FilesBeside
<1> QED
    BY <1>4, <1>7 DEF FilesMove

\* What was noted of a turn of AtomCode stays true in the index.
LEMMA MetaToIndex ==
  ASSUME NEW p, NEW q, p.ext = "meta", q.ext = "index", NEW content,
         WholeContent("atomcode", p, content)
  PROVE  WholeContent("atomcode", q, content)
<1>1. \A x : Settled("atomcode", p, x) => Settled("atomcode", q, x)
    BY DEF Settled, ReadsWell
<1>2. \A x : Fits("atomcode", p, x) => Fits("atomcode", q, x)
    BY DEF Fits
<1> QED
    BY <1>1, <1>2 DEF WholeContent, OpenContent, GoodEntry, IsStored, MayBeEmpty

\* OpenCode takes over a message file of an earlier version.
LEMMA TakeOverMessages ==
  ASSUME BillInv, tool = "opencode", NEW path \in DOMAIN files, IsWhole(path),
         IsLegacyMessage(path),
         LET store == Path(path.root, NoDir, "opencode", "db")
         IN  files' = With(store, Content(store) \o files[path])
  PROVE  FilesMove
<1> DEFINE store == Path(path.root, NoDir, "opencode", "db")
           old == Content(store)
           more == files[path]
<1>1. tool \in Tools /\ FilesOK(tool, files) /\ IsStored(tool)
    BY DEF BillInv, IsStored
<1>2. IsRead(store) /\ IsDb(store)
  <2>1. IsPath(store) /\ store.ext = "db" /\ store.dir = NoDir
      BY FileFields
  <2>2. NoDir # "storage/message"
      BY DEF NoDir
  <2> HIDE DEF store
  <2> QED
      BY <2>1, <2>2 DEF IsRead, Placed, IsParsed, IsDb
<1>3. WholeContent(tool, store, old)
    BY <1>1, <1>2, ContentOK
<1>4. WholeContent(tool, path, more)
    BY <1>1, WholeFile DEF IsParsed
<1>5. more # <<>>
    BY <1>4 DEF WholeContent, MayBeEmpty, IsLegacyMessage, IsStoreFile, IsJsonl
<1>f. files' = With(store, old \o more)
    OBVIOUS
<1>6. /\ IsSeq(more)
      /\ \A i \in DOMAIN more : GoodEntry(tool, store, more[i]) /\ Fits(tool, store, more[i])
  <2>1. \A i \in DOMAIN more : Fits(tool, store, more[i])
      BY <1>2 DEF Fits, IsLegacyMessage, IsDb
  <2> QED
      BY <1>1, <1>4, <2>1, StoredReads DEF WholeContent, OpenContent
<1> HIDE DEF store, old, more
<1>7. WholeContent(tool, store, old \o more)
    BY <1>3, <1>5, <1>6, Extends DEF WholeContent
<1>8. /\ FilesOK(tool, With(store, old \o more))
      /\ DOMAIN files \subseteq DOMAIN With(store, old \o more)
    BY <1>1, <1>2, <1>7, WithOK
<1> QED
    BY <1>f, <1>8 DEF FilesMove

\* AtomCode takes over a session of an earlier version.
LEMMA TakeOverSession ==
  ASSUME BillInv, tool = "atomcode", NEW path \in DOMAIN files, IsWhole(path), path.ext = "meta",
         LET index == [path EXCEPT !.ext = "index"]
             log(ext) == [path EXCEPT !.ext = ext]
             moved == File(index, files[path]) ++ File(log("events"), files[log("jsonl")]) ++ files
         IN  \E left \in {{}, {path}} : files' = [p \in DOMAIN moved \ left |-> moved[p]]
  PROVE  FilesMove
<1> DEFINE index == [path EXCEPT !.ext = "index"]
           jsonl == [path EXCEPT !.ext = "jsonl"]
           events == [path EXCEPT !.ext = "events"]
           a == File(index, files[path])
           b == File(events, files[jsonl])
           moved == a ++ b ++ files
<1>1. tool \in Tools /\ FilesOK(tool, files)
    BY DEF BillInv
<1>2. IsPath(path)
    BY <1>1 DEF FilesOK, FileOK, Placed
<1>3. IsPath(index) /\ index.ext = "index" /\ IsPath(events) /\ events.ext = "events"
    BY <1>2, Sibling
<1>4. PICK left : files' = [p \in DOMAIN moved \ left |-> moved[p]]
    OBVIOUS
<1>5. WholeContent(tool, path, files[path])
    BY <1>1, WholeFile DEF IsParsed
<1> HIDE DEF index, events, jsonl
<1>6. FileOK(tool, index, files[path])
    BY <1>3, <1>5, MetaToIndex DEF FileOK, Placed, GoodContent
<1>7. FileOK(tool, events, files[jsonl])
    BY <1>3 DEF FileOK, Placed, IsParsed
<1>8. FilesOK(tool, a) /\ FilesOK(tool, b)
    BY <1>6, <1>7, OneFile
<1> HIDE DEF a, b
<1>9. FilesOK(tool, a ++ b)
    BY <1>8, FilesTogether
<1>10. FilesOK(tool, moved)
    BY <1>1, <1>9, FilesTogether
<1> HIDE DEF moved
<1> DEFINE g == [p \in DOMAIN moved \ left |-> moved[p]]
<1>11. DOMAIN g = DOMAIN moved \ left /\ \A p \in DOMAIN g : g[p] = moved[p]
    OBVIOUS
<1>12. files' = g
    BY <1>4
<1> HIDE DEF g
<1>13. FilesOK(tool, g)
    BY <1>10, <1>11, FilesWithout
<1> QED
    BY <1>12, <1>13, NothingKnown DEF FilesMove

\* Migrate keeps the files good.
LEMMA MigrateOK ==
  ASSUME BillInv, Migrate
  PROVE  FilesMove
<1>1. PICK path \in DOMAIN files :
         /\ IsWhole(path)
         /\ \/ /\ tool = "opencode" /\ IsLegacyMessage(path)
               /\ LET store == Path(path.root, NoDir, "opencode", "db")
                  IN  /\ CallsIn(files[path]) \cap CallsIn(Content(store)) = {}
                      /\ Turn(With(store, Content(store) \o files[path]))
            \/ /\ tool = "atomcode" /\ path.ext = "meta"
               /\ LET index == [path EXCEPT !.ext = "index"]
                      log(ext) == [path EXCEPT !.ext = ext]
                      moved == File(index, files[path]) ++ File(log("events"), files[log("jsonl")]) ++ files
                  IN  \E left \in {{}, {path}} :
                         Turn([p \in DOMAIN moved \ left |-> moved[p]])
    BY DEF Migrate
<1>2. CASE tool = "opencode"
  <2>1. /\ IsLegacyMessage(path)
        /\ LET store == Path(path.root, NoDir, "opencode", "db")
           IN  files' = With(store, Content(store) \o files[path])
      BY <1>1, <1>2 DEF Turn
  <2> QED
      BY <1>1, <1>2, <2>1, TakeOverMessages
<1>3. CASE tool # "opencode"
  <2>1. /\ tool = "atomcode" /\ path.ext = "meta"
        /\ LET index == [path EXCEPT !.ext = "index"]
               log(ext) == [path EXCEPT !.ext = ext]
               moved == File(index, files[path]) ++ File(log("events"), files[log("jsonl")]) ++ files
           IN  \E left \in {{}, {path}} : files' = [p \in DOMAIN moved \ left |-> moved[p]]
      BY <1>1, <1>3 DEF Turn
  <2> QED
      BY <1>1, <2>1, TakeOverSession
<1> QED
    BY <1>2, <1>3

\* WriteBeside keeps the files good.
LEMMA WriteBesideOK ==
  ASSUME BillInv, WriteBeside
  PROVE  FilesMove
<1>1. tool = "codebuddy" /\ FilesOK(tool, files)
    BY DEF BillInv, WriteBeside
<1>2. PICK path \in {p \in DOMAIN files : IsIndex(p) /\ IsWhole(p)} :
         LET messages == [path EXCEPT !.ext = "messages"]
             db == Path("ide", NoDir, "codebuddy-sessions", "vscdb")
         IN  \E content : \/ files' = File(messages, content) ++ files
                          \/ files' = File(db, content) ++ files
    BY DEF WriteBeside, Turn
<1> DEFINE messages == [path EXCEPT !.ext = "messages"]
           db == Path("ide", NoDir, "codebuddy-sessions", "vscdb")
<1>3. IsPath(path)
    BY <1>1, <1>2 DEF FilesOK, FileOK, Placed
<1>4. IsPath(messages) /\ messages.ext = "messages" /\ IsPath(db) /\ db.ext = "vscdb"
    BY <1>3, Sibling, FileFields
<1>5. PICK content : \/ files' = File(messages, content) ++ files
                     \/ files' = File(db, content) ++ files
    BY <1>2
<1> HIDE DEF messages, db
<1>6. ~IsParsed(tool, messages) /\ ~IsParsed(tool, db)
    BY <1>1, <1>4 DEF IsParsed, IsJsonl, IsIndex
<1>7. /\ FilesOK(tool, File(messages, content) ++ files)
      /\ DOMAIN files \subseteq DOMAIN (File(messages, content) ++ files)
      /\ FilesOK(tool, File(db, content) ++ files)
      /\ DOMAIN files \subseteq DOMAIN (File(db, content) ++ files)
    BY <1>1, <1>4, <1>6, BesideOK
<1> QED
    BY <1>5, <1>7 DEF FilesMove

\* Rewrite keeps the files good.
LEMMA RewriteOK ==
  ASSUME BillInv, Rewrite
  PROVE  FilesMove
<1>1. tool = "codebuddy" /\ FilesOK(tool, files)
    BY DEF BillInv, Rewrite
<1>2. PICK path \in {p \in DOMAIN files : IsJsonl(p)} :
         /\ files[path][1].kind = "user"
         /\ files' = [files EXCEPT ![path] = Tail(@)]
    BY DEF Rewrite, Turn
<1> DEFINE old == files[path]
           new == Tail(old)
<1>3. files' = [files EXCEPT ![path] = new]
    BY <1>2
<1>4. FileOK(tool, path, old) /\ IsParsed(tool, path)
    BY <1>1, <1>2 DEF FilesOK, IsParsed
<1>5. WholeContent(tool, path, old)
    BY <1>1, <1>2, <1>4 DEF FileOK, GoodContent, TornContent, IsDocument, IsJsonl, IsIndex
<1>6. IsSeq(old) /\ \A i \in DOMAIN old : GoodEntry(tool, path, old[i])
    BY <1>5 DEF WholeContent, OpenContent
<1> HIDE DEF old
<1>7. IsSeq(new) /\ \A i \in DOMAIN new : GoodEntry(tool, path, new[i])
  <2>1. CASE old = <<>>
      BY <1>6, <2>1
  <2>2. CASE old # <<>>
    <3>1. Len(old) \in Nat /\ Len(old) # 0 /\ old \in Seq(ToSet(old))
        BY <1>6, <2>2 DEF IsSeq
    <3>2. /\ new \in Seq(ToSet(old)) /\ Len(new) = Len(old) - 1
          /\ \A i \in 1 .. (Len(old) - 1) : new[i] = old[i + 1]
        BY <2>2, <3>1, HeadTailProperties
    <3> HIDE DEF new
    <3>3. DOMAIN new = 1 .. (Len(old) - 1) /\ new = [i \in 1 .. (Len(old) - 1) |-> new[i]]
        BY <3>1, <3>2
    <3>4. IsSeq(new)
        BY <3>1, <3>3, SeqIntro
    <3>5. \A i \in DOMAIN new : i + 1 \in DOMAIN old
        BY <3>1, <3>3
    <3> QED
        BY <1>6, <3>2, <3>3, <3>4, <3>5
  <2> QED
      BY <2>1, <2>2
<1> HIDE DEF new
<1>8. \A x : Fits(tool, path, x)
    BY <1>1 DEF Fits
<1>9. MayBeEmpty(tool, path)
    BY <1>1, <1>2 DEF MayBeEmpty
<1>10. FileOK(tool, path, new)
    BY <1>1, <1>4, <1>7, <1>8, <1>9 DEF FileOK, GoodContent, WholeContent, OpenContent
<1>11. FilesOK(tool, [files EXCEPT ![path] = new])
    BY <1>1, <1>10, FileChanges
<1> QED
    BY <1>3, <1>11 DEF FilesMove

\* There are finitely many calls.
LEMMA CallsAreFinite == IsFiniteSet(Call)
<1> DEFINE n == Len(Calls)
<1>1. n \in Nat /\ DOMAIN Calls = 1 .. n
    BY CallsAreBilled
<1>2. IsFiniteSet(1 .. n)
    BY <1>1, FS_Interval
<1>3. Calls \in Surjection(1 .. n, Call)
    BY <1>1, CallsAreBilled DEF Surjection, Call, ToSet
<1> QED
    BY <1>2, <1>3, FS_Surjection

\* The calls of a file, if it is not torn.
LEMMA CallsAreOfFile ==
  ASSUME NEW path, NEW content, WholeContent(tool, path, content), ~IsStored(tool)
  PROVE  CallsIn(content) \subseteq Call
<1>1. \A i \in DOMAIN content : content[i].calls \subseteq Call
    BY DEF WholeContent, OpenContent, GoodEntry, Settled
<1> QED
    BY <1>1 DEF CallsIn

\* What the ledger says.
LEMMA LedgerReads ==
  ASSUME tool = "workbuddy", FilesOK(tool, files), NEW ledger, IsPath(ledger), IsLedger(ledger)
  PROVE  LET content == IF ledger \in DOMAIN files THEN files[ledger] ELSE <<>>
         IN  /\ \A x \in ToSet(content) : x.calls \subseteq Call /\ "final" \notin DOMAIN x
             /\ ledger \in DOMAIN files => WholeContent(tool, ledger, files[ledger])
<1>1. CASE ledger \in DOMAIN files
  <2>1. WholeContent(tool, ledger, files[ledger])
      BY <1>1 DEF FilesOK, FileOK, IsParsed, GoodContent, TornContent, IsDocument, IsIndex, IsLedger
  <2>2. \A i \in DOMAIN files[ledger] : /\ files[ledger][i].calls \subseteq Call
                                        /\ "final" \notin DOMAIN files[ledger][i]
      BY <2>1 DEF WholeContent, OpenContent, GoodEntry, Settled, IsStored
  <2> QED
      BY <1>1, <2>1, <2>2 DEF ToSet
<1>2. CASE ledger \notin DOMAIN files
    BY <1>2 DEF ToSet
<1> QED
    BY <1>1, <1>2

\* A figure in WorkBuddy's ledger keeps the files good.
LEMMA EnteredOK ==
  ASSUME tool = "workbuddy", FilesOK(tool, files), NEW ledger, IsPath(ledger), IsLedger(ledger),
         NEW calls \in SUBSET Call, NEW session
  PROVE  /\ FilesOK(tool, Entered(ledger, calls, session) ++ files)
         /\ DOMAIN files \subseteq DOMAIN (Entered(ledger, calls, session) ++ files)
<1> DEFINE noted == [calls |-> calls,
                     truth |-> [model |-> FirstModel, project |-> Project, session |-> session]]
           row == WorkbuddySession(TotalSum(calls), noted)
           old == IF ledger \in DOMAIN files THEN files[ledger] ELSE <<>>
           updated == [i \in DOMAIN old |-> IF old[i].id = row.id THEN row ELSE old[i]]
           new == IF \E i \in DOMAIN old : old[i].id = row.id THEN updated ELSE Append(old, row)
<1>1. FilesOK(tool, files) /\ tool = "workbuddy"
    OBVIOUS
<1>3. Entered(ledger, calls, session) = File(ledger, new)
    BY DEF Entered, TotalSum
<1>4. IsPath(ledger) /\ ledger.ext = "db" /\ IsLedger(ledger) /\ ~IsStored(tool)
    BY DEF IsLedger, IsStored
<1>5. calls \in SUBSET Call /\ IsFiniteSet(calls)
    BY CallsAreFinite, FS_Subset
<1>6. noted.calls = calls
    OBVIOUS
<1> HIDE DEF noted
<1>7. Settled(tool, ledger, row)
    BY <1>1, <1>4, <1>5, <1>6, SessionWrites
<1>8. GoodEntry(tool, ledger, row) /\ \A x : Fits(tool, ledger, x)
    BY <1>1, <1>7 DEF GoodEntry, Fits
<1> HIDE DEF row
<1>9. OpenContent(tool, ledger, old) /\ (old # <<>> => WholeContent(tool, ledger, old))
  <2>1. CASE ledger \in DOMAIN files
    <3>1. old = files[ledger]
        BY <2>1
    <3>2. WholeContent(tool, ledger, files[ledger])
        BY <1>1, <1>4, <2>1 DEF FilesOK, FileOK, IsParsed, GoodContent, TornContent, IsDocument, IsIndex
    <3> QED
        BY <3>1, <3>2 DEF WholeContent
  <2>2. CASE ledger \notin DOMAIN files
    <3>1. old = <<>>
        BY <2>2
    <3> QED
        BY <1>1, <3>1, EmptyIsSeq DEF OpenContent
  <2> QED
      BY <2>1, <2>2
<1> HIDE DEF old
<1>10. ASSUME \E i \in DOMAIN old : old[i].id = row.id PROVE WholeContent(tool, ledger, new)
  <2>1. old # <<>>
      BY <1>10
  <2>2. /\ updated = [i \in DOMAIN old |-> updated[i]]
        /\ \A i \in DOMAIN old : updated[i] = row \/ updated[i] = old[i]
      OBVIOUS
  <2>3. new = updated
      BY <1>10
  <2> HIDE DEF updated, new
  <2>4. \A i \in DOMAIN old : GoodEntry(tool, ledger, updated[i])
      BY <1>8, <1>9, <2>2 DEF OpenContent
  <2> QED
      BY <1>1, <1>8, <1>9, <2>1, <2>2, <2>3, <2>4, Replaces
<1>11. ASSUME ~\E i \in DOMAIN old : old[i].id = row.id PROVE WholeContent(tool, ledger, new)
  <2>1. new = Append(old, row)
      BY <1>11
  <2>2. Append(old, row) = old \o <<row>>
      BY <1>9 DEF OpenContent, IsSeq
  <2>3. IsSeq(<<row>>) /\ <<row>> # <<>> /\ \A i \in DOMAIN <<row>> : <<row>>[i] = row
      BY OneIsSeq
  <2> HIDE DEF new
  <2>4. WholeContent(tool, ledger, old \o <<row>>)
      BY <1>8, <1>9, <2>3, Extends
  <2> QED
      BY <2>1, <2>2, <2>4
<1>12. WholeContent(tool, ledger, new)
    BY <1>10, <1>11
<1> HIDE DEF new
<1>13. FileOK(tool, ledger, new)
    BY <1>1, <1>4, <1>12 DEF FileOK, Placed, GoodContent
<1>14. FilesOK(tool, File(ledger, new))
    BY <1>13, OneFile
<1>15. /\ FilesOK(tool, File(ledger, new) ++ files)
       /\ DOMAIN files \subseteq DOMAIN (File(ledger, new) ++ files)
    BY <1>1, <1>14, FilesBeside
<1> QED
    BY <1>3, <1>15

\* The ledger of a directory.
LEMMA LedgerIs == ASSUME NEW root PROVE IsPath(LedgerOf(root)) /\ IsLedger(LedgerOf(root))
BY FileFields DEF LedgerOf, IsLedger

\* SyncLedger keeps the files good.
LEMMA SyncLedgerOK ==
  ASSUME BillInv, SyncLedger
  PROVE  FilesMove
<1>1. FilesOK(tool, files) /\ tool = "workbuddy" /\ ~IsStored(tool)
    BY DEF BillInv, SyncLedger, IsStored
<1>2. PICK path \in {p \in DOMAIN files : IsJsonl(p)} :
         files' = Entered(LedgerOf(path.root), CallsIn(files[path]), Session) ++ files
    BY DEF SyncLedger, Turn
<1>3. WholeContent(tool, path, files[path])
    BY <1>1, <1>2 DEF FilesOK, FileOK, IsParsed, GoodContent, TornContent, IsDocument, IsJsonl, IsIndex
<1>4. CallsIn(files[path]) \in SUBSET Call
    BY <1>1, <1>3, CallsAreOfFile
<1> QED
    BY <1>1, <1>2, <1>4, LedgerIs, EnteredOK DEF FilesMove

\* MakeUntoldCall keeps the files good.
LEMMA MakeUntoldCallOK ==
  ASSUME BillInv, MakeUntoldCall
  PROVE  FilesMove /\ made' \in 0 .. Len(Calls)
<1>1. /\ FilesOK(tool, files) /\ made \in 0 .. Len(Calls) /\ made < Len(Calls)
      /\ made' = made + 1 /\ tool = "workbuddy" /\ ~IsStored(tool)
    BY DEF BillInv, MakeUntoldCall, IsStored
<1>2. Len(Calls) \in Nat /\ DOMAIN Calls = 1 .. Len(Calls)
    BY CallsAreBilled
<1>3. Calls[made + 1] \in Call
    BY <1>1, <1>2 DEF Call, ToSet
<1>4. PICK root \in homes :
         LET ledger == LedgerOf(root)
             content == IF ledger \in DOMAIN files THEN files[ledger] ELSE <<>>
             earlier == UNION {row.calls : row \in {x \in ToSet(content) : x.id = Untold}}
         IN  files' = Entered(ledger, earlier \cup {Calls[made + 1]}, Untold) ++ files
    BY DEF MakeUntoldCall
<1> DEFINE ledger == LedgerOf(root)
           content == IF ledger \in DOMAIN files THEN files[ledger] ELSE <<>>
           earlier == UNION {row.calls : row \in {x \in ToSet(content) : x.id = Untold}}
           calls == earlier \cup {Calls[made + 1]}
<1>5. files' = Entered(ledger, calls, Untold) ++ files
    BY <1>4
<1>6. IsPath(ledger) /\ IsLedger(ledger)
    BY LedgerIs
<1> HIDE DEF ledger
<1>7. \A x \in ToSet(content) : x.calls \subseteq Call
    BY <1>1, <1>6, LedgerReads
<1> HIDE DEF content
<1>8. calls \in SUBSET Call
    BY <1>3, <1>7
<1> HIDE DEF calls
<1>9. /\ FilesOK(tool, Entered(ledger, calls, Untold) ++ files)
      /\ DOMAIN files \subseteq DOMAIN (Entered(ledger, calls, Untold) ++ files)
    BY <1>1, <1>6, <1>8, EnteredOK
<1>10. FilesMove
    BY <1>5, <1>9 DEF FilesMove
<1> QED
    BY <1>1, <1>2, <1>10

-----------------------------------------------------------------------------
(* Scans: whichever adapter it is, every record it emits is sound. *)

\* What a scan reports.
Reports(t, records) == IsSeq(records) /\ \A r \in ToSet(records) : Sound(t, r)

\* What a file offers the adapter that parses it.
LEMMA FileReads ==
  ASSUME NEW t, NEW path, NEW content, GoodContent(t, path, content)
  PROVE  /\ IsDocument(t, path) =>
               IsTorn(content) \/ (WholeContent(t, path, content) /\ LinesOK(t, path, content))
         /\ ~IsDocument(t, path) /\ (t = "deepseek" \/ path.ext # "jsonl.zstd") =>
               LinesOK(t, path, content)
<1>1. \A x : GoodEntry(t, path, x) => x.calls \subseteq Call /\ ReadsWell(t, path, x)
    BY DEF GoodEntry, Settled, Pending
<1>2. CASE WholeContent(t, path, content)
    BY <1>1, <1>2 DEF WholeContent, OpenContent, LinesOK
<1>3. CASE TornContent(t, path, content)
  <2>1. CASE IsDocument(t, path)
      BY <1>3, <2>1, TornShows
  <2>2. CASE ~IsDocument(t, path) /\ t = "deepseek"
    <3>1. \A x : x.kind = "torn" => ReadsWell(t, path, x)
        BY <2>2 DEF ReadsWell
    <3>2. /\ IsSeq(content)
          /\ \A i \in DOMAIN content : \/ content[i].kind = "torn" /\ content[i].calls = {}
                                       \/ GoodEntry(t, path, content[i])
        BY <1>3, <2>2, TornShows
    <3> QED
        BY <1>1, <2>2, <3>1, <3>2 DEF LinesOK
  <2>3. CASE ~IsDocument(t, path) /\ t # "deepseek"
      BY <1>3, <2>3 DEF TornContent
  <2> QED
      BY <2>1, <2>2, <2>3
<1> QED
    BY <1>2, <1>3 DEF GoodContent

\* What was parsed is what is reported, and where it was read does not change it.
LEMMA ScanSound ==
  ASSUME NEW t, NEW parsed, IsFiniteSet(DOMAIN parsed),
         \A p \in DOMAIN parsed : AllSound(t, parsed[p])
  PROVE  Reports(t, FullScan(parsed).records) /\ FullScan(parsed).known = <<>>
<1> DEFINE records == FullScan(parsed).records
<1>1. /\ IsSeq(records)
      /\ ToSet(records) = UNION {{q ++ [file |-> p] : q \in ToSet(parsed[p])} : p \in DOMAIN parsed}
    BY ScanReads DEF AllSound
<1>2. FullScan(parsed).known = <<>>
    BY DEF FullScan
<1> HIDE DEF records
<1>3. ASSUME NEW p \in DOMAIN parsed, NEW q \in ToSet(parsed[p])
      PROVE  Sound(t, q ++ [file |-> p])
  <2>1. DOMAIN q = RecordFields /\ Sound(t, q)
      BY DEF AllSound
  <2>2. (q ++ [file |-> p]).calls = q.calls /\ (q ++ [file |-> p]).tokens = q.tokens
      BY <2>1 DEF ++, RecordFields
  <2> QED
      BY <2>1, <2>2 DEF Sound
<1>4. \A r \in ToSet(records) : Sound(t, r)
    BY <1>1, <1>3
<1> QED
    BY <1>1, <1>2, <1>4 DEF Reports, records

\* The records of two scans, one after the other.
LEMMA MoreReports ==
  ASSUME NEW t, NEW a, NEW b, Reports(t, a), Reports(t, b)
  PROVE  Reports(t, a \o b)
BY ConcatIsSeq DEF Reports

\* A scan that keeps nothing; and one that keeps what it saw.
LEMMA WholeScan ==
  ASSUME NEW t, NEW fs, FilesOK(t, fs), NEW parsed, DOMAIN parsed \subseteq DOMAIN fs,
         \A p \in DOMAIN parsed : AllSound(t, parsed[p])
  PROVE  Reports(t, FullScan(parsed).records) /\ FullScan(parsed).known = <<>>
BY ScanSound, FS_Subset DEF FilesOK

\* A scan of what changed, which keeps what it saw.
LEMMA PartScan ==
  ASSUME NEW t, NEW fs, FilesOK(t, fs), NEW seen, DOMAIN seen \subseteq DOMAIN fs, NEW was,
         NEW parsed, DOMAIN parsed = Changed(seen, was),
         \A p \in DOMAIN parsed : AllSound(t, parsed[p])
  PROVE  /\ Reports(t, IncrementalScan(seen, parsed).records)
         /\ IncrementalScan(seen, parsed).known = seen
<1>1. DOMAIN parsed \subseteq DOMAIN fs
    BY DEF Changed
<1>2. Reports(t, FullScan(parsed).records)
    BY <1>1, WholeScan
<1>3. /\ IncrementalScan(seen, parsed).records = FullScan(parsed).records
      /\ IncrementalScan(seen, parsed).known = seen
    BY DEF IncrementalScan, FullScan
<1> QED
    BY <1>2, <1>3

\* What a connection to a store reads.
LEMMA StoreReads ==
  ASSUME NEW t, IsStored(t), NEW fs, FilesOK(t, fs), NEW over
  PROVE  /\ DOMAIN Stores(fs, over) \subseteq DOMAIN fs
         /\ \A p \in DOMAIN Stores(fs, over) : LinesOK(t, p, Stores(fs, over)[p])
<1> DEFINE S == {q \in DOMAIN fs : q.root \in over /\ IsDb(q)}
<1>1. /\ DOMAIN Stores(fs, over) = S
      /\ \A p \in S : Stores(fs, over)[p] = IF Wal(p) \in DOMAIN fs THEN fs[Wal(p)] ELSE fs[p]
    BY DEF Stores, Seen
<1>2. ASSUME NEW p \in S PROVE LinesOK(t, p, Stores(fs, over)[p])
  <2>1. IsPath(p) /\ FileOK(t, p, fs[p])
      BY DEF FilesOK, FileOK, Placed
  <2>2. IsStoreFile(p) /\ IsStoreFile(Wal(p))
      BY <2>1, WalIs
  <2>3. \A q : IsStoreFile(q) => IsParsed(t, q) /\ ~IsDocument(t, q) /\ q.ext # "jsonl.zstd"
      BY DEF IsParsed, IsStored, IsDocument, IsIndex, IsStoreFile
  <2>4. LinesOK(t, p, fs[p])
      BY <2>1, <2>2, <2>3, FileReads DEF FileOK
  <2>5. ASSUME Wal(p) \in DOMAIN fs PROVE LinesOK(t, p, fs[Wal(p)])
    <3>1. GoodContent(t, Wal(p), fs[Wal(p)])
        BY <2>2, <2>3, <2>5 DEF FilesOK, FileOK
    <3>2. WholeContent(t, p, fs[Wal(p)])
        BY <2>2, <3>1, StoreIsWhole, StoreMoves
    <3> QED
        BY <2>2, <2>3, <3>2, FileReads DEF GoodContent
  <2> QED
      BY <1>1, <2>4, <2>5
<1> QED
    BY <1>1, <1>2

\* The files of one adapter's filter.
LEMMA SeenReads ==
  ASSUME NEW t, NEW fs, FilesOK(t, fs), NEW S, NEW seen, DOMAIN seen = S, S \subseteq DOMAIN fs,
         \A p \in S : seen[p] = fs[p] /\ IsParsed(t, p)
  PROVE  \A p \in S :
            /\ IsDocument(t, p) =>
                  IsTorn(seen[p]) \/ (WholeContent(t, p, seen[p]) /\ LinesOK(t, p, seen[p]))
            /\ ~IsDocument(t, p) /\ (t = "deepseek" \/ p.ext # "jsonl.zstd") =>
                  LinesOK(t, p, seen[p])
BY FileReads DEF FilesOK, FileOK

\* A scan over some of the roots.
ScanIsSound(over) ==
    LET out == ScanOutput(over)
    IN  /\ Reports(tool, out.records)
        /\ DOMAIN out.known \subseteq DOMAIN files
        /\ out.known # <<>> => tool \in Incremental

\* The adapters that read lines and keep what they saw.
LEMMA ClaudeScanOK ==
  ASSUME NEW fs, FilesOK("claude", fs), NEW over, NEW was
  PROVE  LET out == ClaudeScan(fs, over, was)
         IN  Reports("claude", out.records) /\ DOMAIN out.known \subseteq DOMAIN fs
<1> DEFINE S == {q \in DOMAIN fs : q.root \in over /\ IsJsonl(q)}
           seen == ClaudeSeen(fs, over)
           parsed == [p \in Changed(seen, was) |-> ClaudeFile(p, seen[p])]
<1>1. DOMAIN seen = S /\ S \subseteq DOMAIN fs /\ \A p \in S : seen[p] = fs[p]
    BY DEF ClaudeSeen, Seen
<1>2. \A p \in S : IsParsed("claude", p) /\ ~IsDocument("claude", p) /\ p.ext # "jsonl.zstd"
    BY DEF IsParsed, IsDocument, IsIndex, IsJsonl
<1>3. ClaudeScan(fs, over, was) = IncrementalScan(seen, parsed)
    BY DEF ClaudeScan
<1> HIDE DEF S, seen
<1>4. \A p \in S : LinesOK("claude", p, seen[p])
    BY <1>1, <1>2, SeenReads
<1>5. DOMAIN parsed = Changed(seen, was) /\ Changed(seen, was) \subseteq S
      /\ \A p \in DOMAIN parsed : parsed[p] = ClaudeFile(p, seen[p])
    BY <1>1 DEF Changed
<1> HIDE DEF parsed
<1>6. \A p \in DOMAIN parsed : AllSound("claude", parsed[p])
    BY <1>4, <1>5, ClaudeParse
<1> QED
    BY <1>1, <1>3, <1>5, <1>6, PartScan

\* A scan for Codex.
LEMMA CodexScanOK ==
  ASSUME NEW fs, FilesOK("codex", fs), NEW over, NEW was
  PROVE  LET out == CodexScan(fs, over, was)
         IN  Reports("codex", out.records) /\ DOMAIN out.known \subseteq DOMAIN fs
<1> DEFINE S == {q \in DOMAIN fs : q.root \in over /\ IsJsonl(q)}
           seen == CodexSeen(fs, over)
           parsed == [p \in Changed(seen, was) |-> CodexFile(p, seen[p])]
<1>1. DOMAIN seen = S /\ S \subseteq DOMAIN fs /\ \A p \in S : seen[p] = fs[p]
    BY DEF CodexSeen, Seen
<1>2. \A p \in S : IsParsed("codex", p) /\ ~IsDocument("codex", p) /\ p.ext # "jsonl.zstd"
    BY DEF IsParsed, IsDocument, IsIndex, IsJsonl
<1>3. CodexScan(fs, over, was) = IncrementalScan(seen, parsed)
    BY DEF CodexScan
<1> HIDE DEF S, seen
<1>4. \A p \in S : LinesOK("codex", p, seen[p])
    BY <1>1, <1>2, SeenReads
<1>5. DOMAIN parsed = Changed(seen, was) /\ Changed(seen, was) \subseteq S
      /\ \A p \in DOMAIN parsed : parsed[p] = CodexFile(p, seen[p])
    BY <1>1 DEF Changed
<1> HIDE DEF parsed
<1>6. \A p \in DOMAIN parsed : AllSound("codex", parsed[p])
    BY <1>4, <1>5, CodexParse
<1> QED
    BY <1>1, <1>3, <1>5, <1>6, PartScan

\* A scan for Pi.
LEMMA PiScanOK ==
  ASSUME NEW fs, FilesOK("pi", fs), NEW over, NEW was
  PROVE  LET out == PiScan(fs, over, was)
         IN  Reports("pi", out.records) /\ DOMAIN out.known \subseteq DOMAIN fs
<1> DEFINE S == {q \in DOMAIN fs : q.root \in over /\ IsJsonl(q)}
           seen == PiSeen(fs, over)
           parsed == [p \in Changed(seen, was) |-> PiFile(p, seen[p])]
<1>1. DOMAIN seen = S /\ S \subseteq DOMAIN fs /\ \A p \in S : seen[p] = fs[p]
    BY DEF PiSeen, Seen
<1>2. \A p \in S : IsParsed("pi", p) /\ ~IsDocument("pi", p) /\ p.ext # "jsonl.zstd"
    BY DEF IsParsed, IsDocument, IsIndex, IsJsonl
<1>3. PiScan(fs, over, was) = IncrementalScan(seen, parsed)
    BY DEF PiScan
<1> HIDE DEF S, seen
<1>4. \A p \in S : LinesOK("pi", p, seen[p])
    BY <1>1, <1>2, SeenReads
<1>5. DOMAIN parsed = Changed(seen, was) /\ Changed(seen, was) \subseteq S
      /\ \A p \in DOMAIN parsed : parsed[p] = PiFile(p, seen[p])
    BY <1>1 DEF Changed
<1> HIDE DEF parsed
<1>6. \A p \in DOMAIN parsed : AllSound("pi", parsed[p])
    BY <1>4, <1>5, PiParse
<1> QED
    BY <1>1, <1>3, <1>5, <1>6, PartScan

\* A scan for OpenClaw.
LEMMA OpenClawScanOK ==
  ASSUME NEW fs, FilesOK("openclaw", fs), NEW over, NEW was
  PROVE  LET out == OpenClawScan(fs, over, was)
         IN  Reports("openclaw", out.records) /\ out.known = <<>>
<1> DEFINE S == {q \in DOMAIN fs : q.root \in over /\ IsJsonl(q) /\ q.dir = "sessions"}
           parsed == [p \in S |-> OpenClawFile(p, fs[p])]
<1>1. OpenClawScan(fs, over, was) = FullScan(parsed)
    BY DEF OpenClawScan, OpenClawSeen, Seen
<1>2. \A p \in S : IsParsed("openclaw", p) /\ ~IsDocument("openclaw", p) /\ p.ext # "jsonl.zstd"
    BY DEF IsParsed, IsDocument, IsIndex, IsJsonl
<1>3. S \subseteq DOMAIN fs
    OBVIOUS
<1> HIDE DEF S
<1>4. \A p \in S : LinesOK("openclaw", p, fs[p])
    BY <1>2, <1>3, FileReads DEF FilesOK, FileOK
<1>5. DOMAIN parsed = S /\ \A p \in S : parsed[p] = OpenClawFile(p, fs[p])
    OBVIOUS
<1> HIDE DEF parsed
<1>6. \A p \in DOMAIN parsed : AllSound("openclaw", parsed[p])
    BY <1>4, <1>5, OpenClawParse
<1> QED
    BY <1>1, <1>3, <1>5, <1>6, WholeScan

\* A scan for DeepSeek.
LEMMA DeepSeekScanOK ==
  ASSUME NEW fs, FilesOK("deepseek", fs), NEW over, NEW was
  PROVE  LET out == DeepSeekScan(fs, over, was)
         IN  Reports("deepseek", out.records) /\ out.known = <<>>
<1> DEFINE S == {q \in DOMAIN fs : q.root \in over /\ IsHarnessFile(q)}
           parsed == [p \in S |-> DeepSeekFile(p, fs[p])]
<1>1. DeepSeekScan(fs, over, was) = FullScan(parsed)
    BY DEF DeepSeekScan, DeepSeekSeen, Seen
<1>2. \A p \in S : IsParsed("deepseek", p) /\ ~IsDocument("deepseek", p)
    BY DEF IsParsed, IsDocument, IsIndex, IsHarnessFile
<1>3. S \subseteq DOMAIN fs
    OBVIOUS
<1> HIDE DEF S
<1>4. \A p \in S : LinesOK("deepseek", p, fs[p])
    BY <1>2, <1>3, FileReads DEF FilesOK, FileOK
<1>5. DOMAIN parsed = S /\ \A p \in S : parsed[p] = DeepSeekFile(p, fs[p])
    OBVIOUS
<1> HIDE DEF parsed
<1>6. \A p \in DOMAIN parsed : AllSound("deepseek", parsed[p])
    BY <1>4, <1>5, DeepSeekParse
<1> QED
    BY <1>1, <1>3, <1>5, <1>6, WholeScan

\* A scan for Gemini.
LEMMA GeminiScanOK ==
  ASSUME NEW fs, FilesOK("gemini", fs), NEW over, NEW was
  PROVE  LET out == GeminiScan(fs, over, was)
         IN  Reports("gemini", out.records) /\ out.known = <<>>
<1> DEFINE S == {q \in DOMAIN fs : q.root \in over /\ q.ext = "json"}
           parsed == [p \in S |-> CollectUsages(p, fs[p])]
<1>1. GeminiScan(fs, over, was) = FullScan(parsed)
    BY DEF GeminiScan, GeminiSeen, Seen
<1>2. \A p \in S : IsParsed("gemini", p) /\ IsDocument("gemini", p)
    BY DEF IsParsed, IsDocument, IsIndex, IsJsonl
<1>3. S \subseteq DOMAIN fs
    OBVIOUS
<1> HIDE DEF S
<1>4. \A p \in S : IsTorn(fs[p]) \/ (WholeContent("gemini", p, fs[p]) /\ LinesOK("gemini", p, fs[p]))
    BY <1>2, <1>3, FileReads DEF FilesOK, FileOK
<1>5. DOMAIN parsed = S /\ \A p \in S : parsed[p] = CollectUsages(p, fs[p])
    OBVIOUS
<1> HIDE DEF parsed
<1>6. \A p \in DOMAIN parsed : AllSound("gemini", parsed[p])
    BY <1>4, <1>5, GeminiParse
<1> QED
    BY <1>1, <1>3, <1>5, <1>6, WholeScan

\* A scan for Trae.
LEMMA TraeScanOK ==
  ASSUME NEW fs, FilesOK("trae", fs), NEW over, NEW was
  PROVE  LET out == TraeScan(fs, over, was)
         IN  Reports("trae", out.records) /\ out.known = <<>>
<1> DEFINE S == {q \in DOMAIN fs : q.root \in over /\ q.ext = "json"}
           parsed == [p \in S |-> TraeFile(p, fs[p])]
<1>1. TraeScan(fs, over, was) = FullScan(parsed)
    BY DEF TraeScan, TraeSeen, Seen
<1>2. \A p \in S : IsParsed("trae", p) /\ IsDocument("trae", p)
    BY DEF IsParsed, IsDocument, IsIndex, IsJsonl
<1>3. S \subseteq DOMAIN fs
    OBVIOUS
<1> HIDE DEF S
<1>4. \A p \in S : IsTorn(fs[p]) \/ (WholeContent("trae", p, fs[p]) /\ LinesOK("trae", p, fs[p]))
    BY <1>2, <1>3, FileReads DEF FilesOK, FileOK
<1>5. DOMAIN parsed = S /\ \A p \in S : parsed[p] = TraeFile(p, fs[p])
    OBVIOUS
<1> HIDE DEF parsed
<1>6. \A p \in DOMAIN parsed : AllSound("trae", parsed[p])
    BY <1>4, <1>5, TraeParse
<1> QED
    BY <1>1, <1>3, <1>5, <1>6, WholeScan

\* A scan for AtomCode.
LEMMA AtomCodeScanOK ==
  ASSUME NEW fs, FilesOK("atomcode", fs), NEW over, NEW was
  PROVE  LET out == AtomCodeScan(fs, over, was)
         IN  Reports("atomcode", out.records) /\ out.known = <<>>
<1> DEFINE S == DOMAIN MetaFiles(fs, over)
           parsed == [p \in S |-> ParseSession(fs, p, fs[p])]
<1>1. AtomCodeScan(fs, over, was) = FullScan(parsed)
    BY DEF AtomCodeScan
<1>2. \A p \in S : IsParsed("atomcode", p) /\ IsDocument("atomcode", p)
    BY DEF MetaFiles, IsParsed, IsDocument
<1>3. S \subseteq DOMAIN fs
    BY DEF MetaFiles
<1> HIDE DEF S
<1>4. \A p \in S : IsTorn(fs[p]) \/ (WholeContent("atomcode", p, fs[p]) /\ LinesOK("atomcode", p, fs[p]))
    BY <1>2, <1>3, FileReads DEF FilesOK, FileOK
<1>5. DOMAIN parsed = S /\ \A p \in S : parsed[p] = ParseSession(fs, p, fs[p])
    OBVIOUS
<1> HIDE DEF parsed
<1>6. \A p \in DOMAIN parsed : AllSound("atomcode", parsed[p])
    BY <1>4, <1>5, SessionParse
<1> QED
    BY <1>1, <1>3, <1>5, <1>6, WholeScan

\* A scan for Qoder.
LEMMA QoderScanOK ==
  ASSUME NEW fs, FilesOK("qoder", fs), NEW over, NEW was
  PROVE  LET out == QoderScan(fs, over, was)
         IN  Reports("qoder", out.records) /\ out.known = <<>>
<1> DEFINE stores == Stores(fs, over)
           parsed == [p \in DOMAIN stores |-> QoderStore(p, stores[p])]
<1>1. QoderScan(fs, over, was) = FullScan(parsed)
    BY DEF QoderScan
<1>2. DOMAIN stores \subseteq DOMAIN fs /\ \A p \in DOMAIN stores : LinesOK("qoder", p, stores[p])
    BY StoreReads DEF IsStored
<1> HIDE DEF stores
<1>3. DOMAIN parsed = DOMAIN stores /\ \A p \in DOMAIN stores : parsed[p] = QoderStore(p, stores[p])
    OBVIOUS
<1> HIDE DEF parsed
<1>4. \A p \in DOMAIN parsed : AllSound("qoder", parsed[p])
    BY <1>2, <1>3, QoderParse
<1> QED
    BY <1>1, <1>2, <1>3, <1>4, WholeScan

\* A scan for CodeArts.
LEMMA CodeArtsScanOK ==
  ASSUME NEW fs, FilesOK("codearts", fs), NEW over, NEW was
  PROVE  LET out == CodeArtsScan(fs, over, was)
         IN  Reports("codearts", out.records) /\ out.known = <<>>
<1> DEFINE stores == Stores(fs, over)
           parsed == [p \in DOMAIN stores |-> CodeArtsStore(p, stores[p])]
<1>1. CodeArtsScan(fs, over, was) = FullScan(parsed)
    BY DEF CodeArtsScan
<1>2. DOMAIN stores \subseteq DOMAIN fs /\ \A p \in DOMAIN stores : LinesOK("codearts", p, stores[p])
    BY StoreReads DEF IsStored
<1> HIDE DEF stores
<1>3. DOMAIN parsed = DOMAIN stores /\ \A p \in DOMAIN stores : parsed[p] = CodeArtsStore(p, stores[p])
    OBVIOUS
<1> HIDE DEF parsed
<1>4. \A p \in DOMAIN parsed : AllSound("codearts", parsed[p])
    BY <1>2, <1>3, CodeArtsParse
<1> QED
    BY <1>1, <1>2, <1>3, <1>4, WholeScan

\* A scan for TeleAgent.
LEMMA TeleAgentScanOK ==
  ASSUME NEW fs, FilesOK("teleagent", fs), NEW over, NEW was
  PROVE  LET out == TeleAgentScan(fs, over, was)
         IN  Reports("teleagent", out.records) /\ out.known = <<>>
<1> DEFINE stores == Stores(fs, over)
           parsed == [p \in DOMAIN stores |-> TeleAgentStore(p, stores[p])]
<1>1. TeleAgentScan(fs, over, was) = FullScan(parsed)
    BY DEF TeleAgentScan
<1>2. DOMAIN stores \subseteq DOMAIN fs /\ \A p \in DOMAIN stores : LinesOK("teleagent", p, stores[p])
    BY StoreReads DEF IsStored
<1> HIDE DEF stores
<1>3. DOMAIN parsed = DOMAIN stores /\ \A p \in DOMAIN stores : parsed[p] = TeleAgentStore(p, stores[p])
    OBVIOUS
<1> HIDE DEF parsed
<1>4. \A p \in DOMAIN parsed : AllSound("teleagent", parsed[p])
    BY <1>2, <1>3, TeleAgentParse
<1> QED
    BY <1>1, <1>2, <1>3, <1>4, WholeScan

\* A scan for Antigravity.
LEMMA AntigravityScanOK ==
  ASSUME NEW fs, FilesOK("antigravity", fs), NEW over, NEW was
  PROVE  LET out == AntigravityScan(fs, over, was)
         IN  Reports("antigravity", out.records) /\ out.known = <<>>
<1> DEFINE stores == Stores(fs, over)
           parsed == [p \in DOMAIN stores |-> ScanConversation(fs, p, stores[p])]
<1>1. AntigravityScan(fs, over, was) = FullScan(parsed)
    BY DEF AntigravityScan
<1>2. DOMAIN stores \subseteq DOMAIN fs /\ \A p \in DOMAIN stores : LinesOK("antigravity", p, stores[p])
    BY StoreReads DEF IsStored
<1> HIDE DEF stores
<1>3. DOMAIN parsed = DOMAIN stores /\ \A p \in DOMAIN stores : parsed[p] = ScanConversation(fs, p, stores[p])
    OBVIOUS
<1> HIDE DEF parsed
<1>4. \A p \in DOMAIN parsed : AllSound("antigravity", parsed[p])
    BY <1>2, <1>3, ConversationParse
<1> QED
    BY <1>1, <1>2, <1>3, <1>4, WholeScan

\* OpenCode: the stores and the messages of earlier versions.
LEMMA OpenCodeScanOK ==
  ASSUME NEW fs, FilesOK("opencode", fs), NEW over, NEW was
  PROVE  LET out == OpenCodeScan(fs, over, was)
         IN  Reports("opencode", out.records) /\ out.known = <<>>
<1> DEFINE stores == Stores(fs, over)
           S == {q \in DOMAIN fs : q.root \in over /\ IsLegacyMessage(q)}
           parsed == [p \in DOMAIN stores |-> OpenCodeStore(p, stores[p])]
           earlier == [p \in S |-> OpenCodeLegacyFile(p, fs[p])]
           new == FullScan(parsed)
           legacy == FullScan(earlier)
<1>1. OpenCodeScan(fs, over, was) = [new EXCEPT !.records = @ \o legacy.records]
    BY DEF OpenCodeScan, Seen
<1>2. DOMAIN stores \subseteq DOMAIN fs /\ \A p \in DOMAIN stores : LinesOK("opencode", p, stores[p])
    BY StoreReads DEF IsStored
<1> HIDE DEF stores
<1>3. DOMAIN parsed = DOMAIN stores /\ \A p \in DOMAIN stores : parsed[p] = OpenCodeStore(p, stores[p])
    OBVIOUS
<1> HIDE DEF parsed
<1>4. \A p \in DOMAIN parsed : AllSound("opencode", parsed[p])
    BY <1>2, <1>3, OpenCodeParse
<1>5. Reports("opencode", new.records) /\ new.known = <<>>
    BY <1>2, <1>3, <1>4, WholeScan
<1>6. \A p \in S : /\ IsParsed("opencode", p) /\ ~IsDocument("opencode", p)
                   /\ p.ext # "jsonl.zstd" /\ ~MayBeEmpty("opencode", p)
    BY DEF IsParsed, IsDocument, IsIndex, IsLegacyMessage, MayBeEmpty, IsStoreFile, IsJsonl
<1>7. S \subseteq DOMAIN fs /\ \A p \in S : IsLegacyMessage(p)
    OBVIOUS
<1> HIDE DEF S
<1>8. ASSUME NEW p \in S PROVE AllSound("opencode", OpenCodeLegacyFile(p, fs[p]))
  <2>1. WholeContent("opencode", p, fs[p])
      BY <1>6, <1>7 DEF FilesOK, FileOK, GoodContent, TornContent
  <2>2. LinesOK("opencode", p, fs[p])
      BY <1>6, <2>1, FileReads DEF GoodContent
  <2>3. fs[p] # <<>>
      BY <1>6, <2>1 DEF WholeContent
  <2>4. 1 \in DOMAIN fs[p]
      BY <2>2, <2>3, SeqShape DEF LinesOK, IsSeq
  <2>5. Fits("opencode", p, fs[p][1])
      BY <2>1, <2>4 DEF WholeContent, OpenContent
  <2> QED
      BY <1>7, <2>2, <2>3, <2>5, LegacyParse DEF Fits
<1>9. DOMAIN earlier = S /\ \A p \in S : earlier[p] = OpenCodeLegacyFile(p, fs[p])
    OBVIOUS
<1> HIDE DEF earlier
<1>10. Reports("opencode", legacy.records)
    BY <1>7, <1>8, <1>9, WholeScan
<1> HIDE DEF legacy
<1>11. DOMAIN new = {"records", "known"}
    BY DEF FullScan
<1> HIDE DEF new
<1> DEFINE both == [new EXCEPT !.records = @ \o legacy.records]
<1>12. both.records = new.records \o legacy.records /\ both.known = new.known
    BY <1>11
<1> HIDE DEF both
<1> QED
    BY <1>1, <1>5, <1>10, <1>12, MoreReports DEF both

\* CodeBuddy: its two halves.
LEMMA CodebuddyScanOK ==
  ASSUME NEW fs, FilesOK("codebuddy", fs), NEW over, NEW was
  PROVE  LET out == CodebuddyScan(fs, over, was)
         IN  Reports("codebuddy", out.records) /\ DOMAIN out.known \subseteq DOMAIN fs
<1> DEFINE S == {q \in DOMAIN fs : q.root \in over /\ IsJsonl(q)}
           D == {q \in DOMAIN fs : q.root \in ExistingDataDirs /\ IsIndex(q)}
           seen == CodebuddySeen(fs, over)
           parsed == [p \in Changed(seen, was) |-> CodebuddyFile(p, seen[p])]
           desktop == [p \in D |-> DesktopConversation(fs, p, fs[p])]
           cli == IncrementalScan(seen, parsed)
           ide == FullScan(desktop)
<1>1. DOMAIN seen = S /\ S \subseteq DOMAIN fs /\ \A p \in S : seen[p] = fs[p]
    BY DEF CodebuddySeen, Seen
<1>2. \A p \in S : /\ IsParsed("codebuddy", p) /\ ~IsDocument("codebuddy", p)
                   /\ p.ext # "jsonl.zstd" /\ ~IsIndex(p)
    BY DEF IsParsed, IsDocument, IsIndex, IsJsonl
<1>3. CodebuddyScan(fs, over, was) = [cli EXCEPT !.records = @ \o ide.records]
    BY DEF CodebuddyScan, DesktopScan, DesktopSeen, Seen
<1>4. \A p \in D : IsParsed("codebuddy", p) /\ IsDocument("codebuddy", p) /\ IsIndex(p)
    BY DEF IsParsed, IsDocument
<1>5. D \subseteq DOMAIN fs
    OBVIOUS
<1> HIDE DEF S, D, seen
<1>6. \A p \in S : LinesOK("codebuddy", p, seen[p])
    BY <1>1, <1>2, SeenReads
<1>7. DOMAIN parsed = Changed(seen, was) /\ Changed(seen, was) \subseteq S
      /\ \A p \in DOMAIN parsed : parsed[p] = CodebuddyFile(p, seen[p])
    BY <1>1 DEF Changed
<1> HIDE DEF parsed
<1>8. \A p \in DOMAIN parsed : AllSound("codebuddy", parsed[p])
    BY <1>2, <1>6, <1>7, CodebuddyParse
<1>9. Reports("codebuddy", cli.records) /\ cli.known = seen
    BY <1>1, <1>7, <1>8, PartScan
<1>10. \A p \in D : IsTorn(fs[p]) \/ LinesOK("codebuddy", p, fs[p])
    BY <1>4, <1>5, FileReads DEF FilesOK, FileOK
<1>11. DOMAIN desktop = D /\ \A p \in D : desktop[p] = DesktopConversation(fs, p, fs[p])
    OBVIOUS
<1> HIDE DEF desktop
<1>12. \A p \in DOMAIN desktop : AllSound("codebuddy", desktop[p])
    BY <1>4, <1>10, <1>11, DesktopParse
<1>13. Reports("codebuddy", ide.records)
    BY <1>5, <1>11, <1>12, WholeScan
<1> HIDE DEF ide
<1>14. DOMAIN cli = {"records", "known"}
    BY DEF IncrementalScan, FullScan
<1> HIDE DEF cli
<1> DEFINE both == [cli EXCEPT !.records = @ \o ide.records]
<1>15. both.records = cli.records \o ide.records /\ both.known = cli.known
    BY <1>14
<1> HIDE DEF both
<1> QED
    BY <1>1, <1>3, <1>9, <1>13, <1>15, MoreReports DEF both

\* WorkBuddy: the transcripts and the ledger beside them.
LEMMA WorkbuddyScanOK ==
  ASSUME NEW fs, FilesOK("workbuddy", fs), NEW over, NEW was
  PROVE  LET out == WorkbuddyScan(fs, over, was)
         IN  Reports("workbuddy", out.records) /\ DOMAIN out.known \subseteq DOMAIN fs
<1> DEFINE S == {q \in DOMAIN fs : q.root \in over /\ IsJsonl(q)}
           D == {q \in DOMAIN fs : q.root \in over /\ IsLedger(q)}
           seen == WorkbuddySeen(fs, over)
           parsed == [p \in Changed(seen, was) |-> WorkbuddyFile(p, seen[p])]
           lines == IncrementalScan(seen, parsed)
           covered == {r.session : r \in ToSet(lines.records)}
           rowsOf == [p \in D |-> WorkbuddyLedger(p, fs[p], covered)]
           ledgers == FullScan(rowsOf)
<1>1. DOMAIN seen = S /\ S \subseteq DOMAIN fs /\ \A p \in S : seen[p] = fs[p]
    BY DEF WorkbuddySeen, Seen
<1>2. \A p \in S : /\ IsParsed("workbuddy", p) /\ ~IsDocument("workbuddy", p)
                   /\ p.ext # "jsonl.zstd" /\ ~IsLedger(p)
    BY DEF IsParsed, IsDocument, IsIndex, IsJsonl, IsLedger
<1>3. WorkbuddyScan(fs, over, was) = [lines EXCEPT !.records = @ \o ledgers.records]
    BY DEF WorkbuddyScan, Seen
<1>4. \A p \in D : /\ IsParsed("workbuddy", p) /\ ~IsDocument("workbuddy", p)
                   /\ p.ext # "jsonl.zstd" /\ IsLedger(p)
    BY DEF IsParsed, IsDocument, IsIndex, IsLedger
<1>5. D \subseteq DOMAIN fs
    OBVIOUS
<1> HIDE DEF S, D, seen
<1>6. \A p \in S : LinesOK("workbuddy", p, seen[p])
    BY <1>1, <1>2, SeenReads
<1>7. DOMAIN parsed = Changed(seen, was) /\ Changed(seen, was) \subseteq S
      /\ \A p \in DOMAIN parsed : parsed[p] = WorkbuddyFile(p, seen[p])
    BY <1>1 DEF Changed
<1> HIDE DEF parsed
<1>8. \A p \in DOMAIN parsed : AllSound("workbuddy", parsed[p])
    BY <1>2, <1>6, <1>7, WorkbuddyParse
<1>9. Reports("workbuddy", lines.records) /\ lines.known = seen
    BY <1>1, <1>7, <1>8, PartScan
<1> HIDE DEF covered
<1>10. \A p \in D : LinesOK("workbuddy", p, fs[p])
    BY <1>4, <1>5, FileReads DEF FilesOK, FileOK
<1>11. DOMAIN rowsOf = D /\ \A p \in D : rowsOf[p] = WorkbuddyLedger(p, fs[p], covered)
    OBVIOUS
<1> HIDE DEF rowsOf
<1>12. \A p \in DOMAIN rowsOf : AllSound("workbuddy", rowsOf[p])
    BY <1>4, <1>10, <1>11, LedgerParse
<1>13. Reports("workbuddy", ledgers.records)
    BY <1>5, <1>11, <1>12, WholeScan
<1> HIDE DEF ledgers
<1>14. DOMAIN lines = {"records", "known"}
    BY DEF IncrementalScan, FullScan
<1> HIDE DEF lines
<1> DEFINE both == [lines EXCEPT !.records = @ \o ledgers.records]
<1>15. both.records = lines.records \o ledgers.records /\ both.known = lines.known
    BY <1>14
<1> HIDE DEF both
<1> QED
    BY <1>1, <1>3, <1>9, <1>13, <1>15, MoreReports DEF both

\* Whichever tool it is, its scan is sound.
LEMMA ScanOutputOK ==
  ASSUME BillInv, NEW over
  PROVE  ScanIsSound(over)
<1> tool \in Tools /\ FilesOK(tool, files)
    BY DEF BillInv
<1>1. CASE tool = "claude"
  <2>1. ScanOutput(over) = ClaudeScan(files, over, known)
      BY <1>1 DEF ScanOutput
  <2> QED
      BY <1>1, <2>1, ClaudeScanOK DEF ScanIsSound, Incremental
<1>2. CASE tool = "codex"
  <2>1. ScanOutput(over) = CodexScan(files, over, known)
      BY <1>2 DEF ScanOutput
  <2> QED
      BY <1>2, <2>1, CodexScanOK DEF ScanIsSound, Incremental
<1>3. CASE tool = "gemini"
  <2>1. ScanOutput(over) = GeminiScan(files, over, known)
      BY <1>3 DEF ScanOutput
  <2> QED
      BY <1>3, <2>1, GeminiScanOK DEF ScanIsSound
<1>4. CASE tool = "antigravity"
  <2>1. ScanOutput(over) = AntigravityScan(files, over, known)
      BY <1>4 DEF ScanOutput
  <2> QED
      BY <1>4, <2>1, AntigravityScanOK DEF ScanIsSound
<1>5. CASE tool = "codebuddy"
  <2>1. ScanOutput(over) = CodebuddyScan(files, over, known)
      BY <1>5 DEF ScanOutput
  <2> QED
      BY <1>5, <2>1, CodebuddyScanOK DEF ScanIsSound, Incremental
<1>6. CASE tool = "workbuddy"
  <2>1. ScanOutput(over) = WorkbuddyScan(files, over, known)
      BY <1>6 DEF ScanOutput
  <2> QED
      BY <1>6, <2>1, WorkbuddyScanOK DEF ScanIsSound, Incremental
<1>7. CASE tool = "opencode"
  <2>1. ScanOutput(over) = OpenCodeScan(files, over, known)
      BY <1>7 DEF ScanOutput
  <2> QED
      BY <1>7, <2>1, OpenCodeScanOK DEF ScanIsSound
<1>8. CASE tool = "qoder"
  <2>1. ScanOutput(over) = QoderScan(files, over, known)
      BY <1>8 DEF ScanOutput
  <2> QED
      BY <1>8, <2>1, QoderScanOK DEF ScanIsSound
<1>9. CASE tool = "openclaw"
  <2>1. ScanOutput(over) = OpenClawScan(files, over, known)
      BY <1>9 DEF ScanOutput
  <2> QED
      BY <1>9, <2>1, OpenClawScanOK DEF ScanIsSound
<1>10. CASE tool = "deepseek"
  <2>1. ScanOutput(over) = DeepSeekScan(files, over, known)
      BY <1>10 DEF ScanOutput
  <2> QED
      BY <1>10, <2>1, DeepSeekScanOK DEF ScanIsSound
<1>11. CASE tool = "pi"
  <2>1. ScanOutput(over) = PiScan(files, over, known)
      BY <1>11 DEF ScanOutput
  <2> QED
      BY <1>11, <2>1, PiScanOK DEF ScanIsSound, Incremental
<1>12. CASE tool = "trae"
  <2>1. ScanOutput(over) = TraeScan(files, over, known)
      BY <1>12 DEF ScanOutput
  <2> QED
      BY <1>12, <2>1, TraeScanOK DEF ScanIsSound
<1>13. CASE tool = "atomcode"
  <2>1. ScanOutput(over) = AtomCodeScan(files, over, known)
      BY <1>13 DEF ScanOutput
  <2> QED
      BY <1>13, <2>1, AtomCodeScanOK DEF ScanIsSound
<1>14. CASE tool = "codearts"
  <2>1. ScanOutput(over) = CodeArtsScan(files, over, known)
      BY <1>14 DEF ScanOutput
  <2> QED
      BY <1>14, <2>1, CodeArtsScanOK DEF ScanIsSound
<1>15. CASE tool = "teleagent"
  <2>1. ScanOutput(over) = TeleAgentScan(files, over, known)
      BY <1>15 DEF ScanOutput
  <2> QED
      BY <1>15, <2>1, TeleAgentScanOK DEF ScanIsSound
<1> QED
    BY <1>1, <1>2, <1>3, <1>4, <1>5, <1>6, <1>7, <1>8,
       <1>9, <1>10, <1>11, <1>12, <1>13, <1>14, <1>15, ToolIsKnown

-----------------------------------------------------------------------------
(* The invariant is inductive. *)

\* What is entered of sound records leaves a sound table with unique keys.
LEMMA InsertsOK ==
  ASSUME NEW t, NEW rs, RowsOK(t, rs), NEW records, Reports(t, records)
  PROVE  RowsOK(t, InsertOrIgnore(rs, records))
<1> DEFINE isNew(i) == \A q \in rs \cup {records[j] : j \in 1 .. i - 1} : q.key # records[i].key
           new == {records[i] : i \in {k \in DOMAIN records : isNew(k)}}
<1>1. InsertOrIgnore(rs, records) = rs \cup new
    BY DEF InsertOrIgnore
<1>2. Len(records) \in Nat /\ DOMAIN records = 1 .. Len(records)
      /\ \A i \in DOMAIN records : records[i] \in ToSet(records)
    BY SeqShape DEF Reports
<1>3. \A r \in new : r.calls \subseteq Call /\ Fair(t, r.tokens, r.calls)
    BY <1>2 DEF Reports, Sound
<1>4. ASSUME NEW r \in rs \cup new, NEW q \in rs \cup new, r.key = q.key PROVE r = q
  <2>1. CASE r \in rs /\ q \in rs
      BY <1>4, <2>1 DEF RowsOK
  <2>2. \A x \in new : \E i \in DOMAIN records : x = records[i] /\ isNew(i)
      OBVIOUS
  <2>3. ASSUME NEW x \in new, NEW y \in rs PROVE x.key # y.key
      BY <2>2
  <2>4. ASSUME NEW i \in DOMAIN records, isNew(i), NEW j \in DOMAIN records, isNew(j), i # j
        PROVE  records[i].key # records[j].key
    <3>1. i \in 1 .. j - 1 \/ j \in 1 .. i - 1
        BY <1>2, <2>4
    <3> QED
        BY <2>4, <3>1
  <2>5. CASE r \in new /\ q \in new
      BY <1>4, <2>2, <2>4, <2>5
  <2> QED
      BY <1>4, <2>1, <2>3, <2>5
<1> QED
    BY <1>1, <1>3, <1>4 DEF RowsOK

\* It holds at first.
LEMMA BillInit == Init => BillInv
<1> SUFFICES ASSUME Init PROVE BillInv
    OBVIOUS
<1>1. /\ tool \in Tools /\ homes \subseteq {"home", "wsl"} /\ files = <<>> /\ made = 0 /\ turns = 0
      /\ roots = <<>> /\ known = <<>> /\ fp = <<>> /\ rows = {}
    BY DEF Init, None
<1>2. Len(Calls) \in Nat /\ MaxTurns \in Nat
    BY CallsAreBilled
<1>3. made \in 0 .. Len(Calls) /\ turns \in 0 .. MaxTurns
    BY <1>1, <1>2
<1>4. FilesOK(tool, files)
    BY <1>1, NoFiles
<1>5. RowsOK(tool, rows)
    BY <1>1 DEF RowsOK
<1>6. ScanOK
    BY <1>1, EmptyIsSeq DEF ScanOK
<1> QED
    BY <1>1, <1>3, <1>4, <1>5, <1>6 DEF BillInv

\* A step of the environment's: what the scanner has does not change.
LEMMA EnvironmentKeeps ==
  ASSUME BillInv, FilesMove, tool' = tool, UNCHANGED adapterVars, homes' \subseteq {"home", "wsl"},
         made' \in 0 .. Len(Calls), turns' \in 0 .. MaxTurns
  PROVE  BillInv'
<1>1. RowsOK(tool, rows)' /\ FilesOK(tool, files)'
    BY DEF BillInv, FilesMove, adapterVars, RowsOK
<1>2. ScanOK'
    BY DEF BillInv, ScanOK, FilesMove, adapterVars
<1> QED
    BY <1>1, <1>2 DEF BillInv

\* A change of the environment leaves the scanner alone.
LEMMA TurnKeeps ==
  ASSUME BillInv, NEW newFiles, Turn(newFiles)
  PROVE  /\ tool' = tool /\ UNCHANGED adapterVars
         /\ made' \in 0 .. Len(Calls) /\ turns' \in 0 .. MaxTurns
<1>1. turns \in 0 .. MaxTurns /\ turns < MaxTurns /\ turns' = turns + 1 /\ MaxTurns \in Nat
    BY CallsAreBilled DEF BillInv, Turn
<1> QED
    BY <1>1 DEF BillInv, Turn

\* A step of the scanner's: the files do not change.
LEMMA ScannerKeeps ==
  ASSUME BillInv, UNCHANGED toolVars, RowsOK(tool, rows'), ScanOK'
  PROVE  BillInv'
BY DEF BillInv, toolVars, RowsOK, FilesOK

\* A scan keeps it.
LEMMA ScanKeeps ==
  ASSUME BillInv, Scan
  PROVE  BillInv'
<1> DEFINE existing == Existing(ScanRoots)
           out == ScanOutput(existing)
<1>1. /\ rows' = InsertOrIgnore(rows, out.records) /\ known' = out.known
      /\ Len(fp') <= 1 /\ Len(roots') <= 1 /\ UNCHANGED toolVars
  <2>1. \A x : Len(Some(x)) <= 1
      BY OneIsSeq DEF Some
  <2> QED
      BY <2>1 DEF Scan
<1>2. ScanIsSound(existing)
    BY ScanOutputOK
<1>3. /\ Reports(tool, out.records) /\ DOMAIN out.known \subseteq DOMAIN files
      /\ out.known # <<>> => tool \in Incremental
    BY <1>2 DEF ScanIsSound
<1> HIDE DEF out
<1>4. RowsOK(tool, rows')
    BY <1>1, <1>3, InsertsOK DEF BillInv
<1>5. ScanOK'
    BY <1>1, <1>3 DEF ScanOK, toolVars
<1> QED
    BY <1>1, <1>4, <1>5, ScannerKeeps

\* Every step keeps it.
LEMMA BillStep == BillInv /\ [Next]_vars => BillInv'
<1> SUFFICES ASSUME BillInv, [Next]_vars PROVE BillInv'
    OBVIOUS
<1> USE DEF BillInv
<1>0. homes \subseteq {"home", "wsl"} /\ turns \in 0 .. MaxTurns /\ made \in 0 .. Len(Calls)
    OBVIOUS
<1> DEFINE Env == /\ FilesMove /\ tool' = tool /\ UNCHANGED adapterVars
                  /\ homes' \subseteq {"home", "wsl"}
                  /\ made' \in 0 .. Len(Calls) /\ turns' \in 0 .. MaxTurns
<1> USE DEF Env
<1>1. Env => BillInv'
    BY EnvironmentKeeps
<1>2. CASE MakeCall
  <2>1. tool' = tool /\ UNCHANGED adapterVars /\ UNCHANGED <<homes, turns>>
      BY <1>2 DEF MakeCall
  <2> QED
      BY <1>0, <1>1, <1>2, <2>1, MakeCallOK
<1>u. CASE MakeUntoldCall
  <2>1. tool' = tool /\ UNCHANGED adapterVars /\ UNCHANGED <<homes, turns>>
      BY <1>u DEF MakeUntoldCall
  <2> QED
      BY <1>0, <1>1, <1>u, <2>1, MakeUntoldCallOK
<1>3. CASE Finish
  <2>1. tool' = tool /\ UNCHANGED adapterVars /\ UNCHANGED <<homes, made, turns>>
      BY <1>3 DEF Finish
  <2> QED
      BY <1>0, <1>1, <1>3, <2>1, FinishOK
<1>4. CASE SwitchModel
  <2>1. UNCHANGED homes /\ \E f : Turn(f)
      BY <1>4 DEF SwitchModel
  <2> QED
      BY <1>0, <1>1, <1>4, <2>1, TurnKeeps, SwitchModelOK
<1>5. CASE AddHome
  <2>1. \E f : Turn(f)
      BY <1>5 DEF AddHome
  <2> QED
      BY <1>0, <1>1, <1>5, <2>1, TurnKeeps, AddHomeOK
<1>6. CASE AddBadRow
  <2>1. UNCHANGED homes /\ \E f : Turn(f)
      BY <1>6 DEF AddBadRow
  <2> QED
      BY <1>0, <1>1, <1>6, <2>1, TurnKeeps, AddBadRowOK
<1>7. CASE Checkpoint
  <2>1. UNCHANGED homes /\ \E f : Turn(f)
      BY <1>7 DEF Checkpoint
  <2> QED
      BY <1>0, <1>1, <1>7, <2>1, TurnKeeps, CheckpointOK
<1>8. CASE Tear
  <2>1. UNCHANGED homes /\ \E f : Turn(f)
      BY <1>8 DEF Tear
  <2> QED
      BY <1>0, <1>1, <1>8, <2>1, TurnKeeps, TearOK
<1>9. CASE Mend
  <2>1. tool' = tool /\ UNCHANGED adapterVars /\ UNCHANGED <<homes, made, turns>>
      BY <1>9 DEF Mend
  <2> QED
      BY <1>0, <1>1, <1>9, <2>1, MendOK
<1>10. CASE Mirror
  <2>1. UNCHANGED homes /\ \E f : Turn(f)
      BY <1>10 DEF Mirror
  <2> QED
      BY <1>0, <1>1, <1>10, <2>1, TurnKeeps, MirrorOK
<1>11. CASE Migrate
  <2>1. UNCHANGED homes /\ \E f : Turn(f)
      BY <1>11 DEF Migrate
  <2> QED
      BY <1>0, <1>1, <1>11, <2>1, TurnKeeps, MigrateOK
<1>12. CASE SyncLedger
  <2>1. UNCHANGED homes /\ \E f : Turn(f)
      BY <1>12 DEF SyncLedger
  <2> QED
      BY <1>0, <1>1, <1>12, <2>1, TurnKeeps, SyncLedgerOK
<1>13. CASE WriteBeside
  <2>1. UNCHANGED homes /\ \E f : Turn(f)
      BY <1>13 DEF WriteBeside
  <2> QED
      BY <1>0, <1>1, <1>13, <2>1, TurnKeeps, WriteBesideOK
<1>14. CASE Rewrite
  <2>1. UNCHANGED homes /\ \E f : Turn(f)
      BY <1>14 DEF Rewrite
  <2> QED
      BY <1>0, <1>1, <1>14, <2>1, TurnKeeps, RewriteOK
<1>15. CASE NothingToScan \/ SkipScan \/ Restart
  <2>1. \A x : Len(Some(x)) <= 1 /\ Len(None) <= 1
      BY OneIsSeq, EmptyIsSeq DEF Some, None
  <2>2. UNCHANGED toolVars /\ known' = known /\ fp' = fp /\ rows' = rows /\ Len(roots') <= 1
      BY <1>15, <2>1 DEF NothingToScan, SkipScan, Restart
  <2>3. RowsOK(tool, rows') /\ ScanOK'
      BY <2>2 DEF ScanOK, toolVars
  <2> QED
      BY <2>2, <2>3, ScannerKeeps
<1>16. CASE Scan
    BY <1>16, ScanKeeps
<1>17. CASE UNCHANGED vars
  <2>1. UNCHANGED toolVars /\ UNCHANGED adapterVars
      BY <1>17 DEF vars, toolVars, adapterVars
  <2>2. RowsOK(tool, rows') /\ ScanOK'
      BY <2>1 DEF ScanOK, toolVars, adapterVars
  <2> QED
      BY <2>1, <2>2, ScannerKeeps
<1> QED
    BY <1>2, <1>3, <1>4, <1>5, <1>6, <1>7, <1>8, <1>9, <1>10, <1>11, <1>12, <1>13, <1>14,
       <1>15, <1>16, <1>17, <1>u DEF Next

\* So it always holds.
LEMMA BillAlways == Spec => []BillInv
BY BillInit, BillStep, PTL DEF Spec

\* The types: a key is in the usage table once, nothing is known of a file that is not
\* there, and every record stands for calls the tool made.
THEOREM AdapterTypes == Spec => []TypeOK
<1>1. BillInv => TypeOK
    BY DEF BillInv, TypeOK, RowsOK, ScanOK, Call
<1> QED
    BY <1>1, BillAlways, PTL

\* The sums of the property are those of the invariant.
LEMMA SumsAreBills ==
  ASSUME NEW S
  PROVE  /\ MapThenSumSet(Billed, S) = BilledSum(tool, S)
         /\ MapThenSumSet(LAMBDA c : Bill[c].read, S) = ReadSum(S)
BY DEF BilledSum, BilledTo, Billed, ReadSum

\* Whichever of the fifteen adapters it is, whatever its tool does with its files and
\* however often they are read: the counters of a row are disjoint, together they are what
\* the calls it stands for were billed for, and what it bills as read from the cache is
\* exactly what was.
THEOREM RowsMatchTheBill == Spec => []BucketsMatchTheBill
<1>1. BillInv => BucketsMatchTheBill
    BY SumsAreBills DEF BillInv, RowsOK, Fair, BucketsMatchTheBill
<1> QED
    BY <1>1, BillAlways, PTL

-----------------------------------------------------------------------------
(* Marks: what the key of a call is made of. It is settled by what the tool    *)
(* writes and where, and nothing the tool does to its files changes it.        *)

\* How many of the messages before the i-th are records.
RecordsBefore(p, s, i) == Cardinality({k \in 1 .. i - 1 : RecordFromUsage(p, s[k], 0) # <<>>})

\* And how many of its usages up to the i-th belong to no turn.
DetachedUpTo(s, i) == Cardinality({k \in 1 .. i - 1 : s[k + 1].kind = "detached"})

\* A turn of AtomCode is marked by its number, by its id and its one usage, or by the number of
\* its usage among those of no turn.
AtomCodeMark(p, s, i, x) ==
    CASE p.ext = "json" -> <<ToString(i - 1)>>
      [] p.ext # "json" /\ x.kind = "detached" -> <<"detached", ToString(DetachedUpTo(s, i))>>
      [] p.ext # "json" /\ x.kind # "detached" /\ x.model_usage = <<>> -> <<TurnId(x), "legacy">>
      [] OTHER -> <<TurnId(x), ToString(1)>>

\* The mark of the calls of x, the i-th entry of s.
IsMark(t, p, s, i, x, m) ==
    CASE t \in {"claude", "codex"} -> m = Rel(p) \o <<ToString(i)>>
      [] t = "gemini" -> m = Rel(p) \o <<ToString(RecordsBefore(p, s, i))>>
      [] t = "antigravity" -> m = Label(p.root) \o <<p.stem, x.idx>>
      [] t = "codebuddy" /\ IsIndex(p) -> m = <<"desktop", p.dir, p.stem, x.id>>
      [] t = "codebuddy" /\ ~IsIndex(p) ->
           /\ "message_id" \in DOMAIN x
           /\ m = OrElse(FirstOf(<<x.message_id, x.trace_id, x.conversation_request_id>>),
                         ToString(i))
      [] t = "workbuddy" /\ IsLedger(p) -> m[2] = x.id
      [] t = "workbuddy" /\ ~IsLedger(p) -> m = <<ToString(i), Session>>
      [] t = "opencode" -> "id" \in DOMAIN x /\ m = Label(p.root) \o <<"opencode.db", x.id>>
      [] t = "qoder" -> m = <<"local.db", x.id>>
      [] t = "codearts" -> m = <<"message", x.id>>
      [] t = "teleagent" -> m = Label(p.root) \o <<"teleagent.db", x.id>>
      [] t = "openclaw" -> m = Rel(p) \o <<OrElse(x.id, "")>>
      [] t = "deepseek" -> m = Rel(p) \o <<x.turn[1], x.step[1]>>
      [] t = "pi" -> m = Rel(p) \o <<x.id[1]>>
      [] t = "trae" ->
           m = <<p.dir, p.stem, p.ext, x.session_id[1], x.usage_time[1]>>
      [] t = "atomcode" -> m = AtomCodeMark(p, s, i, x)

\* The key of a row read from f for a call with mark m.
KeyFrom(t, f, m) ==
    CASE t = "codebuddy" /\ ~IsIndex(f) -> Rel(f) \o <<m>>
      [] t = "workbuddy" /\ IsLedger(f) -> Label(f.root) \o <<"workbuddy.db", m[2]>>
      [] t = "workbuddy" /\ ~IsLedger(f) -> Rel(f) \o <<m[1]>>
      [] t = "atomcode" -> Rel(f) \o m
      [] OTHER -> m

\* An entry as it will be once its call has ended.
Eventual(x) == IF "final" \in DOMAIN x THEN x.final ELSE x

\* Every call in the content s of p has its mark.
Keyed(t, p, s, mark) ==
    \A i \in DOMAIN s : \A c \in Eventual(s[i]).calls :
        c \in DOMAIN mark /\ IsMark(t, p, s, i, Eventual(s[i]), mark[c])

\* And in what a torn file will be again.
FileKeyed(t, p, s, mark) ==
    /\ Keyed(t, p, s, mark)
    /\ (\E i \in DOMAIN s : s[i].kind = "torn") => Keyed(t, p, Last(s).whole, mark)

\* Every call in the files an adapter reads has its mark.
FilesKeyed(t, fs, mark) ==
    \A p \in DOMAIN fs : IsParsed(t, p) => FileKeyed(t, p, fs[p], mark)

\* A row of the table, or one about to be.
RowKeyed(t, r, mark) ==
    \A c \in r.calls : c \in DOMAIN mark /\ r.key = KeyFrom(t, r.file, mark[c])

\* Every call made has one mark, which is the one it has wherever it is kept and the one its rows
\* were entered with.
Marked(mark) ==
    /\ DOMAIN mark = {Calls[i] : i \in 1 .. made}
    /\ FilesKeyed(tool, files, mark)
    /\ \A r \in rows : RowKeyed(tool, r, mark)

\* The invariant of the keys.
OnceInv == \E mark : Marked(mark)

-----------------------------------------------------------------------------
\* A mark depends on nothing behind its entry.
LEMMA MarkStays ==
  ASSUME NEW t, NEW p, NEW s, NEW u, NEW i \in Nat, \A k \in 1 .. i : s[k] = u[k],
         NEW x, NEW m, IsMark(t, p, s, i, x, m)
  PROVE  IsMark(t, p, u, i, x, m)
<1>1. RecordsBefore(p, s, i) = RecordsBefore(p, u, i)
  <2>1. \A k \in 1 .. i - 1 : s[k] = u[k]
      OBVIOUS
  <2>2. {k \in 1 .. i - 1 : RecordFromUsage(p, s[k], 0) # <<>>}
          = {k \in 1 .. i - 1 : RecordFromUsage(p, u[k], 0) # <<>>}
      BY <2>1
  <2> QED
      BY <2>2 DEF RecordsBefore
<1>2. DetachedUpTo(s, i) = DetachedUpTo(u, i)
  <2>1. \A k \in 1 .. i - 1 : s[k + 1] = u[k + 1]
      OBVIOUS
  <2>2. {k \in 1 .. i - 1 : s[k + 1].kind = "detached"}
          = {k \in 1 .. i - 1 : u[k + 1].kind = "detached"}
      BY <2>1
  <2> QED
      BY <2>2 DEF DetachedUpTo
<1>3. AtomCodeMark(p, s, i, x) = AtomCodeMark(p, u, i, x)
    BY <1>2 DEF AtomCodeMark
<1> QED
    BY <1>1, <1>3 DEF IsMark

\* The mark of a row does not depend on where in its store the row is.
LEMMA MarkMoves ==
  ASSUME NEW t, IsStored(t), NEW p, NEW q, p.root = q.root, t = "antigravity" => p.stem = q.stem,
         NEW s, NEW u, NEW i, NEW j, NEW x, NEW m, IsMark(t, p, s, i, x, m)
  PROVE  IsMark(t, q, u, j, x, m)
BY DEF IsMark, IsStored

\* Entries whose calls have their marks are appended.
LEMMA KeyedExtends ==
  ASSUME NEW t, NEW p, NEW mark, NEW head, NEW tail, IsSeq(head), IsSeq(tail),
         Keyed(t, p, head, mark),
         \A j \in DOMAIN tail : \A c \in Eventual(tail[j]).calls :
            c \in DOMAIN mark
            /\ IsMark(t, p, head \o tail, Len(head) + j, Eventual(tail[j]), mark[c])
  PROVE  Keyed(t, p, head \o tail, mark)
<1> DEFINE both == head \o tail
           S == ToSet(head) \cup ToSet(tail)
<1>1. head \in Seq(S) /\ tail \in Seq(S)
    BY SeqMonotonic DEF IsSeq
<1>2. /\ Len(head) \in Nat /\ Len(tail) \in Nat
      /\ DOMAIN head = 1 .. Len(head) /\ DOMAIN tail = 1 .. Len(tail)
    BY SeqShape
<1>3. /\ both \in Seq(S) /\ Len(both) = Len(head) + Len(tail)
      /\ \A i \in 1 .. Len(head) + Len(tail) :
            both[i] = IF i <= Len(head) THEN head[i] ELSE tail[i - Len(head)]
    BY <1>1, ConcatProperties
<1>4. DOMAIN both = 1 .. Len(head) + Len(tail)
    BY <1>3, LenProperties
<1>a. \A j \in DOMAIN tail : \A c \in Eventual(tail[j]).calls :
        c \in DOMAIN mark /\ IsMark(t, p, both, Len(head) + j, Eventual(tail[j]), mark[c])
    OBVIOUS
<1> HIDE DEF both
<1>5. ASSUME NEW i \in DOMAIN both, NEW c \in Eventual(both[i]).calls
      PROVE  c \in DOMAIN mark /\ IsMark(t, p, both, i, Eventual(both[i]), mark[c])
  <2>1. CASE i <= Len(head)
    <3>1. i \in DOMAIN head /\ i \in Nat /\ both[i] = head[i] /\ \A k \in 1 .. i : head[k] = both[k]
        BY <1>2, <1>3, <1>4, <2>1
    <3>2. c \in DOMAIN mark /\ IsMark(t, p, head, i, Eventual(head[i]), mark[c])
        BY <1>5, <3>1 DEF Keyed
    <3> QED
        BY <3>1, <3>2, MarkStays
  <2>2. CASE ~(i <= Len(head))
    <3> DEFINE j == i - Len(head)
    <3>1. j \in DOMAIN tail /\ both[i] = tail[j] /\ Len(head) + j = i
        BY <1>2, <1>3, <1>4, <2>2
    <3> HIDE DEF j
    <3>2. c \in DOMAIN mark /\ IsMark(t, p, both, Len(head) + j, Eventual(tail[j]), mark[c])
        BY <1>5, <1>a, <3>1
    <3> QED
        BY <3>1, <3>2
  <2> QED
      BY <2>1, <2>2
<1> QED
    BY <1>5 DEF Keyed, both

\* What has no calls needs no marks.
LEMMA NothingKeyed ==
  ASSUME NEW t, NEW p, NEW mark, NEW s, \A i \in DOMAIN s : Eventual(s[i]).calls = {}
  PROVE  Keyed(t, p, s, mark)
BY DEF Keyed

\* A file that is not being rewritten.
LEMMA WholeKeyed ==
  ASSUME NEW t, NEW p, NEW mark, NEW s, \A i \in DOMAIN s : s[i].kind # "torn",
         Keyed(t, p, s, mark)
  PROVE  FileKeyed(t, p, s, mark)
BY DEF FileKeyed

\* One file.
LEMMA OneKeyed ==
  ASSUME NEW t, NEW p, NEW mark, NEW s, IsParsed(t, p) => FileKeyed(t, p, s, mark)
  PROVE  FilesKeyed(t, File(p, s), mark)
BY DEF FilesKeyed, File

\* The files of both.
LEMMA KeyedTogether ==
  ASSUME NEW t, NEW mark, NEW f, NEW g, FilesKeyed(t, f, mark), FilesKeyed(t, g, mark)
  PROVE  FilesKeyed(t, f ++ g, mark)
<1>1. /\ DOMAIN (f ++ g) = DOMAIN f \cup DOMAIN g
      /\ \A p \in DOMAIN f \cup DOMAIN g : (f ++ g)[p] = IF p \in DOMAIN f THEN f[p] ELSE g[p]
    BY DEF ++
<1> QED
    BY <1>1 DEF FilesKeyed

\* Files are taken away, or change.
LEMMA KeyedWithout ==
  ASSUME NEW t, NEW mark, NEW f, FilesKeyed(t, f, mark), NEW g, NEW X, DOMAIN g = DOMAIN f \ X,
         \A p \in DOMAIN g : g[p] = f[p] \/ (IsParsed(t, p) => FileKeyed(t, p, g[p], mark))
  PROVE  FilesKeyed(t, g, mark)
BY DEF FilesKeyed

\* A file gets another content.
LEMMA KeyedChanges ==
  ASSUME NEW t, NEW mark, NEW f, FilesKeyed(t, f, mark), NEW path, NEW s,
         IsParsed(t, path) => FileKeyed(t, path, s, mark)
  PROVE  FilesKeyed(t, [f EXCEPT ![path] = s], mark)
BY DEF FilesKeyed

\* A call that has no mark gets one.
LEMMA MoreMarks ==
  ASSUME NEW t, NEW mark, NEW fs, FilesKeyed(t, fs, mark), NEW more,
         DOMAIN mark \subseteq DOMAIN more, \A c \in DOMAIN mark : more[c] = mark[c]
  PROVE  FilesKeyed(t, fs, more)
<1>1. ASSUME NEW p, NEW s, Keyed(t, p, s, mark) PROVE Keyed(t, p, s, more)
  <2> SUFFICES ASSUME NEW i \in DOMAIN s, NEW c \in Eventual(s[i]).calls
               PROVE  c \in DOMAIN more /\ IsMark(t, p, s, i, Eventual(s[i]), more[c])
      BY DEF Keyed
  <2>1. c \in DOMAIN mark /\ IsMark(t, p, s, i, Eventual(s[i]), mark[c])
      BY <1>1 DEF Keyed
  <2>2. c \in DOMAIN more /\ more[c] = mark[c]
      BY <2>1
  <2> QED
      BY <2>1, <2>2
<1> QED
    BY <1>1 DEF FilesKeyed, FileKeyed

-----------------------------------------------------------------------------
\* Entries that stand for no call.
Quiet(s) == \A i \in DOMAIN s : Eventual(s[i]).calls = {}

\* One of them.
LEMMA QuietOne ==
  ASSUME NEW x, x.calls = {}, "final" \notin DOMAIN x
  PROVE  Quiet(<<x>>)
BY OneIsSeq DEF Quiet, Eventual

\* Nobody is billed for the beginning of a file,
LEMMA HeaderIsQuiet == ASSUME NEW path PROVE Quiet(Header(path))
<1> DEFINE h == Header(path)
           session == [id |-> Some(Session), cwd |-> Some(<<"work", Project>>)]
<1>0. Quiet(<<>>)
    BY DEF Quiet
<1>1. CASE tool = "codex"
  <2> DEFINE x == [session_id |-> None] ++ session ++ Noise("session_meta")
  <2>1. h = <<x>>
      BY <1>1 DEF Header
  <2>2. x.calls = {} /\ "final" \notin DOMAIN x
      BY DEF Noise, ++
  <2> HIDE DEF x
  <2> QED
      BY <2>1, <2>2, QuietOne
<1>2. CASE tool \in {"pi", "openclaw", "deepseek"}
  <2> DEFINE x == session ++ Noise("session")
  <2>1. h = <<x>>
      BY <1>2 DEF Header
  <2>2. x.calls = {} /\ "final" \notin DOMAIN x
      BY DEF Noise, ++
  <2> HIDE DEF x
  <2> QED
      BY <2>1, <2>2, QuietOne
<1>3. CASE tool = "atomcode"
  <2> DEFINE x == AtomCodeHeader(Session, Project, model)
  <2>1. h = <<x>>
      BY <1>3 DEF Header
  <2>2. x.calls = {} /\ "final" \notin DOMAIN x
      BY DEF AtomCodeHeader
  <2> HIDE DEF x
  <2> QED
      BY <2>1, <2>2, QuietOne
<1>4. CASE tool = "antigravity"
  <2> DEFINE x == [fields |-> <<Varint(1, 0), Bytes(1, <<Text(1, <<"work", Project>>)>>)>>]
                    ++ Noise("trajectory")
  <2>1. h = <<x>>
      BY <1>4 DEF Header
  <2>2. x.calls = {} /\ "final" \notin DOMAIN x
      BY DEF Noise, ++
  <2> HIDE DEF x
  <2> QED
      BY <2>1, <2>2, QuietOne
<1>5. CASE tool \in {"claude", "codebuddy", "workbuddy"} /\ ~Document(path)
  <2> DEFINE x == Noise("user")
  <2>1. h = <<x>>
      BY <1>5 DEF Header
  <2>2. x.calls = {} /\ "final" \notin DOMAIN x
      BY DEF Noise
  <2> HIDE DEF x
  <2> QED
      BY <2>1, <2>2, QuietOne
<1>6. CASE /\ tool \notin {"codex", "pi", "openclaw", "deepseek", "atomcode", "antigravity"}
           /\ ~(tool \in {"claude", "codebuddy", "workbuddy"} /\ ~Document(path))
  <2>1. h = <<>>
      BY <1>6 DEF Header
  <2> QED
      BY <1>0, <2>1
<1> QED
    BY <1>1, <1>2, <1>3, <1>4, <1>5, <1>6

\* nor for a line that says which model is in use.
LEMMA ContextIsQuiet == ASSUME NEW content PROVE Quiet(Context(content))
<1> DEFINE x == [model |-> Some(model)] ++ Noise(ContextKind)
<1>1. Context(content) = <<>> \/ Context(content) = <<x>>
    BY DEF Context
<1>2. x.calls = {} /\ "final" \notin DOMAIN x
    BY DEF Noise, ++
<1> HIDE DEF x
<1>3. Quiet(<<>>)
    BY DEF Quiet
<1> QED
    BY <1>1, <1>2, <1>3, QuietOne

\* The files of two marked stores.
LEMMA ContentKeyed ==
  ASSUME tool \in Tools, FilesOK(tool, files), NEW mark, FilesKeyed(tool, files, mark),
         NEW path, IsRead(path)
  PROVE  Keyed(tool, path, Content(path), mark)
<1> DEFINE wal == Wal(path)
<1>1. /\ IsPath(wal) /\ IsStoreFile(wal) /\ wal.root = path.root /\ wal.stem = path.stem
  <2>1. IsPath(path)
      BY DEF IsRead, Placed
  <2> QED
      BY <2>1 DEF IsPath, Path, Wal, IsStoreFile
<1> HIDE DEF wal
<1>2. CASE IsStored(tool) /\ wal \in DOMAIN files
  <2>1. Content(path) = files[wal]
      BY <1>2, StoredIs DEF Content, wal
  <2>2. Keyed(tool, wal, files[wal], mark)
      BY <1>1, <1>2 DEF FilesKeyed, FileKeyed, IsParsed, IsStored
  <2>3. Keyed(tool, path, files[wal], mark)
      BY <1>1, <1>2, <2>2, MarkMoves DEF Keyed
  <2> QED
      BY <2>1, <2>3
<1>3. CASE ~(IsStored(tool) /\ wal \in DOMAIN files) /\ path \in DOMAIN files
  <2>1. Content(path) = files[path]
      BY <1>3, StoredIs DEF Content, wal
  <2> QED
      BY <1>3, <2>1 DEF FilesKeyed, FileKeyed, IsRead
<1>4. CASE ~(IsStored(tool) /\ wal \in DOMAIN files) /\ path \notin DOMAIN files
  <2>1. Content(path) = Header(path)
      BY <1>4, StoredIs DEF Content, wal
  <2> QED
      BY <2>1, HeaderIsQuiet, NothingKeyed DEF Quiet
<1> QED
    BY <1>2, <1>3, <1>4

\* What a writer leaves.
LEMMA WithKeyed ==
  ASSUME tool \in Tools, FilesOK(tool, files), NEW mark, FilesKeyed(tool, files, mark),
         NEW path, IsRead(path), NEW content, WholeContent(tool, path, content),
         Keyed(tool, path, content, mark)
  PROVE  FilesKeyed(tool, With(path, content), mark)
<1>0. \A i \in DOMAIN content : content[i].kind # "torn"
    BY WholeIsNotTorn
<1>1. FileKeyed(tool, path, content, mark)
    BY <1>0, WholeKeyed
<1>2. CASE IsStored(tool) /\ IsDb(path)
  <2> DEFINE wal == Wal(path)
             others == IF path \in DOMAIN files THEN files ELSE File(path, Header(path)) ++ files
  <2>1. /\ IsPath(wal) /\ IsStoreFile(wal) /\ wal.root = path.root /\ wal.stem = path.stem
    <3>1. IsPath(path)
        BY DEF IsRead, Placed
    <3> QED
        BY <3>1 DEF IsPath, Path, Wal, IsStoreFile
  <2>2. With(path, content) = File(wal, content) ++ others
      BY <1>2, StoredIs DEF With
  <2>3. Keyed(tool, wal, content, mark)
      BY <1>2, <2>1, MarkMoves DEF Keyed
  <2>4. FileKeyed(tool, wal, content, mark)
      BY <1>0, <2>3, WholeKeyed
  <2>5. FileKeyed(tool, path, Header(path), mark)
    <3>1. \A i \in DOMAIN Header(path) : Header(path)[i].kind # "torn"
        BY HeaderOK DEF IsRead, OpenContent, GoodEntry, Settled, Pending
    <3> QED
        BY <3>1, HeaderIsQuiet, NothingKeyed, WholeKeyed DEF Quiet
  <2>6. FilesKeyed(tool, others, mark)
    <3>1. CASE path \in DOMAIN files
        BY <3>1
    <3>2. CASE path \notin DOMAIN files
      <4>1. FilesKeyed(tool, File(path, Header(path)), mark)
          BY <2>5, OneKeyed
      <4>2. others = File(path, Header(path)) ++ files
          BY <3>2
      <4> DEFINE f == File(path, Header(path))
      <4> HIDE DEF f
      <4>3. FilesKeyed(tool, f ++ files, mark)
          BY <4>1, KeyedTogether DEF f
      <4> QED
          BY <4>2, <4>3 DEF f
    <3> QED
        BY <3>1, <3>2
  <2> HIDE DEF others, wal
  <2> DEFINE f == File(wal, content)
  <2>7. FilesKeyed(tool, f, mark)
      BY <2>4, OneKeyed
  <2> HIDE DEF f
  <2>8. FilesKeyed(tool, f ++ others, mark)
      BY <2>6, <2>7, KeyedTogether
  <2> QED
      BY <2>2, <2>8 DEF f
<1>3. CASE ~(IsStored(tool) /\ IsDb(path))
  <2>1. With(path, content) = File(path, content) ++ files
      BY <1>3, StoredIs DEF With
  <2> DEFINE f == File(path, content)
  <2>2. FilesKeyed(tool, f, mark)
      BY <1>1, OneKeyed
  <2> HIDE DEF f
  <2>3. FilesKeyed(tool, f ++ files, mark)
      BY <2>2, KeyedTogether
  <2> QED
      BY <2>1, <2>3 DEF f
<1> QED
    BY <1>2, <1>3

\* Files beside those there are.
LEMMA KeyedBeside ==
  ASSUME NEW mark, FilesKeyed(tool, files, mark), NEW path, NEW s,
         IsParsed(tool, path) => FileKeyed(tool, path, s, mark)
  PROVE  FilesKeyed(tool, File(path, s) ++ files, mark)
<1> DEFINE f == File(path, s)
<1>1. FilesKeyed(tool, f, mark)
    BY OneKeyed
<1> HIDE DEF f
<1>2. FilesKeyed(tool, f ++ files, mark)
    BY <1>1, KeyedTogether
<1> QED
    BY <1>2 DEF f

\* A line of CodeBuddy stands for the calls noted with it, and has a place for their id.
LEMMA CodebuddyLineIs ==
  ASSUME NEW b, NEW e, DOMAIN e = {"calls", "id", "truth"}, NEW x \in CodebuddyLines(b, e)
  PROVE  x.calls = e.calls /\ "message_id" \in DOMAIN x
<1> DEFINE input == b.fresh + b.read + b.write
           output == b.output + b.reasoning
           lean == [input |-> Some(input), output |-> Some(output), cache_read |-> Some(b.read)]
           provider == [input |-> Some(input), output |-> Some(output), cached |-> Some(b.read)]
           raw == [prompt |-> Some(input), completion |-> Some(output), hit |-> Some(b.read),
                   cache_read |-> Some(0), cached |-> None, creation |-> None,
                   write |-> Some(b.write)]
           line == [role |-> "assistant", session_id |-> Some(e.truth.session),
                    cwd |-> Some(<<"work", e.truth.project>>), timestamp |-> Some("own"),
                    message_id |-> None, trace_id |-> None,
                    conversation_request_id |-> None, model |-> Some("requested"),
                    request_model_id |-> Some(<<"custom-local", e.truth.model>>),
                    message |-> None, provider |-> None, raw |-> None] ++ e
           usual == [line EXCEPT !.message = Some(lean), !.message_id = Some(e.id)]
           detailed == [line EXCEPT !.message = Some(lean), !.raw = Some(raw),
                                    !.trace_id = Some(e.id)]
           function == [line EXCEPT !.provider = Some(provider), !.model = Some(e.truth.model),
                                    !.request_model_id = None]
<1>1. \/ x = usual ++ [kind |-> "message"]
      \/ x = detailed ++ [kind |-> "message"]
      \/ x = function ++ [kind |-> "function_call"]
    BY DEF CodebuddyLines
<1>2. line.calls = e.calls /\ {"calls", "message_id"} \subseteq DOMAIN line
    BY DEF ++
<1> HIDE DEF line, lean, raw, provider
<1>3. /\ usual.calls = e.calls /\ DOMAIN usual = DOMAIN line
      /\ detailed.calls = e.calls /\ DOMAIN detailed = DOMAIN line
      /\ function.calls = e.calls /\ DOMAIN function = DOMAIN line
    BY <1>2
<1> HIDE DEF usual, detailed, function
<1> QED
    BY <1>1, <1>2, <1>3 DEF ++

\* A line of WorkBuddy stands for the calls noted with it.
LEMMA WorkbuddyLineIs ==
  ASSUME NEW b, NEW e, DOMAIN e = {"calls", "id", "truth"}, NEW x \in WorkbuddyLines(b, e)
  PROVE  x.calls = e.calls
<1> DEFINE line == [role |-> "assistant", session_id |-> Some(e.truth.session),
                    model |-> Some(e.truth.model), timestamp |-> Some("own"),
                    message |-> None, provider |-> None, raw |-> None] ++ e
           usage == [input |-> b.fresh + b.read, output |-> b.output + b.reasoning,
                     cache_read |-> b.read]
           raw == [prompt |-> b.fresh + b.read, completion |-> b.output + b.reasoning,
                   hit |-> b.read, write |-> Some(b.write), creation |-> None]
           launched == [cwd |-> Some(<<"work", e.truth.project, "launch-time">>)]
           opened == [cwd |-> Some(<<"work", e.truth.project>>)]
           detailed == [line EXCEPT !.message = Some(usage), !.raw = Some(raw)]
           function == [line EXCEPT !.raw = Some(raw)]
<1>1. \/ x = detailed ++ opened ++ [kind |-> "message"]
      \/ x = function ++ launched ++ [kind |-> "function_call"]
    BY DEF WorkbuddyLines
<1>2. line.calls = e.calls /\ "calls" \in DOMAIN line
    BY DEF ++
<1> HIDE DEF line, usage, raw, launched, opened
<1>3. /\ detailed.calls = e.calls /\ DOMAIN detailed = DOMAIN line
      /\ function.calls = e.calls /\ DOMAIN function = DOMAIN line
    BY <1>2
<1> HIDE DEF detailed, function
<1> QED
    BY <1>1, <1>2, <1>3 DEF ++

\* A turn of AtomCode stands for the calls noted with it.
LEMMA AtomCodeTurnIs ==
  ASSUME NEW ext, NEW b, NEW e, DOMAIN e = {"calls", "id", "truth"},
         NEW x \in AtomCodeTurns(ext, b, e)
  PROVE  x.calls = e.calls
<1> DEFINE u == [model_id |-> Some(e.truth.model), tokens |-> Some(AtomTokens(b))]
           turn == [kind |-> "turn", turn_id |-> Some(e.id), used_tokens |-> None,
                    total_tokens |-> None, model_usage |-> <<>>] ++ e
           rich == [turn EXCEPT !.model_usage = <<u>>, !.total_tokens = Some(1000)]
           nameless == [rich EXCEPT !.turn_id = None]
           counted == [turn EXCEPT !.used_tokens = Some(AtomTotal(b))]
           grown == [turn EXCEPT !.total_tokens = Some(AtomTotal(b))]
           detached == [kind |-> "detached", usage |-> u] ++ e
<1>1. x \in {rich, nameless, detached, counted, grown}
  <2>1. CASE ext = "index"
      BY <2>1 DEF AtomCodeTurns
  <2>2. CASE ext = "meta"
      BY <2>2 DEF AtomCodeTurns
  <2>3. CASE ext = "json"
      BY <2>3 DEF AtomCodeTurns
  <2>4. CASE ext \notin {"index", "meta", "json"}
      BY <2>4 DEF AtomCodeTurns
  <2> QED
      BY <2>1, <2>2, <2>3, <2>4
<1>2. turn.calls = e.calls /\ "calls" \in DOMAIN turn /\ detached.calls = e.calls
    BY DEF ++
<1> HIDE DEF turn, u, detached
<1>3. rich.calls = e.calls /\ counted.calls = e.calls /\ grown.calls = e.calls
    BY <1>2
<1>4. nameless.calls = e.calls
  <2>1. "calls" \in DOMAIN rich
      BY <1>2
  <2> HIDE DEF rich
  <2> QED
      BY <1>3, <2>1
<1> HIDE DEF rich, nameless, counted, grown
<1> QED
    BY <1>1, <1>2, <1>3, <1>4

\* What is written for a call stands for that call and no other.
LEMMA EntryIsOfCall ==
  ASSUME tool \in Tools, NEW path, NEW c, NEW b, NEW tr, NEW x \in Entries(path, b, Noted(c, c, tr))
  PROVE  /\ x.calls = {c}
         /\ tool = "codebuddy" /\ ~IsIndex(path) => "message_id" \in DOMAIN x
         /\ tool = "opencode" => "id" \in DOMAIN x
<1> DEFINE e == Noted(c, c, tr)
<1>n. e.calls = {c} /\ DOMAIN e = {"calls", "id", "truth"}
    BY DEF Noted
<1> HIDE DEF e
<1>e. x \in Entries(path, b, e)
    BY DEF e
<1>0. \A f : (f ++ e).calls = {c} \/ "calls" \in DOMAIN f
    BY <1>n DEF ++
<1>1. CASE tool = "claude"
    BY <1>1, <1>e, <1>0 DEF Entries, ClaudeLines
<1>2. CASE tool = "codex"
    BY <1>2, <1>e, <1>0 DEF Entries, CodexLines
<1>3. CASE tool = "gemini"
    BY <1>3, <1>e, <1>0 DEF Entries, GeminiUsages
<1>4. CASE tool = "codebuddy"
  <2>1. CASE IsIndex(path)
      BY <1>4, <1>e, <1>0, <2>1 DEF Entries, DesktopRequests
  <2>2. CASE ~IsIndex(path)
    <3>1. x \in CodebuddyLines(b, e)
        BY <1>4, <1>e, <2>2 DEF Entries
    <3> QED
        BY <1>4, <1>n, <2>2, <3>1, CodebuddyLineIs
  <2> QED
      BY <2>1, <2>2, <1>4
<1>5. CASE tool = "workbuddy"
  <2>1. x \in WorkbuddyLines(b, e)
      BY <1>5, <1>e DEF Entries
  <2> QED
      BY <1>5, <1>n, <2>1, WorkbuddyLineIs
<1>6. CASE tool = "openclaw"
    BY <1>6, <1>e, <1>n DEF Entries, OpenClawLines, ++
<1>7. CASE tool = "deepseek"
    BY <1>7, <1>e, <1>0 DEF Entries, DeepSeekLines
<1>8. CASE tool = "pi"
    BY <1>8, <1>e, <1>n DEF Entries, PiLines, ++
<1>9. CASE tool = "trae"
    BY <1>9, <1>e, <1>0 DEF Entries, TraeSessions
<1>10. CASE tool = "atomcode"
  <2>1. x \in AtomCodeTurns(path.ext, b, e)
      BY <1>10, <1>e DEF Entries
  <2> QED
      BY <1>10, <1>n, <2>1, AtomCodeTurnIs
<1>11. CASE tool = "antigravity"
    BY <1>11, <1>e, <1>0 DEF Entries, AntigravitySteps
<1>12. CASE tool \in {"opencode", "qoder", "codearts", "teleagent"}
  <2>1. \E more : x = MessageRow(b, e) ++ more
      BY <1>12, <1>e DEF Entries, OpenCodeRows, QoderRows, CodeArtsRows, TeleAgentRows
  <2>2. MessageRow(b, e).calls = {c} /\ {"calls", "id"} \subseteq DOMAIN MessageRow(b, e)
      BY <1>n DEF MessageRow, ++
  <2>3. x.calls = {c} /\ "id" \in DOMAIN x
      BY <2>1, <2>2 DEF ++
  <2> QED
      BY <1>12, <2>3
<1> QED
    BY <1>1, <1>2, <1>3, <1>4, <1>5, <1>6, <1>7, <1>8, <1>9, <1>10, <1>11, <1>12, ToolIsKnown

-----------------------------------------------------------------------------
(* Each step of the environment's leaves the files with their marks. *)

\* Every entry has a mark.
LEMMA MarkExists ==
  ASSUME tool \in Tools, NEW path, NEW s, NEW i, NEW x,
         tool = "codebuddy" /\ ~IsIndex(path) => "message_id" \in DOMAIN x,
         tool = "opencode" => "id" \in DOMAIN x
  PROVE  \E m : IsMark(tool, path, s, i, x, m)
<1>1. CASE tool \in {"claude", "codex"}
    BY <1>1 DEF IsMark
<1>2. CASE tool = "gemini"
    BY <1>2 DEF IsMark
<1>3. CASE tool = "antigravity"
    BY <1>3 DEF IsMark
<1>4. CASE tool = "codebuddy" /\ IsIndex(path)
    BY <1>4 DEF IsMark
<1>5. CASE tool = "codebuddy" /\ ~IsIndex(path)
    BY <1>5 DEF IsMark
<1>6. CASE tool = "workbuddy" /\ IsLedger(path)
  <2>1. <<x.id, x.id>>[2] = x.id
      OBVIOUS
  <2> QED
      BY <1>6, <2>1 DEF IsMark
<1>7. CASE tool = "workbuddy" /\ ~IsLedger(path)
    BY <1>7 DEF IsMark
<1>8. CASE tool \in {"opencode", "qoder", "codearts", "teleagent"}
    BY <1>8 DEF IsMark
<1>9. CASE tool \in {"openclaw", "deepseek", "pi", "trae"}
    BY <1>9 DEF IsMark
<1>10. CASE tool = "atomcode"
    BY <1>10 DEF IsMark
<1> QED
    BY <1>1, <1>2, <1>3, <1>4, <1>5, <1>6, <1>7, <1>8, <1>9, <1>10, ToolIsKnown

\* The log of turns beside a session of AtomCode is not parsed.
LEMMA TurnStartKeyed ==
  ASSUME NEW path, IsPath(path), NEW turn, NEW mark
  PROVE  FilesKeyed(tool, TurnStart(path, turn), mark)
<1>1. CASE tool # "atomcode" \/ path.ext = "json"
    BY <1>1 DEF TurnStart, FilesKeyed
<1>2. CASE ~(tool # "atomcode" \/ path.ext = "json")
  <2> DEFINE log == [path EXCEPT !.ext = IF path.ext = "index" THEN "events" ELSE "jsonl"]
             content == Append(IF log \in DOMAIN files THEN files[log] ELSE <<>>,
                               [turn |-> turn, at |-> "own"] ++ Noise("turn_start"))
  <2>1. IsPath(log) /\ log.ext \in {"events", "jsonl"}
      BY Sibling
  <2>2. TurnStart(path, turn) = File(log, content)
      BY <1>2 DEF TurnStart
  <2> HIDE DEF log, content
  <2>3. ~IsParsed(tool, log)
      BY <1>2, <2>1 DEF IsParsed
  <2> QED
      BY <2>2, <2>3, OneKeyed
<1> QED
    BY <1>1, <1>2

\* The row of a call in flight is, eventually, the row of the call.
LEMMA InFlightIs ==
  ASSUME NEW row, "final" \notin DOMAIN row, NEW zero, NEW x \in InFlight(row, zero)
  PROVE  Eventual(x) = row
<1>1. PICK n \in {None, Some(zero)} : x = [row EXCEPT !.tokens = n, !.calls = {}] ++ [final |-> row]
    BY DEF InFlight
<1> DEFINE y == [row EXCEPT !.tokens = n, !.calls = {}]
<1>2. DOMAIN y = DOMAIN row
    OBVIOUS
<1> HIDE DEF y
<1>3. "final" \in DOMAIN x /\ x.final = row
    BY <1>1, <1>2 DEF ++, y
<1> QED
    BY <1>3 DEF Eventual

\* Entries that stand for no call are appended.
LEMMA QuietKeyed ==
  ASSUME NEW t, NEW p, NEW mark, NEW head, NEW tail, IsSeq(head), IsSeq(tail),
         Keyed(t, p, head, mark), Quiet(tail)
  PROVE  Keyed(t, p, head \o tail, mark)
<1>1. \A j \in DOMAIN tail : \A c \in Eventual(tail[j]).calls :
         c \in DOMAIN mark
         /\ IsMark(t, p, head \o tail, Len(head) + j, Eventual(tail[j]), mark[c])
    BY DEF Quiet
<1> QED
    BY <1>1, KeyedExtends

\* A call gets its mark from its entry.
LEMMA MakeCallKeyed ==
  ASSUME BillInv, NEW mark, DOMAIN mark = {Calls[i] : i \in 1 .. made},
         FilesKeyed(tool, files, mark), MakeCall
  PROVE  \E more : /\ DOMAIN more = {Calls[i] : i \in 1 .. made'}
                   /\ DOMAIN mark \subseteq DOMAIN more
                   /\ \A d \in DOMAIN mark : more[d] = mark[d]
                   /\ FilesKeyed(tool, files', more)
<1> DEFINE c == Calls[made + 1]
<1>1. tool \in Tools /\ FilesOK(tool, files) /\ made \in 0 .. Len(Calls) /\ made < Len(Calls)
      /\ made' = made + 1
    BY DEF BillInv, MakeCall
<1>2. Len(Calls) \in Nat /\ DOMAIN Calls = 1 .. Len(Calls)
      /\ \A i, j \in DOMAIN Calls : Calls[i] = Calls[j] => i = j
    BY CallsAreBilled
<1>3. c \in Call
    BY <1>1, <1>2 DEF Call, ToSet
<1>4. c \notin DOMAIN mark
  <2> SUFFICES ASSUME NEW i \in 1 .. made, Calls[i] = Calls[made + 1] PROVE FALSE
      OBVIOUS
  <2>1. i \in DOMAIN Calls /\ made + 1 \in DOMAIN Calls /\ i # made + 1
      BY <1>1, <1>2
  <2> QED
      BY <1>2, <2>1
<1>5. {Calls[i] : i \in 1 .. made'} = DOMAIN mark \cup {c}
  <2>1. 1 .. made' = (1 .. made) \cup {made + 1}
      BY <1>1
  <2> QED
      BY <2>1
<1>6. PICK path \in {p \in Locations : Writable(p)} :
         \E entry \in Entries(path, Bill[c], [calls |-> {c}, id |-> c, truth |-> Truth]) :
         \E written \in {entry} \cup
                (IF Stored THEN InFlight(entry, IF tool = "antigravity" THEN NoStats ELSE NoTokens)
                 ELSE {}) :
            files' = TurnStart(path, c)
                     ++ With(path, Content(path) \o Context(Content(path)) \o <<written>>)
    BY DEF MakeCall
<1> HIDE DEF c
<1>7. PICK entry \in Entries(path, Bill[c], Noted(c, c, Truth)) :
         \E written \in {entry} \cup
                (IF Stored THEN InFlight(entry, IF tool = "antigravity" THEN NoStats ELSE NoTokens)
                 ELSE {}) :
            files' = TurnStart(path, c)
                     ++ With(path, Content(path) \o Context(Content(path)) \o <<written>>)
    BY <1>6 DEF Noted
<1>8. PICK written \in {entry} \cup
                (IF Stored THEN InFlight(entry, IF tool = "antigravity" THEN NoStats ELSE NoTokens)
                 ELSE {}) :
            files' = TurnStart(path, c)
                     ++ With(path, Content(path) \o Context(Content(path)) \o <<written>>)
    BY <1>7
<1>13. IsRead(path) /\ IsWhole(path) /\ IsPath(path)
    BY <1>1, <1>6, LocationsAreRead DEF Writable, IsRead, Placed
<1>9. EntryFits(path, c, entry)
    BY <1>1, <1>3, <1>7, <1>13, EntryOK DEF IsRead
<1>10. GoodEntry(tool, path, written) /\ Fits(tool, path, written)
  <2>1. CASE written = entry
      BY <1>9, <2>1 DEF EntryFits, GoodEntry
  <2>2. CASE written # entry
      BY <1>8, <1>9, <2>2, StoredIs DEF EntryFits
  <2> QED
      BY <2>1, <2>2
<1>11. /\ entry.calls = {c} /\ "final" \notin DOMAIN entry
       /\ tool = "codebuddy" /\ ~IsIndex(path) => "message_id" \in DOMAIN entry
       /\ tool = "opencode" => "id" \in DOMAIN entry
    BY <1>1, <1>7, <1>9, EntryIsOfCall DEF EntryFits, Settled
<1>12. Eventual(written) = entry
  <2>1. CASE written = entry
      BY <1>11, <2>1 DEF Eventual
  <2>2. CASE written # entry
    <3>1. \E zero : written \in InFlight(entry, zero)
        BY <1>8, <2>2
    <3> QED
        BY <1>11, <3>1, InFlightIs
  <2> QED
      BY <2>1, <2>2
<1>14. OpenContent(tool, path, Content(path))
    BY <1>1, <1>13, ContentOK
<1> DEFINE old == Content(path)
           mid == old \o Context(old)
           new == mid \o <<written>>
<1>15. OpenContent(tool, path, mid)
    BY <1>1, <1>14, ContextOK, Extends
<1>16. PICK m : IsMark(tool, path, new, Len(mid) + 1, entry, m)
  <2> HIDE DEF mid, new
  <2> QED
    BY <1>1, <1>11, MarkExists
<1>17. PICK more : /\ DOMAIN more = DOMAIN mark \cup {c} /\ more[c] = m
                   /\ \A d \in DOMAIN mark : more[d] = mark[d]
  <2> DEFINE f == [d \in DOMAIN mark \cup {c} |-> IF d = c THEN m ELSE mark[d]]
  <2>1. /\ DOMAIN f = DOMAIN mark \cup {c} /\ f[c] = m
        /\ \A d \in DOMAIN mark : f[d] = mark[d]
      BY <1>4
  <2> HIDE DEF f
  <2> QED
      BY <2>1
<1>18. FilesKeyed(tool, files, more)
    BY <1>17, MoreMarks
<1>19. Keyed(tool, path, old, more)
    BY <1>1, <1>13, <1>18, ContentKeyed
<1>20. Keyed(tool, path, mid, more)
  <2>1. IsSeq(old) /\ IsSeq(Context(old)) /\ Quiet(Context(old))
      BY <1>1, <1>14, ContextOK, ContextIsQuiet DEF OpenContent
  <2> HIDE DEF old
  <2> QED
      BY <1>19, <2>1, QuietKeyed
<1> HIDE DEF mid
<1>21. IsSeq(<<written>>) /\ DOMAIN <<written>> = {1} /\ <<written>>[1] = written
    BY OneIsSeq
<1>22. WholeContent(tool, path, new)
  <2>1. \A i \in DOMAIN <<written>> : <<written>>[i] = written
      BY <1>21
  <2>2. IsSeq(<<written>>) /\ <<written>> # <<>>
      BY <1>21
  <2> QED
      BY <1>10, <1>15, <2>1, <2>2, Extends
<1>23. Keyed(tool, path, new, more)
  <2> DEFINE tail == <<written>>
  <2>1. new = mid \o tail /\ IsSeq(tail) /\ DOMAIN tail = {1} /\ tail[1] = written
      BY <1>21
  <2>2. IsSeq(mid)
      BY <1>15 DEF OpenContent
  <2> HIDE DEF tail, new
  <2>3. \A j \in DOMAIN tail : \A d \in Eventual(tail[j]).calls :
           d \in DOMAIN more
           /\ IsMark(tool, path, mid \o tail, Len(mid) + j, Eventual(tail[j]), more[d])
    <3>1. \A d \in entry.calls : d \in DOMAIN more /\ more[d] = m
        BY <1>11, <1>17
    <3>2. IsMark(tool, path, mid \o tail, Len(mid) + 1, entry, m)
        BY <1>16, <2>1
    <3> QED
        BY <1>12, <2>1, <3>1, <3>2
  <2> QED
      BY <1>20, <2>1, <2>2, <2>3, KeyedExtends
<1>24. files' = TurnStart(path, c) ++ With(path, new)
    BY <1>8 DEF mid
<1> HIDE DEF new
<1>25. FilesKeyed(tool, With(path, new), more)
    BY <1>1, <1>13, <1>18, <1>22, <1>23, WithKeyed
<1>26. FilesKeyed(tool, TurnStart(path, c), more)
    BY <1>13, TurnStartKeyed
<1> DEFINE f == TurnStart(path, c)
           g == With(path, new)
<1>27. FilesKeyed(tool, f, more) /\ FilesKeyed(tool, g, more) /\ files' = f ++ g
    BY <1>24, <1>25, <1>26
<1> HIDE DEF f, g
<1>28. FilesKeyed(tool, f ++ g, more)
    BY <1>27, KeyedTogether
<1> QED
    BY <1>5, <1>17, <1>27, <1>28

\* Finish keeps the marks.
LEMMA FinishKeyed ==
  ASSUME BillInv, NEW mark, FilesKeyed(tool, files, mark), Finish
  PROVE  FilesKeyed(tool, files', mark)
<1>1. tool \in Tools /\ FilesOK(tool, files)
    BY DEF BillInv
<1>2. PICK path \in {p \in DOMAIN files : Stored /\ IsDb(p)} :
         \E i \in DOMAIN Content(path) :
            /\ "final" \in DOMAIN Content(path)[i]
            /\ files' = With(path, [Content(path) EXCEPT ![i] = @.final])
    BY DEF Finish
<1> DEFINE old == Content(path)
<1>3. PICK i \in DOMAIN old :
            /\ "final" \in DOMAIN old[i]
            /\ files' = With(path, [old EXCEPT ![i] = @.final])
    BY <1>2
<1>4. IsStored(tool) /\ IsDb(path) /\ Placed(tool, path) /\ ~IsLegacyMessage(path)
    BY <1>1, <1>2, StoredIs DEF FilesOK, FileOK, IsDb, IsLegacyMessage
<1>5. IsRead(path)
    BY <1>4 DEF IsRead, IsParsed, IsStored, IsDb, IsStoreFile
<1>6. WholeContent(tool, path, old) /\ Keyed(tool, path, old, mark)
    BY <1>1, <1>4, <1>5, ContentOK, ContentKeyed
<1>7. tool # "atomcode" /\ \A x : Fits(tool, path, x)
    BY <1>4 DEF IsStored, Fits
<1> HIDE DEF old
<1> DEFINE new == [old EXCEPT ![i] = @.final]
<1>9. new = [j \in DOMAIN old |-> new[j]]
      /\ \A j \in DOMAIN old : new[j] = IF j = i THEN old[j].final ELSE old[j]
    OBVIOUS
<1>10. files' = With(path, new)
    BY <1>3
<1> HIDE DEF new
<1>11. \A j \in DOMAIN old : GoodEntry(tool, path, old[j])
    BY <1>6 DEF WholeContent, OpenContent
<1>12. Settled(tool, path, old[i].final)
    BY <1>3, <1>11 DEF GoodEntry, Settled, Pending
<1>13. \A j \in DOMAIN old : GoodEntry(tool, path, new[j])
    BY <1>9, <1>11, <1>12 DEF GoodEntry
<1>14. WholeContent(tool, path, new)
    BY <1>6, <1>7, <1>9, <1>13, Replaces
<1>15. \A j \in DOMAIN old : Eventual(new[j]) = Eventual(old[j])
    BY <1>3, <1>9, <1>12 DEF Eventual, Settled
<1>16. Keyed(tool, path, new, mark)
  <2> SUFFICES ASSUME NEW j \in DOMAIN new, NEW c \in Eventual(new[j]).calls
               PROVE  c \in DOMAIN mark /\ IsMark(tool, path, new, j, Eventual(new[j]), mark[c])
      BY DEF Keyed
  <2>1. j \in DOMAIN old /\ Eventual(new[j]) = Eventual(old[j])
      BY <1>9, <1>15
  <2>2. c \in DOMAIN mark /\ IsMark(tool, path, old, j, Eventual(new[j]), mark[c])
      BY <1>6, <2>1 DEF Keyed
  <2> QED
      BY <1>4, <2>2, MarkMoves
<1> QED
    BY <1>1, <1>5, <1>10, <1>14, <1>16, WithKeyed

\* AddBadRow keeps the marks.
LEMMA AddBadRowKeyed ==
  ASSUME BillInv, NEW mark, FilesKeyed(tool, files, mark), AddBadRow
  PROVE  FilesKeyed(tool, files', mark)
<1>1. tool \in Tools /\ FilesOK(tool, files)
    BY DEF BillInv
<1>2. PICK path \in {p \in DOMAIN files : IsDb(p)} :
         Stored /\ Turn(With(path, Append(Content(path), Noise("bad"))))
    BY DEF AddBadRow
<1>3. IsStored(tool) /\ IsDb(path) /\ Placed(tool, path) /\ ~IsLegacyMessage(path)
    BY <1>1, <1>2, StoredIs DEF FilesOK, FileOK, IsDb, IsLegacyMessage
<1>4. IsRead(path)
    BY <1>3 DEF IsRead, IsParsed, IsStored, IsDb, IsStoreFile
<1> DEFINE old == Content(path)
           bad == Noise("bad")
           tail == <<bad>>
<1>5. OpenContent(tool, path, old) /\ Keyed(tool, path, old, mark)
    BY <1>1, <1>3, <1>4, ContentOK, ContentKeyed
<1>6. bad.calls = {} /\ "final" \notin DOMAIN bad /\ bad.kind = "bad"
    BY DEF Noise
<1>11. files' = With(path, Append(old, bad))
    BY <1>2 DEF Turn
<1> HIDE DEF old, bad
<1>7. /\ IsSeq(tail) /\ tail # <<>> /\ Quiet(tail)
      /\ \A i \in DOMAIN tail : tail[i] = bad
    BY <1>6, OneIsSeq, QuietOne
<1>8. GoodEntry(tool, path, bad) /\ Fits(tool, path, bad)
  <2>1. Settled(tool, path, bad)
      BY <1>3, <1>6, NoiseReadsWell DEF IsStored
  <2> QED
      BY <1>3, <2>1 DEF GoodEntry, Fits, IsStored
<1>10. Append(old, bad) = old \o tail
    BY <1>5 DEF OpenContent, IsSeq
<1> HIDE DEF tail
<1>9. WholeContent(tool, path, old \o tail)
    BY <1>5, <1>7, <1>8, Extends
<1>12. IsSeq(old)
    BY <1>5 DEF OpenContent
<1>13. Keyed(tool, path, old \o tail, mark)
    BY <1>5, <1>7, <1>12, QuietKeyed
<1> DEFINE new == old \o tail
<1>14. WholeContent(tool, path, new) /\ Keyed(tool, path, new, mark) /\ files' = With(path, new)
    BY <1>9, <1>10, <1>11, <1>13
<1> HIDE DEF new
<1> QED
    BY <1>1, <1>4, <1>14, WithKeyed

\* SwitchModel keeps the marks.
LEMMA SwitchModelKeyed ==
  ASSUME BillInv, NEW mark, FilesKeyed(tool, files, mark), SwitchModel
  PROVE  FilesKeyed(tool, files', mark)
<1>1. CASE tool # "antigravity"
    BY <1>1 DEF SwitchModel, Turn
<1>2. CASE tool = "antigravity"
  <2> DEFINE P == {Path(root, NoDir, "settings", "json") : root \in AntigravityRoots(homes)}
             s == [p \in P |-> <<[model |-> Some("m2")] ++ Noise("settings")>>]
  <2>1. files' = s ++ files
      BY <1>2 DEF SwitchModel, Turn
  <2>2. \A p \in P : p.ext = "json"
      BY FileFields
  <2>3. DOMAIN s = P
      OBVIOUS
  <2> HIDE DEF P, s
  <2>4. FilesKeyed(tool, s, mark)
      BY <1>2, <2>2, <2>3 DEF FilesKeyed, IsParsed, IsStoreFile
  <2>5. \A f : FilesKeyed(tool, f, mark) => FilesKeyed(tool, s ++ f, mark)
      BY <2>4, KeyedTogether
  <2> QED
      BY <2>1, <2>5
<1> QED
    BY <1>1, <1>2

\* Checkpoint keeps the marks.
LEMMA CheckpointKeyed ==
  ASSUME BillInv, NEW mark, FilesKeyed(tool, files, mark), Checkpoint
  PROVE  FilesKeyed(tool, files', mark)
<1>1. tool \in Tools /\ FilesOK(tool, files) /\ IsStored(tool)
    BY StoredIs DEF BillInv, Checkpoint
<1>2. PICK path \in {p \in DOMAIN files : Wal(p) \in DOMAIN files /\ IsDb(p)} :
         Turn([p \in DOMAIN files \ {Wal(path)} |-> IF p = path THEN Content(path) ELSE files[p]])
    BY DEF Checkpoint
<1>3. IsDb(path) /\ Placed(tool, path) /\ ~IsLegacyMessage(path)
    BY <1>1, <1>2 DEF FilesOK, FileOK, IsDb, IsLegacyMessage
<1>4. IsRead(path)
    BY <1>1, <1>3 DEF IsRead, IsParsed, IsStored, IsDb, IsStoreFile
<1>5. WholeContent(tool, path, Content(path)) /\ Keyed(tool, path, Content(path), mark)
    BY <1>1, <1>3, <1>4, ContentOK, ContentKeyed
<1>6. FileKeyed(tool, path, Content(path), mark)
    BY <1>5, WholeIsNotTorn, WholeKeyed
<1> DEFINE X == {Wal(path)}
           g == [p \in DOMAIN files \ X |-> IF p = path THEN Content(path) ELSE files[p]]
<1>7. files' = g
    BY <1>2 DEF Turn
<1>8. DOMAIN g = DOMAIN files \ X
      /\ \A p \in DOMAIN g : g[p] = files[p] \/ FileKeyed(tool, p, g[p], mark)
    BY <1>6
<1> HIDE DEF g, X
<1>9. FilesKeyed(tool, g, mark)
    BY <1>8, KeyedWithout
<1> QED
    BY <1>7, <1>9

\* Tear keeps the marks.
LEMMA TearKeyed ==
  ASSUME BillInv, NEW mark, FilesKeyed(tool, files, mark), Tear
  PROVE  FilesKeyed(tool, files', mark)
<1>1. tool \in Tools /\ FilesOK(tool, files)
    BY DEF BillInv
<1>2. PICK path \in DOMAIN files :
         /\ path.ext = "jsonl.zstd" \/ (Document(path) /\ ~IsJsonl(path) /\ path.ext # "events")
         /\ IsWhole(path)
         /\ LET whole == files[path]
            IN  Turn([files EXCEPT ![path] = IF Document(path) THEN <<Torn(whole)>>
                                             ELSE Append(Front(whole), Torn(whole))])
    BY DEF Tear
<1> DEFINE whole == files[path]
           torn == Torn(whole)
           content == IF IsDocument(tool, path) THEN <<torn>> ELSE Append(Front(whole), torn)
<1>3. files' = [files EXCEPT ![path] = content]
    BY <1>2, StoredIs DEF Turn
<1>4. torn.kind = "torn" /\ torn.whole = whole /\ torn.calls = {} /\ "final" \notin DOMAIN torn
    BY DEF Torn, Noise, ++
<1> HIDE DEF torn
<1>5. ASSUME IsParsed(tool, path) PROVE FileKeyed(tool, path, content, mark)
  <2>1. WholeContent(tool, path, whole) /\ Keyed(tool, path, whole, mark)
      BY <1>1, <1>2, <1>5, WholeFile DEF FilesKeyed, FileKeyed
  <2>2. IsDocument(tool, path) \/ path.ext = "jsonl.zstd"
      BY <1>2, StoredIs
  <2>3. Quiet(<<torn>>)
      BY <1>4, QuietOne
  <2>4. CASE IsDocument(tool, path)
    <3>1. content = <<torn>> /\ Last(<<torn>>) = torn
        BY <2>4, TornLast, EmptyIsSeq
    <3>2. Keyed(tool, path, <<torn>>, mark)
        BY <2>3, NothingKeyed DEF Quiet
    <3> HIDE DEF whole, content
    <3> QED
        BY <1>4, <2>1, <3>1, <3>2 DEF FileKeyed
  <2>5. CASE ~IsDocument(tool, path)
    <3> HIDE DEF whole
    <3>1. IsSeq(whole) /\ whole # <<>>
      <4>1. ~MayBeEmpty(tool, path)
          BY <2>2, <2>5 DEF MayBeEmpty, IsStoreFile, IsJsonl
      <4> QED
          BY <2>1, <4>1 DEF WholeContent, OpenContent
    <3> DEFINE front == Front(whole)
               tail == <<torn>>
    <3>2. whole \in Seq(ToSet(whole)) /\ Len(whole) \in Nat /\ Len(whole) # 0
          /\ DOMAIN whole = 1 .. Len(whole)
        BY <3>1 DEF IsSeq
    <3>3. front = SubSeq(whole, 1, Len(whole) - 1)
        BY DEF Front
    <3>4. /\ DOMAIN front = 1 .. (Len(whole) - 1)
          /\ front = [i \in 1 .. (Len(whole) - 1) |-> front[i]]
          /\ \A i \in 1 .. (Len(whole) - 1) : front[i] = whole[i]
        BY <3>2, <3>3
    <3> HIDE DEF front
    <3>5. IsSeq(front)
        BY <3>2, <3>4, SeqIntro
    <3>6. Keyed(tool, path, front, mark)
      <4> SUFFICES ASSUME NEW i \in DOMAIN front, NEW c \in Eventual(front[i]).calls
                   PROVE  c \in DOMAIN mark
                          /\ IsMark(tool, path, front, i, Eventual(front[i]), mark[c])
          BY DEF Keyed
      <4>1. i \in DOMAIN whole /\ front[i] = whole[i] /\ i \in Nat
            /\ \A k \in 1 .. i : whole[k] = front[k]
          BY <3>2, <3>4
      <4>2. c \in DOMAIN mark /\ IsMark(tool, path, whole, i, Eventual(front[i]), mark[c])
          BY <2>1, <4>1 DEF Keyed
      <4> QED
          BY <4>1, <4>2, MarkStays
    <3>7. content = Append(front, torn) /\ Last(content) = torn
      <4>1. content = Append(front, torn)
          BY <2>5 DEF front
      <4> QED
          BY <3>5, <4>1, TornLast
    <3> HIDE DEF content
    <3>11. Append(front, torn) = front \o tail
        BY <3>5 DEF IsSeq
    <3>8. content = front \o tail
        BY <3>7, <3>11
    <3>9. IsSeq(tail) /\ Quiet(tail)
        BY <2>3, OneIsSeq
    <3> HIDE DEF tail
    <3>10. Keyed(tool, path, front \o tail, mark)
        BY <3>5, <3>6, <3>9, QuietKeyed
    <3> QED
        BY <1>4, <2>1, <3>7, <3>8, <3>10 DEF FileKeyed
  <2> QED
      BY <2>4, <2>5
<1> HIDE DEF content
<1> QED
    BY <1>3, <1>5, KeyedChanges

\* Mend keeps the marks.
LEMMA MendKeyed ==
  ASSUME BillInv, NEW mark, FilesKeyed(tool, files, mark), Mend
  PROVE  FilesKeyed(tool, files', mark)
<1>1. tool \in Tools /\ FilesOK(tool, files)
    BY DEF BillInv
<1>2. PICK path \in DOMAIN files :
         ~IsWhole(path) /\ files' = [files EXCEPT ![path] = Last(@).whole]
    BY DEF Mend
<1> DEFINE content == Last(files[path]).whole
<1>3. files' = [files EXCEPT ![path] = content]
    BY <1>2
<1>4. FileOK(tool, path, files[path])
    BY <1>1 DEF FilesOK
<1>5. ASSUME IsParsed(tool, path) PROVE FileKeyed(tool, path, content, mark)
  <2>1. GoodContent(tool, path, files[path]) /\ FileKeyed(tool, path, files[path], mark)
      BY <1>4, <1>5 DEF FileOK, FilesKeyed
  <2>2. \E i \in DOMAIN files[path] : files[path][i].kind = "torn"
      BY <1>2 DEF IsWhole
  <2>3. ~WholeContent(tool, path, files[path])
      BY <2>2, WholeIsNotTorn
  <2>4. WholeContent(tool, path, content)
      BY <2>1, <2>3, TornShows DEF GoodContent
  <2>5. Keyed(tool, path, content, mark)
      BY <2>1, <2>2 DEF FileKeyed
  <2> QED
      BY <2>4, <2>5, WholeIsNotTorn, WholeKeyed
<1> HIDE DEF content
<1> QED
    BY <1>3, <1>5, KeyedChanges

\* Mirror keeps the marks.
LEMMA MirrorKeyed ==
  ASSUME BillInv, NEW mark, FilesKeyed(tool, files, mark), Mirror
  PROVE  FilesKeyed(tool, files', mark)
<1>1. tool \in Tools /\ FilesOK(tool, files)
    BY DEF BillInv
<1>2. PICK path \in DOMAIN files :
         \/ /\ tool = "codebuddy" /\ IsJsonl(path)
            /\ Turn(File([path EXCEPT !.stem = "s2"], files[path]) ++ files)
         \/ /\ tool = "trae"
            /\ \E root \in CacheDirCandidates :
                  Turn(File([path EXCEPT !.root = root], files[path]) ++ files)
    BY DEF Mirror
<1>3. \E copy : /\ copy.ext = path.ext /\ copy.dir = path.dir
                /\ tool = "trae" => copy.stem = path.stem
                /\ files' = File(copy, files[path]) ++ files
  <2>1. IsPath(path)
      BY <1>1 DEF FilesOK, FileOK, Placed
  <2>2. [path EXCEPT !.stem = "s2"].ext = path.ext /\ [path EXCEPT !.stem = "s2"].dir = path.dir
      BY <2>1 DEF IsPath, Path
  <2>3. \A root : /\ [path EXCEPT !.root = root].ext = path.ext
                  /\ [path EXCEPT !.root = root].dir = path.dir
                  /\ [path EXCEPT !.root = root].stem = path.stem
      BY <2>1 DEF IsPath, Path
  <2>4. CASE tool = "codebuddy"
      BY <1>2, <2>2, <2>4 DEF Turn
  <2>5. CASE tool = "trae"
      BY <1>2, <2>3, <2>5 DEF Turn
  <2> QED
      BY <1>2, <2>4, <2>5
<1>4. PICK copy : /\ copy.ext = path.ext /\ copy.dir = path.dir
                  /\ tool = "trae" => copy.stem = path.stem
                  /\ files' = File(copy, files[path]) ++ files
    BY <1>3
<1>5. FileKeyed(tool, path, files[path], mark)
    BY <1>2 DEF FilesKeyed, IsParsed
<1>6. \A s, i, x, m : IsMark(tool, path, s, i, x, m) => IsMark(tool, copy, s, i, x, m)
  <2>1. CASE tool = "codebuddy"
    <3>1. ~IsIndex(path) /\ ~IsIndex(copy)
        BY <1>2, <1>4, <2>1 DEF IsIndex, IsJsonl
    <3> QED
        BY <2>1, <3>1 DEF IsMark
  <2>2. CASE tool = "trae"
      BY <1>4, <2>2 DEF IsMark
  <2> QED
      BY <1>2, <2>1, <2>2
<1>7. \A s : Keyed(tool, path, s, mark) => Keyed(tool, copy, s, mark)
    BY <1>6 DEF Keyed
<1>8. FileKeyed(tool, copy, files[path], mark)
    BY <1>5, <1>7 DEF FileKeyed
<1> QED
    BY <1>4, <1>8, KeyedBeside

\* WriteBeside keeps the marks.
LEMMA WriteBesideKeyed ==
  ASSUME BillInv, NEW mark, FilesKeyed(tool, files, mark), WriteBeside
  PROVE  FilesKeyed(tool, files', mark)
<1>1. tool = "codebuddy" /\ FilesOK(tool, files)
    BY DEF BillInv, WriteBeside
<1>2. PICK path \in {p \in DOMAIN files : IsIndex(p) /\ IsWhole(p)} :
         LET messages == [path EXCEPT !.ext = "messages"]
             db == Path("ide", NoDir, "codebuddy-sessions", "vscdb")
         IN  \E content : \/ files' = File(messages, content) ++ files
                          \/ files' = File(db, content) ++ files
    BY DEF WriteBeside, Turn
<1> DEFINE messages == [path EXCEPT !.ext = "messages"]
           db == Path("ide", NoDir, "codebuddy-sessions", "vscdb")
<1>3. IsPath(path)
    BY <1>1, <1>2 DEF FilesOK, FileOK, Placed
<1>4. messages.ext = "messages" /\ db.ext = "vscdb"
    BY <1>3, Sibling, FileFields
<1>5. PICK content : \/ files' = File(messages, content) ++ files
                     \/ files' = File(db, content) ++ files
    BY <1>2
<1> HIDE DEF messages, db
<1>6. ~IsParsed(tool, messages) /\ ~IsParsed(tool, db)
    BY <1>1, <1>4 DEF IsParsed, IsJsonl, IsIndex
<1> QED
    BY <1>5, <1>6, KeyedBeside

\* OpenCode takes over a message file with its mark.
LEMMA MessagesKeyed ==
  ASSUME BillInv, NEW mark, FilesKeyed(tool, files, mark), tool = "opencode",
         NEW path \in DOMAIN files, IsWhole(path), IsLegacyMessage(path),
         LET store == Path(path.root, NoDir, "opencode", "db")
         IN  files' = With(store, Content(store) \o files[path])
  PROVE  FilesKeyed(tool, files', mark)
<1> DEFINE store == Path(path.root, NoDir, "opencode", "db")
           old == Content(store)
           more == files[path]
<1>1. tool \in Tools /\ FilesOK(tool, files) /\ IsStored(tool)
    BY DEF BillInv, IsStored
<1>2. IsRead(store) /\ IsDb(store) /\ store.root = path.root
  <2>1. IsPath(store) /\ store.ext = "db" /\ store.dir = NoDir /\ store.root = path.root
      BY FileFields
  <2>2. NoDir # "storage/message"
      BY DEF NoDir
  <2> HIDE DEF store
  <2> QED
      BY <2>1, <2>2 DEF IsRead, Placed, IsParsed, IsDb
<1>3. WholeContent(tool, store, old) /\ Keyed(tool, store, old, mark)
    BY <1>1, <1>2, ContentOK, ContentKeyed
<1>4. WholeContent(tool, path, more) /\ Keyed(tool, path, more, mark)
    BY <1>1, WholeFile DEF IsParsed, FilesKeyed, FileKeyed
<1>5. more # <<>>
    BY <1>4 DEF WholeContent, MayBeEmpty, IsLegacyMessage, IsStoreFile, IsJsonl
<1>f. files' = With(store, old \o more)
    OBVIOUS
<1>6. /\ IsSeq(more)
      /\ \A i \in DOMAIN more : GoodEntry(tool, store, more[i]) /\ Fits(tool, store, more[i])
  <2>1. \A i \in DOMAIN more : Fits(tool, store, more[i])
      BY <1>2 DEF Fits, IsLegacyMessage, IsDb
  <2> QED
      BY <1>1, <1>4, <2>1, StoredReads DEF WholeContent, OpenContent
<1> HIDE DEF store, old, more
<1>7. WholeContent(tool, store, old \o more)
    BY <1>3, <1>5, <1>6, Extends DEF WholeContent
<1>8. \A j \in DOMAIN more : \A c \in Eventual(more[j]).calls :
         c \in DOMAIN mark
         /\ IsMark(tool, store, old \o more, Len(old) + j, Eventual(more[j]), mark[c])
  <2> SUFFICES ASSUME NEW j \in DOMAIN more, NEW c \in Eventual(more[j]).calls
               PROVE  c \in DOMAIN mark
                      /\ IsMark(tool, store, old \o more, Len(old) + j, Eventual(more[j]), mark[c])
      OBVIOUS
  <2>1. c \in DOMAIN mark /\ IsMark(tool, path, more, j, Eventual(more[j]), mark[c])
      BY <1>4 DEF Keyed
  <2> QED
      BY <1>1, <1>2, <2>1, MarkMoves
<1>9. IsSeq(old)
    BY <1>3 DEF WholeContent, OpenContent
<1>10. Keyed(tool, store, old \o more, mark)
    BY <1>3, <1>6, <1>8, <1>9, KeyedExtends
<1> QED
    BY <1>1, <1>2, <1>f, <1>7, <1>10, WithKeyed

\* AtomCode takes over a session with its marks.
LEMMA SessionKeyed ==
  ASSUME BillInv, NEW mark, FilesKeyed(tool, files, mark), tool = "atomcode",
         NEW path \in DOMAIN files, IsWhole(path), path.ext = "meta",
         LET index == [path EXCEPT !.ext = "index"]
             log(ext) == [path EXCEPT !.ext = ext]
             moved == File(index, files[path]) ++ File(log("events"), files[log("jsonl")]) ++ files
         IN  \E left \in {{}, {path}} : files' = [p \in DOMAIN moved \ left |-> moved[p]]
  PROVE  FilesKeyed(tool, files', mark)
<1> DEFINE index == [path EXCEPT !.ext = "index"]
           jsonl == [path EXCEPT !.ext = "jsonl"]
           events == [path EXCEPT !.ext = "events"]
           a == File(index, files[path])
           b == File(events, files[jsonl])
           moved == a ++ b ++ files
<1>1. tool \in Tools /\ FilesOK(tool, files)
    BY DEF BillInv
<1>2. IsPath(path)
    BY <1>1 DEF FilesOK, FileOK, Placed
<1>3. index.ext = "index" /\ events.ext = "events"
    BY <1>2, Sibling
<1>4. PICK left : files' = [p \in DOMAIN moved \ left |-> moved[p]]
    OBVIOUS
<1> HIDE DEF index, events, jsonl
<1>5. FileKeyed(tool, path, files[path], mark)
    BY DEF FilesKeyed, IsParsed
<1>6. \A s, i, x, m : IsMark(tool, path, s, i, x, m) => IsMark(tool, index, s, i, x, m)
    BY <1>3 DEF IsMark, AtomCodeMark
<1>7. FileKeyed(tool, index, files[path], mark)
    BY <1>5, <1>6 DEF FileKeyed, Keyed
<1>8. ~IsParsed(tool, events)
    BY <1>3 DEF IsParsed
<1>9. FilesKeyed(tool, a, mark) /\ FilesKeyed(tool, b, mark)
    BY <1>7, <1>8, OneKeyed
<1> HIDE DEF a, b
<1>10. \A f, g, h : FilesKeyed(tool, f, mark) /\ FilesKeyed(tool, g, mark) /\ FilesKeyed(tool, h, mark)
           => FilesKeyed(tool, f ++ g ++ h, mark)
    BY KeyedTogether
<1>11. FilesKeyed(tool, moved, mark)
    BY <1>9, <1>10
<1> HIDE DEF moved
<1> DEFINE g == [p \in DOMAIN moved \ left |-> moved[p]]
<1>12. DOMAIN g = DOMAIN moved \ left /\ \A p \in DOMAIN g : g[p] = moved[p]
    OBVIOUS
<1>13. files' = g
    BY <1>4
<1> HIDE DEF g
<1>14. FilesKeyed(tool, g, mark)
    BY <1>11, <1>12, KeyedWithout
<1> QED
    BY <1>13, <1>14

\* Migrate keeps the marks.
LEMMA MigrateKeyed ==
  ASSUME BillInv, NEW mark, FilesKeyed(tool, files, mark), Migrate
  PROVE  FilesKeyed(tool, files', mark)
<1>1. PICK path \in DOMAIN files :
         /\ IsWhole(path)
         /\ \/ /\ tool = "opencode" /\ IsLegacyMessage(path)
               /\ LET store == Path(path.root, NoDir, "opencode", "db")
                  IN  /\ CallsIn(files[path]) \cap CallsIn(Content(store)) = {}
                      /\ Turn(With(store, Content(store) \o files[path]))
            \/ /\ tool = "atomcode" /\ path.ext = "meta"
               /\ LET index == [path EXCEPT !.ext = "index"]
                      log(ext) == [path EXCEPT !.ext = ext]
                      moved == File(index, files[path]) ++ File(log("events"), files[log("jsonl")]) ++ files
                  IN  \E left \in {{}, {path}} :
                         Turn([p \in DOMAIN moved \ left |-> moved[p]])
    BY DEF Migrate
<1>2. CASE tool = "opencode"
  <2>1. /\ IsLegacyMessage(path)
        /\ LET store == Path(path.root, NoDir, "opencode", "db")
           IN  files' = With(store, Content(store) \o files[path])
      BY <1>1, <1>2 DEF Turn
  <2> QED
      BY <1>1, <1>2, <2>1, MessagesKeyed
<1>3. CASE tool # "opencode"
  <2>1. /\ tool = "atomcode" /\ path.ext = "meta"
        /\ LET index == [path EXCEPT !.ext = "index"]
               log(ext) == [path EXCEPT !.ext = ext]
               moved == File(index, files[path]) ++ File(log("events"), files[log("jsonl")]) ++ files
           IN  \E left \in {{}, {path}} : files' = [p \in DOMAIN moved \ left |-> moved[p]]
      BY <1>1, <1>3 DEF Turn
  <2> QED
      BY <1>1, <2>1, SessionKeyed
<1> QED
    BY <1>2, <1>3

\* Rewrite keeps the marks: where every line has an id, no mark is a line number.
LEMMA RewriteKeyed ==
  ASSUME BillInv, NEW mark, FilesKeyed(tool, files, mark), Rewrite
  PROVE  FilesKeyed(tool, files', mark)
<1>1. tool = "codebuddy" /\ tool \in Tools /\ FilesOK(tool, files)
    BY DEF BillInv, Rewrite
<1>2. PICK path \in {p \in DOMAIN files : IsJsonl(p)} :
         /\ \A i \in DOMAIN files[path] : HasIdentity(files[path][i])
         /\ files' = [files EXCEPT ![path] = Tail(@)]
    BY DEF Rewrite, Turn
<1> DEFINE old == files[path]
           new == Tail(old)
<1>3. files' = [files EXCEPT ![path] = new]
    BY <1>2
<1>4. FileOK(tool, path, old) /\ IsParsed(tool, path) /\ Keyed(tool, path, old, mark)
      /\ ~IsIndex(path)
    BY <1>1, <1>2 DEF FilesOK, IsParsed, FilesKeyed, FileKeyed, IsJsonl, IsIndex
<1>5. WholeContent(tool, path, old) /\ \A i \in DOMAIN old : HasIdentity(old[i])
    BY <1>1, <1>2, <1>4 DEF FileOK, GoodContent, TornContent, IsDocument, IsJsonl, IsIndex
<1>6. IsSeq(old) /\ \A i \in DOMAIN old : Settled(tool, path, old[i])
    BY <1>1, <1>5 DEF WholeContent, OpenContent, GoodEntry, IsStored
<1> HIDE DEF old
<1>7. FileKeyed(tool, path, new, mark)
  <2>1. CASE old = <<>>
    <3>1. new = <<>> /\ DOMAIN new = {}
        BY <2>1
    <3> QED
        BY <3>1 DEF FileKeyed, Keyed
  <2>2. CASE old # <<>>
    <3>1. Len(old) \in Nat /\ Len(old) # 0 /\ old \in Seq(ToSet(old)) /\ DOMAIN old = 1 .. Len(old)
        BY <1>6, <2>2 DEF IsSeq
    <3>2. /\ new \in Seq(ToSet(old)) /\ Len(new) = Len(old) - 1
          /\ \A i \in 1 .. (Len(old) - 1) : new[i] = old[i + 1]
        BY <2>2, <3>1, HeadTailProperties
    <3> HIDE DEF new
    <3>3. DOMAIN new = 1 .. (Len(old) - 1)
        BY <3>1, <3>2
    <3>4. \A i \in DOMAIN new : i + 1 \in DOMAIN old /\ new[i] = old[i + 1]
        BY <3>1, <3>2, <3>3
    <3>5. Keyed(tool, path, new, mark)
      <4> SUFFICES ASSUME NEW i \in DOMAIN new, NEW c \in Eventual(new[i]).calls
                   PROVE  c \in DOMAIN mark
                          /\ IsMark(tool, path, new, i, Eventual(new[i]), mark[c])
          BY DEF Keyed
      <4> DEFINE x == new[i]
      <4>1. Eventual(x) = x /\ HasIdentity(x)
          BY <1>5, <1>6, <3>4 DEF Settled, Eventual
      <4>2. c \in DOMAIN mark /\ IsMark(tool, path, old, i + 1, x, mark[c])
          BY <1>4, <3>4, <4>1 DEF Keyed
      <4> HIDE DEF x
      <4>3. /\ "message_id" \in DOMAIN x
            /\ mark[c] = OrElse(FirstOf(<<x.message_id, x.trace_id, x.conversation_request_id>>),
                                ToString(i + 1))
          BY <1>1, <1>4, <4>2 DEF IsMark
      <4>4. FirstOf(<<x.message_id, x.trace_id, x.conversation_request_id>>) # None
          BY <4>1, <4>3, FirstOfThree DEF HasIdentity
      <4>5. \A n, k : OrElse(FirstOf(<<x.message_id, x.trace_id, x.conversation_request_id>>), n)
               = OrElse(FirstOf(<<x.message_id, x.trace_id, x.conversation_request_id>>), k)
          BY <4>4 DEF OrElse
      <4>6. IsMark(tool, path, new, i, x, mark[c])
          BY <1>1, <1>4, <4>3, <4>5 DEF IsMark
      <4> QED
          BY <4>1, <4>2, <4>6 DEF x
    <3>6. \A i \in DOMAIN new : new[i].kind # "torn"
        BY <1>6, <3>4 DEF Settled
    <3> QED
        BY <3>5, <3>6, WholeKeyed
  <2> QED
      BY <2>1, <2>2
<1> HIDE DEF new
<1> QED
    BY <1>3, <1>7, KeyedChanges

\* A figure in WorkBuddy's ledger keeps the marks, if it is of calls marked with its session.
LEMMA EnteredKeyed ==
  ASSUME tool = "workbuddy", FilesOK(tool, files), NEW mark, FilesKeyed(tool, files, mark),
         NEW ledger, IsPath(ledger), IsLedger(ledger), NEW calls, NEW session,
         \A c \in calls : c \in DOMAIN mark /\ mark[c][2] = session
  PROVE  FilesKeyed(tool, Entered(ledger, calls, session) ++ files, mark)
<1>1. FilesOK(tool, files) /\ tool = "workbuddy" /\ ~IsStored(tool)
    BY DEF IsStored
<1> DEFINE truth == [model |-> FirstModel, project |-> Project, session |-> session]
           noted == [calls |-> calls, truth |-> truth]
           row == WorkbuddySession(TotalSum(calls), noted)
           old == IF ledger \in DOMAIN files THEN files[ledger] ELSE <<>>
           updated == [i \in DOMAIN old |-> IF old[i].id = row.id THEN row ELSE old[i]]
           new == IF \E i \in DOMAIN old : old[i].id = row.id THEN updated ELSE Append(old, row)
<1>3. Entered(ledger, calls, session) = File(ledger, new)
    BY DEF Entered, TotalSum
<1>4. IsLedger(ledger)
    OBVIOUS
<1>5. truth.session = session
    OBVIOUS
<1> HIDE DEF truth
<1>6. row.calls = calls /\ row.id = session /\ Eventual(row) = row /\ row.kind # "torn"
    BY <1>5 DEF WorkbuddySession, Eventual
<1>7. \A c \in calls : c \in DOMAIN mark /\ mark[c][2] = session
    OBVIOUS
<1> HIDE DEF noted, row
<1>8. \A s, i, c : c \in row.calls => c \in DOMAIN mark /\ IsMark(tool, ledger, s, i, row, mark[c])
    BY <1>1, <1>4, <1>6, <1>7 DEF IsMark
<1>9. /\ IsSeq(old) /\ Keyed(tool, ledger, old, mark)
      /\ \A i \in DOMAIN old : old[i].kind # "torn"
  <2>1. CASE ledger \in DOMAIN files
    <3>1. old = files[ledger]
        BY <2>1
    <3>2. WholeContent(tool, ledger, files[ledger])
        BY <1>1, <1>4, <2>1, FileFields
           DEF FilesOK, FileOK, IsParsed, GoodContent, TornContent, IsDocument, IsIndex, IsLedger
    <3>3. Keyed(tool, ledger, files[ledger], mark)
        BY <1>1, <2>1 DEF FilesKeyed, FileKeyed, IsParsed
    <3> HIDE DEF old
    <3> QED
        BY <3>1, <3>2, <3>3, WholeIsNotTorn DEF WholeContent, OpenContent
  <2>2. CASE ledger \notin DOMAIN files
    <3>1. old = <<>> /\ DOMAIN old = {}
        BY <2>2
    <3> QED
        BY <3>1, EmptyIsSeq DEF Keyed
  <2> QED
      BY <2>1, <2>2
<1> HIDE DEF old
<1>10. ASSUME \E i \in DOMAIN old : old[i].id = row.id PROVE FileKeyed(tool, ledger, new, mark)
  <2>1. /\ DOMAIN updated = DOMAIN old
        /\ \A i \in DOMAIN old : updated[i] = row \/ updated[i] = old[i]
      OBVIOUS
  <2>2. new = updated
      BY <1>10
  <2> HIDE DEF updated, new
  <2>3. Keyed(tool, ledger, updated, mark)
    <3> SUFFICES ASSUME NEW i \in DOMAIN updated, NEW c \in Eventual(updated[i]).calls
                 PROVE  c \in DOMAIN mark
                        /\ IsMark(tool, ledger, updated, i, Eventual(updated[i]), mark[c])
        BY DEF Keyed
    <3>1. CASE updated[i] = row
        BY <1>6, <1>8, <3>1
    <3>2. CASE updated[i] = old[i]
      <4>1. c \in DOMAIN mark /\ IsMark(tool, ledger, old, i, Eventual(updated[i]), mark[c])
          BY <1>9, <2>1, <3>2 DEF Keyed
      <4> QED
          BY <1>1, <1>4, <4>1 DEF IsMark
    <3> QED
        BY <2>1, <3>1, <3>2
  <2>4. \A i \in DOMAIN updated : updated[i].kind # "torn"
      BY <1>6, <1>9, <2>1
  <2> QED
      BY <2>2, <2>3, <2>4, WholeKeyed
<1>11. ASSUME ~\E i \in DOMAIN old : old[i].id = row.id PROVE FileKeyed(tool, ledger, new, mark)
  <2> DEFINE tail == <<row>>
  <2>1. new = Append(old, row)
      BY <1>11
  <2>2. Append(old, row) = old \o tail
      BY <1>9 DEF IsSeq
  <2>3. IsSeq(tail) /\ DOMAIN tail = {1} /\ tail[1] = row /\ Len(tail) = 1
      BY OneIsSeq
  <2> HIDE DEF new, tail
  <2>4. Keyed(tool, ledger, old \o tail, mark)
    <3>1. \A j \in DOMAIN tail : \A c \in Eventual(tail[j]).calls :
             c \in DOMAIN mark
             /\ IsMark(tool, ledger, old \o tail, Len(old) + j, Eventual(tail[j]), mark[c])
        BY <1>6, <1>8, <2>3
    <3> QED
        BY <1>9, <2>3, <3>1, KeyedExtends
  <2>5. \A i \in DOMAIN (old \o tail) : (old \o tail)[i].kind # "torn"
    <3>1. ToSet(old \o tail) = ToSet(old) \cup ToSet(tail)
        BY <1>9, <2>3, ConcatIsSeq
    <3>2. \A x \in ToSet(old) \cup ToSet(tail) : x.kind # "torn"
        BY <1>6, <1>9, <2>3 DEF ToSet
    <3> QED
        BY <3>1, <3>2 DEF ToSet
  <2> QED
      BY <2>1, <2>2, <2>4, <2>5, WholeKeyed
<1>12. FileKeyed(tool, ledger, new, mark)
    BY <1>10, <1>11
<1> HIDE DEF new
<1> QED
    BY <1>3, <1>12, KeyedBeside

\* SyncLedger keeps the marks: the row of a session has the calls of the session.
LEMMA SyncLedgerKeyed ==
  ASSUME BillInv, NEW mark, FilesKeyed(tool, files, mark), SyncLedger
  PROVE  FilesKeyed(tool, files', mark)
<1>1. tool \in Tools /\ FilesOK(tool, files) /\ tool = "workbuddy" /\ ~IsStored(tool)
    BY DEF BillInv, SyncLedger, IsStored
<1>2. PICK path \in {p \in DOMAIN files : IsJsonl(p)} :
         files' = Entered(LedgerOf(path.root), CallsIn(files[path]), Session) ++ files
    BY DEF SyncLedger, Turn
<1> DEFINE calls == CallsIn(files[path])
<1>3. \A c \in calls : c \in DOMAIN mark /\ mark[c][2] = Session
  <2> SUFFICES ASSUME NEW c \in calls PROVE c \in DOMAIN mark /\ mark[c][2] = Session
      OBVIOUS
  <2>1. WholeContent(tool, path, files[path])
      BY <1>1, <1>2 DEF FilesOK, FileOK, IsParsed, GoodContent, TornContent, IsDocument, IsJsonl, IsIndex
  <2>2. Keyed(tool, path, files[path], mark)
      BY <1>1, <1>2 DEF FilesKeyed, FileKeyed, IsParsed
  <2>3. PICK i \in DOMAIN files[path] : c \in files[path][i].calls
      BY DEF CallsIn
  <2>4. Eventual(files[path][i]) = files[path][i]
      BY <1>1, <2>1 DEF WholeContent, OpenContent, GoodEntry, Settled, Eventual
  <2>5. c \in DOMAIN mark /\ IsMark(tool, path, files[path], i, files[path][i], mark[c])
      BY <2>2, <2>3, <2>4 DEF Keyed
  <2>6. mark[c] = <<ToString(i), Session>>
      BY <1>1, <1>2, <2>5 DEF IsMark, IsJsonl, IsLedger
  <2> QED
      BY <2>5, <2>6
<1> HIDE DEF calls
<1> QED
    BY <1>1, <1>2, <1>3, LedgerIs, EnteredKeyed DEF calls

\* A call of a session that only the ledger tells of gets the mark of the session.
LEMMA MakeUntoldCallKeyed ==
  ASSUME BillInv, NEW mark, DOMAIN mark = {Calls[i] : i \in 1 .. made},
         FilesKeyed(tool, files, mark), MakeUntoldCall
  PROVE  \E more : /\ DOMAIN more = {Calls[i] : i \in 1 .. made'}
                   /\ DOMAIN mark \subseteq DOMAIN more
                   /\ \A d \in DOMAIN mark : more[d] = mark[d]
                   /\ FilesKeyed(tool, files', more)
<1> DEFINE c == Calls[made + 1]
<1>1. /\ FilesOK(tool, files) /\ made \in 0 .. Len(Calls) /\ made < Len(Calls)
      /\ made' = made + 1 /\ tool = "workbuddy"
    BY DEF BillInv, MakeUntoldCall
<1>2. Len(Calls) \in Nat /\ DOMAIN Calls = 1 .. Len(Calls)
      /\ \A i, j \in DOMAIN Calls : Calls[i] = Calls[j] => i = j
    BY CallsAreBilled
<1>4. c \notin DOMAIN mark
  <2> SUFFICES ASSUME NEW i \in 1 .. made, Calls[i] = Calls[made + 1] PROVE FALSE
      OBVIOUS
  <2>1. i \in DOMAIN Calls /\ made + 1 \in DOMAIN Calls /\ i # made + 1
      BY <1>1, <1>2
  <2> QED
      BY <1>2, <2>1
<1>5. {Calls[i] : i \in 1 .. made'} = DOMAIN mark \cup {c}
  <2>1. 1 .. made' = (1 .. made) \cup {made + 1}
      BY <1>1
  <2> QED
      BY <2>1
<1>6. PICK root \in homes :
         LET ledger == LedgerOf(root)
             content == IF ledger \in DOMAIN files THEN files[ledger] ELSE <<>>
             earlier == UNION {row.calls : row \in {x \in ToSet(content) : x.id = Untold}}
         IN  files' = Entered(ledger, earlier \cup {c}, Untold) ++ files
    BY DEF MakeUntoldCall
<1> DEFINE ledger == LedgerOf(root)
           content == IF ledger \in DOMAIN files THEN files[ledger] ELSE <<>>
           earlier == UNION {row.calls : row \in {x \in ToSet(content) : x.id = Untold}}
           m == <<"0", Untold>>
<1>7. files' = Entered(ledger, earlier \cup {c}, Untold) ++ files
    BY <1>6
<1>8. IsPath(ledger) /\ IsLedger(ledger)
    BY LedgerIs
<1>9. m[2] = Untold
    OBVIOUS
<1> HIDE DEF c, ledger, m
<1>10. PICK more : /\ DOMAIN more = DOMAIN mark \cup {c} /\ more[c] = m
                   /\ \A d \in DOMAIN mark : more[d] = mark[d]
  <2> DEFINE f == [d \in DOMAIN mark \cup {c} |-> IF d = c THEN m ELSE mark[d]]
  <2>1. /\ DOMAIN f = DOMAIN mark \cup {c} /\ f[c] = m
        /\ \A d \in DOMAIN mark : f[d] = mark[d]
      BY <1>4
  <2> HIDE DEF f
  <2> QED
      BY <2>1
<1>11. FilesKeyed(tool, files, more)
    BY <1>10, MoreMarks
<1>12. \A d \in earlier : d \in DOMAIN more /\ more[d][2] = Untold
  <2> SUFFICES ASSUME NEW d \in earlier PROVE d \in DOMAIN more /\ more[d][2] = Untold
      OBVIOUS
  <2>1. PICK x \in ToSet(content) : x.id = Untold /\ d \in x.calls
      OBVIOUS
  <2>2. "final" \notin DOMAIN x
      BY <1>1, <1>8, LedgerReads
  <2>3. ledger \in DOMAIN files /\ \E i \in DOMAIN files[ledger] : x = files[ledger][i]
    <3>1. CASE ledger \in DOMAIN files
        BY <3>1 DEF ToSet
    <3>2. CASE ledger \notin DOMAIN files
        BY <3>2 DEF ToSet
    <3> QED
        BY <3>1, <3>2
  <2>4. WholeContent(tool, ledger, files[ledger])
      BY <1>1, <1>8, <2>3, LedgerReads
  <2>5. Keyed(tool, ledger, files[ledger], more)
      BY <1>1, <1>8, <1>11, <2>3 DEF FilesKeyed, FileKeyed, IsParsed, IsLedger
  <2> HIDE DEF content, earlier
  <2>6. PICK i \in DOMAIN files[ledger] : x = files[ledger][i]
      BY <2>3
  <2>7. d \in DOMAIN more /\ IsMark(tool, ledger, files[ledger], i, x, more[d])
      BY <2>1, <2>2, <2>5, <2>6 DEF Keyed, Eventual
  <2> QED
      BY <1>1, <1>8, <2>1, <2>7 DEF IsMark
<1> DEFINE calls == earlier \cup {c}
<1>13. \A d \in calls : d \in DOMAIN more /\ more[d][2] = Untold
    BY <1>9, <1>10, <1>12
<1> HIDE DEF calls
<1>14. FilesKeyed(tool, Entered(ledger, calls, Untold) ++ files, more)
    BY <1>1, <1>8, <1>11, <1>13, EnteredKeyed
<1>15. FilesKeyed(tool, files', more)
    BY <1>7, <1>14 DEF calls
<1> QED
    BY <1>5, <1>10, <1>15

-----------------------------------------------------------------------------
(* Parsing: where the calls of a file have their marks, the records an adapter makes of *)
(* it have the keys that go with them.                                                  *)

\* Every call in what an adapter is offered has its mark.
Offered(t, path, content, mark) ==
    /\ IsSeq(content)
    /\ \A i \in DOMAIN content : \A c \in content[i].calls :
          c \in DOMAIN mark /\ IsMark(t, path, content, i, content[i], mark[c])

\* Every record read from path has the key of each of its calls.
Owned(t, path, mark, out) ==
    /\ IsSeq(out)
    /\ \A q \in ToSet(out) :
          /\ DOMAIN q = RecordFields
          /\ \A c \in q.calls : c \in DOMAIN mark /\ q.key = KeyFrom(t, path, mark[c])

\* An adapter may emit nothing.
LEMMA NothingOwned == ASSUME NEW t, NEW path, NEW mark PROVE Owned(t, path, mark, <<>>)
BY EmptyIsSeq DEF Owned

\* A record has the calls of its entry.
LEMMA EmitOwned ==
  ASSUME NEW t, NEW path, NEW mark, NEW key, NEW tokens, NEW session, NEW project, NEW md, NEW at,
         NEW entry,
         \A c \in entry.calls : c \in DOMAIN mark /\ key = KeyFrom(t, path, mark[c])
  PROVE  Owned(t, path, mark, Emit(key, tokens, session, project, md, at, entry))
<1> DEFINE r == [key |-> key, tokens |-> tokens, session |-> session, project |-> project,
                 model |-> md, at |-> at, calls |-> entry.calls, truth |-> entry.truth]
<1>1. CASE TotalTokens(tokens) = 0
    BY <1>1, NothingOwned DEF Emit
<1>2. CASE TotalTokens(tokens) # 0
  <2>1. Emit(key, tokens, session, project, md, at, entry) = <<r>>
      BY <1>2 DEF Emit
  <2>2. DOMAIN r = RecordFields /\ r.calls = entry.calls /\ r.key = key
      BY DEF RecordFields
  <2> HIDE DEF r
  <2> QED
      BY <2>1, <2>2, OneIsSeq DEF Owned
<1> QED
    BY <1>1, <1>2

\* The records of the entries of one file.
LEMMA FlattenOwned ==
  ASSUME NEW t, NEW path, NEW mark, NEW content, IsSeq(content),
         NEW seqs, seqs = [i \in DOMAIN content |-> seqs[i]],
         \A i \in DOMAIN content : Owned(t, path, mark, seqs[i])
  PROVE  Owned(t, path, mark, FlattenSeq(seqs))
<1>1. Len(content) \in Nat /\ DOMAIN content = 1 .. Len(content)
    BY SeqShape
<1>2. DOMAIN seqs = 1 .. Len(content) /\ seqs = [i \in 1 .. Len(content) |-> seqs[i]]
    BY <1>1
<1>3. IsSeq(seqs) /\ \A i \in DOMAIN seqs : IsSeq(seqs[i])
    BY <1>1, <1>2, SeqIntro DEF Owned
<1>4. /\ IsSeq(FlattenSeq(seqs))
      /\ ToSet(FlattenSeq(seqs)) = UNION {ToSet(seqs[i]) : i \in DOMAIN seqs}
    BY <1>3, FlattenIsSeq
<1> QED
    BY <1>1, <1>2, <1>4 DEF Owned

\* The entries before the first that ends the reading keep their marks.
LEMMA OfferedBefore ==
  ASSUME NEW t, NEW path, NEW mark, NEW s, Offered(t, path, s, mark),
         NEW stop, stop \subseteq DOMAIN s
  PROVE  Offered(t, path, SubSeq(s, 1, IF stop = {} THEN Len(s) ELSE Min(stop) - 1), mark)
<1> DEFINE r == SubSeq(s, 1, IF stop = {} THEN Len(s) ELSE Min(stop) - 1)
<1>1. IsSeq(r) /\ DOMAIN r \subseteq DOMAIN s /\ \A i \in DOMAIN r : r[i] = s[i]
    BY BeforeStop DEF Offered
<1> HIDE DEF r
<1>2. DOMAIN r = 1 .. Len(r) /\ Len(r) \in Nat
    BY <1>1, SeqShape
<1>3. ASSUME NEW i \in DOMAIN r, NEW c \in r[i].calls
      PROVE  c \in DOMAIN mark /\ IsMark(t, path, r, i, r[i], mark[c])
  <2>1. c \in DOMAIN mark /\ IsMark(t, path, s, i, r[i], mark[c])
      BY <1>1, <1>3 DEF Offered
  <2>2. i \in Nat /\ \A k \in 1 .. i : s[k] = r[k]
      BY <1>1, <1>2
  <2> QED
      BY <2>1, <2>2, MarkStays
<1> QED
    BY <1>1, <1>3 DEF Offered, r

\* Claude: a call is its line.
LEMMA ClaudeOwned ==
  ASSUME NEW path, NEW content, NEW mark, Offered("claude", path, content, mark)
  PROVE  Owned("claude", path, mark, ClaudeFile(path, content))
<1> DEFINE seqs == [i \in DOMAIN content |-> ClaudeRecord(path, content[i], i)]
<1>1. IsSeq(content)
    BY DEF Offered
<1>2. ASSUME NEW i \in DOMAIN content
      PROVE  Owned("claude", path, mark, ClaudeRecord(path, content[i], i))
    BY EmitOwned, NothingOwned DEF Offered, IsMark, KeyFrom, ClaudeRecord
<1>3. \A i \in DOMAIN content : Owned("claude", path, mark, seqs[i])
    BY <1>2
<1>4. seqs = [i \in DOMAIN content |-> seqs[i]]
    OBVIOUS
<1>5. ClaudeFile(path, content) = FlattenSeq(seqs)
    BY DEF ClaudeFile
<1> HIDE DEF seqs
<1> QED
    BY <1>1, <1>3, <1>4, <1>5, FlattenOwned

\* Codex: a call is its line.
LEMMA CodexOwned ==
  ASSUME NEW path, NEW content, NEW mark, Offered("codex", path, content, mark)
  PROVE  Owned("codex", path, mark, CodexFile(path, content))
<1> DEFINE seqs == [i \in DOMAIN content |-> CodexLine(path, content, i)]
<1>1. IsSeq(content)
    BY DEF Offered
<1>2. ASSUME NEW i \in DOMAIN content
      PROVE  Owned("codex", path, mark, CodexLine(path, content, i))
    BY EmitOwned, NothingOwned DEF Offered, IsMark, KeyFrom, CodexLine
<1>3. \A i \in DOMAIN content : Owned("codex", path, mark, seqs[i])
    BY <1>2
<1>4. seqs = [i \in DOMAIN content |-> seqs[i]]
    OBVIOUS
<1>5. CodexFile(path, content) = FlattenSeq(seqs)
    BY DEF CodexFile
<1> HIDE DEF seqs
<1> QED
    BY <1>1, <1>3, <1>4, <1>5, FlattenOwned

\* CodeBuddy: a call is the id of its line, or the line.
LEMMA CodebuddyOwned ==
  ASSUME NEW path, NEW content, NEW mark, Offered("codebuddy", path, content, mark), ~IsIndex(path)
  PROVE  Owned("codebuddy", path, mark, CodebuddyFile(path, content))
<1> DEFINE seqs == [i \in DOMAIN content |-> CodebuddyRecord(path, content[i], i)]
<1>1. IsSeq(content)
    BY DEF Offered
<1>2. ASSUME NEW i \in DOMAIN content
      PROVE  Owned("codebuddy", path, mark, CodebuddyRecord(path, content[i], i))
    BY EmitOwned, NothingOwned DEF Offered, IsMark, KeyFrom, CodebuddyRecord
<1>3. \A i \in DOMAIN content : Owned("codebuddy", path, mark, seqs[i])
    BY <1>2
<1>4. seqs = [i \in DOMAIN content |-> seqs[i]]
    OBVIOUS
<1>5. CodebuddyFile(path, content) = FlattenSeq(seqs)
    BY DEF CodebuddyFile
<1> HIDE DEF seqs
<1> QED
    BY <1>1, <1>3, <1>4, <1>5, FlattenOwned

\* WorkBuddy: a call is its line,
LEMMA WorkbuddyOwned ==
  ASSUME NEW path, NEW content, NEW mark, Offered("workbuddy", path, content, mark), ~IsLedger(path)
  PROVE  Owned("workbuddy", path, mark, WorkbuddyFile(path, content))
<1> DEFINE seqs == [i \in DOMAIN content |-> WorkbuddyRecord(path, content[i], i)]
<1>1. IsSeq(content)
    BY DEF Offered
<1>2. ASSUME NEW i \in DOMAIN content
      PROVE  Owned("workbuddy", path, mark, WorkbuddyRecord(path, content[i], i))
  <2>1. \A c \in content[i].calls :
           c \in DOMAIN mark /\ Rel(path) \o <<ToString(i)>>
                                   = KeyFrom("workbuddy", path, mark[c])
      BY DEF Offered, IsMark, KeyFrom
  <2> QED
      BY <2>1, EmitOwned, NothingOwned DEF WorkbuddyRecord
<1>3. \A i \in DOMAIN content : Owned("workbuddy", path, mark, seqs[i])
    BY <1>2
<1>4. seqs = [i \in DOMAIN content |-> seqs[i]]
    OBVIOUS
<1>5. WorkbuddyFile(path, content) = FlattenSeq(seqs)
    BY DEF WorkbuddyFile
<1> HIDE DEF seqs
<1> QED
    BY <1>1, <1>3, <1>4, <1>5, FlattenOwned

\* and in the ledger its session.
LEMMA LedgerOwned ==
  ASSUME NEW path, NEW content, NEW mark, NEW covered,
         Offered("workbuddy", path, content, mark), IsLedger(path)
  PROVE  Owned("workbuddy", path, mark, WorkbuddyLedger(path, content, covered))
<1> DEFINE seqs == [i \in DOMAIN content |-> WorkbuddyLedgerRow(path, content[i], covered)]
<1>1. IsSeq(content)
    BY DEF Offered
<1>2. ASSUME NEW i \in DOMAIN content
      PROVE  Owned("workbuddy", path, mark, WorkbuddyLedgerRow(path, content[i], covered))
    BY EmitOwned, NothingOwned DEF Offered, IsMark, KeyFrom, WorkbuddyLedgerRow
<1>3. \A i \in DOMAIN content : Owned("workbuddy", path, mark, seqs[i])
    BY <1>2
<1>4. seqs = [i \in DOMAIN content |-> seqs[i]]
    OBVIOUS
<1>5. WorkbuddyLedger(path, content, covered) = FlattenSeq(seqs)
    BY DEF WorkbuddyLedger
<1> HIDE DEF seqs
<1> QED
    BY <1>1, <1>3, <1>4, <1>5, FlattenOwned

\* Pi: a call is the id of its entry.
LEMMA PiOwned ==
  ASSUME NEW path, NEW content, NEW mark, Offered("pi", path, content, mark)
  PROVE  Owned("pi", path, mark, PiFile(path, content))
<1> DEFINE seqs == [i \in DOMAIN content |-> PiLine(path, content, i)]
<1>1. IsSeq(content)
    BY DEF Offered
<1>2. ASSUME NEW i \in DOMAIN content
      PROVE  Owned("pi", path, mark, PiLine(path, content, i))
  <2>1. \A c \in content[i].calls :
           c \in DOMAIN mark /\ Rel(path) \o <<content[i].id[1]>>
                                   = KeyFrom("pi", path, mark[c])
      BY DEF Offered, IsMark, KeyFrom
  <2> QED
      BY <2>1, EmitOwned, NothingOwned DEF PiLine
<1>3. \A i \in DOMAIN content : Owned("pi", path, mark, seqs[i])
    BY <1>2
<1>4. seqs = [i \in DOMAIN content |-> seqs[i]]
    OBVIOUS
<1>5. PiFile(path, content) = FlattenSeq(seqs)
    BY DEF PiFile
<1> HIDE DEF seqs
<1> QED
    BY <1>1, <1>3, <1>4, <1>5, FlattenOwned

\* OpenClaw: a call is the id of its message.
LEMMA OpenClawOwned ==
  ASSUME NEW path, NEW content, NEW mark, Offered("openclaw", path, content, mark)
  PROVE  Owned("openclaw", path, mark, OpenClawFile(path, content))
<1> DEFINE seqs == [i \in DOMAIN content |-> OpenClawRecord(path, content, i)]
<1>1. IsSeq(content)
    BY DEF Offered
<1>2. ASSUME NEW i \in DOMAIN content
      PROVE  Owned("openclaw", path, mark, OpenClawRecord(path, content, i))
    BY EmitOwned, NothingOwned DEF Offered, IsMark, KeyFrom, OpenClawRecord
<1>3. \A i \in DOMAIN content : Owned("openclaw", path, mark, seqs[i])
    BY <1>2
<1>4. seqs = [i \in DOMAIN content |-> seqs[i]]
    OBVIOUS
<1>5. OpenClawFile(path, content) = FlattenSeq(seqs)
    BY DEF OpenClawFile
<1> HIDE DEF seqs
<1> QED
    BY <1>1, <1>3, <1>4, <1>5, FlattenOwned

\* Qoder: a call is the id of its row.
LEMMA QoderOwned ==
  ASSUME NEW path, NEW content, NEW mark, Offered("qoder", path, content, mark)
  PROVE  Owned("qoder", path, mark, QoderStore(path, content))
<1> DEFINE seqs == [i \in DOMAIN content |->
                      IF content[i].kind = "bad" THEN <<>> ELSE QoderRecord(content[i])]
<1>1. IsSeq(content)
    BY DEF Offered
<1>2. ASSUME NEW i \in DOMAIN content
      PROVE  Owned("qoder", path, mark,
                   IF content[i].kind = "bad" THEN <<>> ELSE QoderRecord(content[i]))
    BY EmitOwned, NothingOwned DEF Offered, IsMark, KeyFrom, QoderRecord
<1>3. \A i \in DOMAIN content : Owned("qoder", path, mark, seqs[i])
    BY <1>2
<1>4. seqs = [i \in DOMAIN content |-> seqs[i]]
    OBVIOUS
<1>5. QoderStore(path, content) = FlattenSeq(seqs)
    BY DEF QoderStore
<1> HIDE DEF seqs
<1> QED
    BY <1>1, <1>3, <1>4, <1>5, FlattenOwned

\* CodeArts: a call is the id of its row.
LEMMA CodeArtsOwned ==
  ASSUME NEW path, NEW content, NEW mark, Offered("codearts", path, content, mark)
  PROVE  Owned("codearts", path, mark, CodeArtsStore(path, content))
<1> DEFINE seqs == [i \in DOMAIN content |->
                      IF content[i].kind = "bad" THEN <<>> ELSE ParseMessage(content[i])]
<1>1. IsSeq(content)
    BY DEF Offered
<1>2. ASSUME NEW i \in DOMAIN content
      PROVE  Owned("codearts", path, mark,
                   IF content[i].kind = "bad" THEN <<>> ELSE ParseMessage(content[i]))
    BY EmitOwned, NothingOwned DEF Offered, IsMark, KeyFrom, ParseMessage
<1>3. \A i \in DOMAIN content : Owned("codearts", path, mark, seqs[i])
    BY <1>2
<1>4. seqs = [i \in DOMAIN content |-> seqs[i]]
    OBVIOUS
<1>5. CodeArtsStore(path, content) = FlattenSeq(seqs)
    BY DEF CodeArtsStore
<1> HIDE DEF seqs
<1> QED
    BY <1>1, <1>3, <1>4, <1>5, FlattenOwned

\* The rows before the first bad one keep theirs.
LEMMA OfferedGood ==
  ASSUME NEW t, NEW path, NEW mark, NEW content, Offered(t, path, content, mark)
  PROVE  Offered(t, path, RowsBeforeBad(content), mark)
<1> DEFINE bad == {i \in DOMAIN content : content[i].kind = "bad"}
<1>1. bad \subseteq DOMAIN content
    OBVIOUS
<1>2. RowsBeforeBad(content) = SubSeq(content, 1, IF bad = {} THEN Len(content) ELSE Min(bad) - 1)
    BY DEF RowsBeforeBad
<1> HIDE DEF bad
<1> QED
    BY <1>1, <1>2, OfferedBefore

\* OpenCode: a call is the id of its row.
LEMMA OpenCodeOwned ==
  ASSUME NEW path, NEW content, NEW mark, Offered("opencode", path, content, mark)
  PROVE  Owned("opencode", path, mark, OpenCodeStore(path, content))
<1> DEFINE rs == RowsBeforeBad(content)
           seqs == [i \in DOMAIN rs |-> OpenCodeRecord(path.root, rs[i])]
<1>1. OpenCodeStore(path, content) = FlattenSeq(seqs)
    BY DEF OpenCodeStore
<1>2. Offered("opencode", path, rs, mark)
    BY OfferedGood
<1> HIDE DEF rs
<1>3. IsSeq(rs)
    BY <1>2 DEF Offered
<1>4. ASSUME NEW i \in DOMAIN rs
      PROVE  Owned("opencode", path, mark, OpenCodeRecord(path.root, rs[i]))
  <2>1. \A c \in rs[i].calls :
           c \in DOMAIN mark /\ Label(path.root) \o <<"opencode.db", rs[i].id>>
                                   = KeyFrom("opencode", path, mark[c])
      BY <1>2 DEF Offered, IsMark, KeyFrom
  <2> QED
      BY <2>1, EmitOwned, NothingOwned DEF OpenCodeRecord
<1>5. \A i \in DOMAIN rs : Owned("opencode", path, mark, seqs[i])
    BY <1>4
<1>6. seqs = [i \in DOMAIN rs |-> seqs[i]]
    OBVIOUS
<1> HIDE DEF seqs
<1> QED
    BY <1>1, <1>3, <1>5, <1>6, FlattenOwned

\* TeleAgent: a call is the id of its row.
LEMMA TeleAgentOwned ==
  ASSUME NEW path, NEW content, NEW mark, Offered("teleagent", path, content, mark)
  PROVE  Owned("teleagent", path, mark, TeleAgentStore(path, content))
<1> DEFINE rs == RowsBeforeBad(content)
           seqs == [i \in DOMAIN rs |-> TeleAgentRecord(path.root, rs[i])]
<1>1. TeleAgentStore(path, content) = FlattenSeq(seqs)
    BY DEF TeleAgentStore
<1>2. Offered("teleagent", path, rs, mark)
    BY OfferedGood
<1> HIDE DEF rs
<1>3. IsSeq(rs)
    BY <1>2 DEF Offered
<1>4. ASSUME NEW i \in DOMAIN rs
      PROVE  Owned("teleagent", path, mark, TeleAgentRecord(path.root, rs[i]))
    BY <1>2, EmitOwned, NothingOwned DEF Offered, IsMark, KeyFrom, TeleAgentRecord
<1>5. \A i \in DOMAIN rs : Owned("teleagent", path, mark, seqs[i])
    BY <1>4
<1>6. seqs = [i \in DOMAIN rs |-> seqs[i]]
    OBVIOUS
<1> HIDE DEF seqs
<1> QED
    BY <1>1, <1>3, <1>5, <1>6, FlattenOwned

\* DeepSeek: a call is a step of a turn.
LEMMA DeepSeekOwned ==
  ASSUME NEW path, NEW content, NEW mark, Offered("deepseek", path, content, mark)
  PROVE  Owned("deepseek", path, mark, DeepSeekFile(path, content))
<1> DEFINE rs == SessionLines(path, content)
           seqs == [i \in DOMAIN rs |-> MessageRecord(path, rs, i)]
<1>1. DeepSeekFile(path, content) = FlattenSeq(seqs)
    BY DEF DeepSeekFile
<1>2. Offered("deepseek", path, rs, mark)
  <2>1. CASE path.ext = "jsonl"
      BY <2>1 DEF SessionLines
  <2>2. CASE path.ext # "jsonl"
    <3> DEFINE torn == {i \in DOMAIN content : content[i].kind = "torn"}
    <3>1. torn \subseteq DOMAIN content
        OBVIOUS
    <3>2. rs = SubSeq(content, 1, IF torn = {} THEN Len(content) ELSE Min(torn) - 1)
        BY <2>2 DEF SessionLines
    <3> HIDE DEF rs, torn
    <3> QED
        BY <3>1, <3>2, OfferedBefore
  <2> QED
      BY <2>1, <2>2
<1> HIDE DEF rs
<1>3. IsSeq(rs)
    BY <1>2 DEF Offered
<1>4. ASSUME NEW i \in DOMAIN rs PROVE Owned("deepseek", path, mark, MessageRecord(path, rs, i))
  <2>1. \A c \in rs[i].calls :
           c \in DOMAIN mark /\ Rel(path) \o <<rs[i].turn[1], rs[i].step[1]>>
                                   = KeyFrom("deepseek", path, mark[c])
      BY <1>2 DEF Offered, IsMark, KeyFrom
  <2> QED
      BY <2>1, EmitOwned, NothingOwned DEF MessageRecord
<1>5. \A i \in DOMAIN rs : Owned("deepseek", path, mark, seqs[i])
    BY <1>4
<1>6. seqs = [i \in DOMAIN rs |-> seqs[i]]
    OBVIOUS
<1> HIDE DEF seqs
<1> QED
    BY <1>1, <1>3, <1>5, <1>6, FlattenOwned

\* Antigravity: a call is a step of its conversation.
LEMMA ConversationOwned ==
  ASSUME NEW fs, NEW path, NEW content, NEW mark, Offered("antigravity", path, content, mark)
  PROVE  Owned("antigravity", path, mark, ScanConversation(fs, path, content))
<1> DEFINE rs == RowsBeforeBad(content)
           record(step) ==
             LET gen == IF step.kind # "step" \/ step.tokens = None THEN None
                        ELSE DecodeGenMetadata(step.tokens[1])
             IN  IF gen = None THEN <<>>
                 ELSE Emit(Label(path.root) \o <<path.stem, step.idx>>, gen[1].tokens, path.stem,
                           ConversationProject(content), RootModel(fs, path.root), gen[1].at, step)
           seqs == [i \in DOMAIN rs |-> record(rs[i])]
<1>1. ScanConversation(fs, path, content) = FlattenSeq(seqs)
    BY DEF ScanConversation
<1>2. Offered("antigravity", path, rs, mark)
    BY OfferedGood
<1> HIDE DEF rs
<1>3. IsSeq(rs)
    BY <1>2 DEF Offered
<1>4. ASSUME NEW i \in DOMAIN rs PROVE Owned("antigravity", path, mark, record(rs[i]))
  <2>1. \A c \in rs[i].calls : /\ c \in DOMAIN mark
                              /\ Label(path.root) \o <<path.stem, rs[i].idx>>
                                    = KeyFrom("antigravity", path, mark[c])
      BY <1>2 DEF Offered, IsMark, KeyFrom
  <2> QED
      BY <2>1, EmitOwned, NothingOwned
<1>5. \A i \in DOMAIN rs : Owned("antigravity", path, mark, seqs[i])
  <2> HIDE DEF record
  <2> QED
    BY <1>4
<1>6. seqs = [i \in DOMAIN rs |-> seqs[i]]
    OBVIOUS
<1> HIDE DEF seqs, record
<1> QED
    BY <1>1, <1>3, <1>5, <1>6, FlattenOwned

\* A message of an earlier version of OpenCode has the id it keeps.
LEMMA LegacyOwned ==
  ASSUME NEW path, NEW content, NEW mark, Offered("opencode", path, content, mark), content # <<>>,
         "calls" \in DOMAIN content[1]
  PROVE  Owned("opencode", path, mark, OpenCodeLegacyFile(path, content))
<1> DEFINE x == content[1]
           y == [x EXCEPT !.time_created = "epoch"]
<1>1. 1 \in DOMAIN content
    BY DEF Offered, IsSeq
<1>2. \A c \in x.calls : /\ c \in DOMAIN mark /\ "id" \in DOMAIN x
                         /\ Label(path.root) \o <<"opencode.db", x.id>>
                              = KeyFrom("opencode", path, mark[c])
    BY <1>1 DEF Offered, IsMark, KeyFrom
<1>3. y.calls = x.calls /\ ("id" \in DOMAIN x => y.id = x.id)
    OBVIOUS
<1> HIDE DEF y
<1>4. \A c \in y.calls : /\ c \in DOMAIN mark
                         /\ Label(path.root) \o <<"opencode.db", y.id>>
                              = KeyFrom("opencode", path, mark[c])
    BY <1>2, <1>3
<1>5. Owned("opencode", path, mark, OpenCodeRecord(path.root, y))
    BY <1>4, EmitOwned, NothingOwned DEF OpenCodeRecord
<1> QED
    BY <1>5, NothingOwned DEF OpenCodeLegacyFile, y

\* Gemini: a call is the number of records before it.
LEMMA GeminiOwned ==
  ASSUME NEW path, NEW content, NEW mark, Offered("gemini", path, content, mark)
  PROVE  Owned("gemini", path, mark, CollectUsages(path, content))
<1> DEFINE emits(k) == RecordFromUsage(path, content[k], 0) # <<>>
           before(i) == Cardinality({k \in 1 .. i - 1 : emits(k)})
           seqs == [i \in DOMAIN content |-> RecordFromUsage(path, content[i], before(i))]
<1>1. CASE IsTorn(content)
    BY <1>1, NothingOwned DEF CollectUsages
<1>2. CASE ~IsTorn(content)
  <2>1. CollectUsages(path, content) = FlattenSeq(seqs)
      BY <1>2 DEF CollectUsages
  <2>2. IsSeq(content)
      BY DEF Offered
  <2>3. ASSUME NEW i \in DOMAIN content
        PROVE  Owned("gemini", path, mark, RecordFromUsage(path, content[i], before(i)))
    <3>1. before(i) = RecordsBefore(path, content, i)
        BY DEF RecordsBefore
    <3> HIDE DEF before
    <3>2. \A c \in content[i].calls :
             c \in DOMAIN mark /\ mark[c] = Rel(path) \o <<ToString(before(i))>>
        BY <3>1 DEF Offered, IsMark
    <3> QED
        BY <3>2, EmitOwned, NothingOwned DEF KeyFrom, RecordFromUsage
  <2>4. \A i \in DOMAIN content : Owned("gemini", path, mark, seqs[i])
    <3> HIDE DEF before
    <3> QED
      BY <2>3
  <2>5. seqs = [i \in DOMAIN content |-> seqs[i]]
      OBVIOUS
  <2> HIDE DEF seqs, before
  <2> QED
      BY <2>1, <2>2, <2>4, <2>5, FlattenOwned
<1> QED
    BY <1>1, <1>2

\* Trae: a call is the time of its session.
LEMMA TraeOwned ==
  ASSUME NEW path, NEW content, NEW mark, Offered("trae", path, content, mark)
  PROVE  Owned("trae", path, mark, TraeFile(path, content))
<1> DEFINE seqs == [i \in DOMAIN content |-> TraeRecord(path, content[i])]
<1>1. CASE IsTorn(content)
    BY <1>1, NothingOwned DEF TraeFile
<1>2. CASE ~IsTorn(content)
  <2>1. TraeFile(path, content) = FlattenSeq(seqs)
      BY <1>2 DEF TraeFile
  <2>2. IsSeq(content)
      BY DEF Offered
  <2>3. ASSUME NEW i \in DOMAIN content
      PROVE  Owned("trae", path, mark, TraeRecord(path, content[i]))
      BY EmitOwned, NothingOwned DEF Offered, IsMark, KeyFrom, TraeRecord
  <2>4. \A i \in DOMAIN content : Owned("trae", path, mark, seqs[i])
      BY <2>3
  <2>5. seqs = [i \in DOMAIN content |-> seqs[i]]
      OBVIOUS
  <2> HIDE DEF seqs
  <2> QED
      BY <2>1, <2>2, <2>4, <2>5, FlattenOwned
<1> QED
    BY <1>1, <1>2

\* The CodeBuddy IDE: a call is a request of its conversation.
LEMMA DesktopOwned ==
  ASSUME NEW fs, NEW path, NEW content, NEW mark, Offered("codebuddy", path, content, mark),
         IsIndex(path)
  PROVE  Owned("codebuddy", path, mark, DesktopConversation(fs, path, content))
<1> DEFINE cwds == LoadCwdMap(fs)
           project == IF path.stem \in DOMAIN cwds THEN Last(cwds[path.stem]) ELSE path.dir
           models == LoadRequestModels(fs, path)
           seqs == [i \in DOMAIN content |-> DesktopRecord(path, project, models, content[i])]
<1>1. CASE IsTorn(content)
    BY <1>1, NothingOwned DEF DesktopConversation
<1>2. CASE ~IsTorn(content)
  <2>1. DesktopConversation(fs, path, content) = FlattenSeq(seqs)
      BY <1>2 DEF DesktopConversation
  <2>2. IsSeq(content)
      BY DEF Offered
  <2> HIDE DEF project, models
  <2>3. ASSUME NEW i \in DOMAIN content
        PROVE  Owned("codebuddy", path, mark, DesktopRecord(path, project, models, content[i]))
      BY EmitOwned, NothingOwned DEF Offered, IsMark, KeyFrom, DesktopRecord
  <2>4. \A i \in DOMAIN content : Owned("codebuddy", path, mark, seqs[i])
      BY <2>3
  <2>5. seqs = [i \in DOMAIN content |-> seqs[i]]
      OBVIOUS
  <2> HIDE DEF seqs
  <2> QED
      BY <2>1, <2>2, <2>4, <2>5, FlattenOwned
<1> QED
    BY <1>1, <1>2

\* A session of AtomCode: the entry behind the header is the first turn. A turn has its id,
\* what belongs to none has its number among those,
LEMMA RichOwned ==
  ASSUME NEW fs, NEW path, NEW header, NEW turns0, NEW content, NEW mark,
         Offered("atomcode", path, content, mark), path.ext # "json", IsSeq(turns0),
         \A i \in DOMAIN turns0 : /\ i \in Nat /\ i + 1 \in DOMAIN content
                                  /\ turns0[i] = content[i + 1] /\ IsTurn(path, turns0[i]),
         \A i \in DOMAIN turns0 : \A k \in 1 .. i : turns0[k] = content[k + 1]
  PROVE  Owned("atomcode", path, mark, ParseRich(fs, path, header, turns0))
<1> DEFINE began == LoadTurnTimestamps(fs, path)
           later == OrElse(header.updated_at, "file")
           at(turn) == IF TurnId(turn) \in DOMAIN began THEN began[TurnId(turn)] ELSE later
           calls(x) == [k \in DOMAIN x.model_usage |->
                          AtomCodeCall(Rel(path) \o <<TurnId(x), ToString(k)>>, header, path,
                                       at(x), x.model_usage[k], x)]
           record(i) ==
            LET x == turns0[i]
            IN  CASE x.kind = "turn" /\ x.model_usage # <<>> ->
                       FlattenSeq([k \in DOMAIN x.model_usage |->
                          AtomCodeCall(Rel(path) \o <<TurnId(x), ToString(k)>>, header, path,
                                       at(x), x.model_usage[k], x)])
                  [] x.kind = "turn" /\ x.model_usage = <<>> ->
                       LegacyTurn(Rel(path) \o <<TurnId(x), "legacy">>, header, path, at(x), x)
                  [] x.kind = "detached" ->
                       LET n == Cardinality({k \in 1 .. i : turns0[k].kind = "detached"})
                       IN  AtomCodeCall(Rel(path) \o <<"detached", ToString(n)>>, header, path,
                                        later, x.usage, x)
           seqs == [i \in DOMAIN turns0 |-> record(i)]
<1>1. ParseRich(fs, path, header, turns0) = FlattenSeq(seqs)
    BY DEF ParseRich
<1>2. ASSUME NEW x, NEW key, NEW a, NEW u,
             \A c \in x.calls : c \in DOMAIN mark /\ key = KeyFrom("atomcode", path, mark[c])
      PROVE  Owned("atomcode", path, mark, AtomCodeCall(key, header, path, a, u, x))
    BY <1>2, EmitOwned, NothingOwned DEF AtomCodeCall
<1>3. ASSUME NEW i \in DOMAIN turns0 PROVE Owned("atomcode", path, mark, record(i))
  <2> DEFINE x == turns0[i]
  <2>1. IsTurn(path, x) /\ i \in Nat
      OBVIOUS
  <2>5. \A c \in x.calls : /\ c \in DOMAIN mark
                           /\ Rel(path) \o AtomCodeMark(path, content, i + 1, x)
                                = KeyFrom("atomcode", path, mark[c])
      BY DEF Offered, IsMark, KeyFrom
  <2>6. DetachedUpTo(content, i + 1) = Cardinality({k \in 1 .. i : turns0[k].kind = "detached"})
    <3>1. (i + 1) - 1 = i
        BY <2>1
    <3>2. {k \in 1 .. (i + 1) - 1 : content[k + 1].kind = "detached"}
            = {k \in 1 .. i : turns0[k].kind = "detached"}
        BY <3>1
    <3> QED
        BY <3>2 DEF DetachedUpTo
  <2> HIDE DEF x
  <2>2. CASE x.kind = "turn" /\ x.model_usage # <<>>
    <3>1. record(i) = FlattenSeq(calls(x))
        BY <2>2 DEF x
    <3>2. PICK u : x.model_usage = <<u>>
        BY <2>1, <2>2 DEF IsTurn, ReadsWell
    <3>3. DOMAIN x.model_usage = {1} /\ x.model_usage[1] = u /\ IsSeq(x.model_usage)
        BY <3>2, OneIsSeq
    <3>6. AtomCodeMark(path, content, i + 1, x) = <<TurnId(x), ToString(1)>>
        BY <2>2 DEF AtomCodeMark
    <3> DEFINE of == calls(x)
    <3> HIDE DEF at
    <3>4. \A k \in DOMAIN x.model_usage : Owned("atomcode", path, mark, of[k])
        BY <1>2, <2>5, <3>3, <3>6
    <3>5. of = [k \in DOMAIN x.model_usage |-> of[k]]
        OBVIOUS
    <3> HIDE DEF of, record
    <3>7. Owned("atomcode", path, mark, FlattenSeq(of))
        BY <3>3, <3>4, <3>5, FlattenOwned
    <3> QED
        BY <3>1, <3>7 DEF of
  <2>3. CASE x.kind = "turn" /\ x.model_usage = <<>>
    <3>1. record(i) = LegacyTurn(Rel(path) \o <<TurnId(x), "legacy">>, header, path, at(x), x)
        BY <2>3 DEF x
    <3>2. AtomCodeMark(path, content, i + 1, x) = <<TurnId(x), "legacy">>
        BY <2>3 DEF AtomCodeMark
    <3>3. \A c \in x.calls : /\ c \in DOMAIN mark
                             /\ Rel(path) \o <<TurnId(x), "legacy">>
                                  = KeyFrom("atomcode", path, mark[c])
        BY <2>5, <3>2
    <3> HIDE DEF record, at
    <3> QED
        BY <3>1, <3>3, EmitOwned DEF LegacyTurn
  <2>4. CASE x.kind = "detached"
    <3> DEFINE n == Cardinality({k \in 1 .. i : turns0[k].kind = "detached"})
    <3>1. record(i) = AtomCodeCall(Rel(path) \o <<"detached", ToString(n)>>, header, path,
                                   later, x.usage, x)
        BY <2>4 DEF x
    <3>2. AtomCodeMark(path, content, i + 1, x) = <<"detached", ToString(n)>>
        BY <2>4, <2>6 DEF AtomCodeMark
    <3> HIDE DEF record, later, n
    <3> QED
        BY <1>2, <2>5, <3>1, <3>2
  <2> QED
      BY <2>1, <2>2, <2>3, <2>4 DEF IsTurn
<1>4. \A i \in DOMAIN turns0 : Owned("atomcode", path, mark, seqs[i])
  <2> HIDE DEF record
  <2> QED
    BY <1>3
<1>5. seqs = [i \in DOMAIN turns0 |-> seqs[i]]
  <2> HIDE DEF record
  <2> QED
    OBVIOUS
<1> HIDE DEF seqs, record
<1> QED
    BY <1>1, <1>4, <1>5, FlattenOwned

\* and a turn with a total only its number.
LEMMA TotalsOwned ==
  ASSUME NEW path, NEW header, NEW turns0, NEW content, NEW mark,
         Offered("atomcode", path, content, mark), path.ext = "json", IsSeq(turns0),
         \A i \in DOMAIN turns0 : /\ i \in Nat /\ i + 1 \in DOMAIN content
                                  /\ turns0[i] = content[i + 1]
  PROVE  Owned("atomcode", path, mark, ParseJsonNew(path, header, turns0))
<1> DEFINE record(i) ==
             Emit(Rel(path) \o <<ToString(i)>>, Tokens(OrElse(turns0[i].total_tokens, 0), 0, 0, 0),
                  OrElse(header.id, path.stem), Basename(header.working_dir),
                  OrElse(header.prompt, DefaultAtomModel), OrElse(header.updated_at, "file"),
                  turns0[i])
           seqs == [i \in DOMAIN turns0 |-> record(i)]
<1>1. ParseJsonNew(path, header, turns0) = FlattenSeq(seqs)
    BY DEF ParseJsonNew
<1>2. ASSUME NEW i \in DOMAIN turns0 PROVE Owned("atomcode", path, mark, record(i))
  <2>1. (i + 1) - 1 = i
      OBVIOUS
  <2>2. \A x : AtomCodeMark(path, content, i + 1, x) = <<ToString(i)>>
      BY <2>1 DEF AtomCodeMark
  <2>3. \A c \in turns0[i].calls : /\ c \in DOMAIN mark
                                   /\ Rel(path) \o <<ToString(i)>>
                                        = KeyFrom("atomcode", path, mark[c])
      BY <2>2 DEF Offered, IsMark, KeyFrom
  <2> QED
      BY <2>3, EmitOwned
<1>3. \A i \in DOMAIN turns0 : Owned("atomcode", path, mark, seqs[i])
  <2> HIDE DEF record
  <2> QED
    BY <1>2
<1>4. seqs = [i \in DOMAIN turns0 |-> seqs[i]]
    OBVIOUS
<1> HIDE DEF seqs, record
<1> QED
    BY <1>1, <1>3, <1>4, FlattenOwned

\* Which of the two a session is read for is settled by its file.
LEMMA SessionOwned ==
  ASSUME NEW fs, NEW path, NEW content, NEW mark, Offered("atomcode", path, content, mark),
         IsTorn(content) \/ WholeContent("atomcode", path, content)
  PROVE  Owned("atomcode", path, mark, ParseSession(fs, path, content))
<1>1. CASE IsTorn(content)
    BY <1>1, NothingOwned DEF ParseSession
<1>2. CASE ~IsTorn(content)
  <2> DEFINE header == Head(content)
             turns0 == Tail(content)
             rich == \E i \in DOMAIN turns0 : /\ turns0[i].kind = "turn"
                                              /\ turns0[i].model_usage # <<>>
             totals == /\ turns0 # <<>> /\ turns0[1].kind = "turn"
                       /\ turns0[1].total_tokens # None
             useTotals == path.ext # "index" /\ ~rich /\ (path.ext = "json" \/ totals)
  <2>1. WholeContent("atomcode", path, content) /\ IsSeq(content) /\ content # <<>>
      BY <1>2 DEF WholeContent, OpenContent
  <2>2. ParseSession(fs, path, content) =
          IF useTotals THEN ParseJsonNew(path, header, turns0)
          ELSE ParseRich(fs, path, header, turns0)
      BY <1>2 DEF ParseSession
  <2>3. /\ turns0 \in Seq(ToSet(content)) /\ Len(turns0) = Len(content) - 1
        /\ \A i \in 1 .. Len(turns0) : turns0[i] = content[i + 1]
      BY <2>1, HeadTailProperties DEF IsSeq
  <2>4. Len(content) \in Nat /\ DOMAIN content = 1 .. Len(content)
      BY <2>1, SeqShape
  <2>5. /\ Len(turns0) \in Nat /\ DOMAIN turns0 = 1 .. Len(turns0)
        /\ turns0 = [i \in 1 .. Len(turns0) |-> turns0[i]]
      BY <2>3, LenProperties
  <2> HIDE DEF turns0, header
  <2>6. IsSeq(turns0)
      BY <2>5, SeqIntro
  <2>7. ASSUME NEW i \in DOMAIN turns0 PROVE IsTurn(path, turns0[i])
    <3>1. i + 1 \in DOMAIN content /\ i + 1 # 1 /\ turns0[i] = content[i + 1]
        BY <2>3, <2>4, <2>5
    <3> DEFINE j == i + 1
    <3> HIDE DEF j
    <3>2. j \in DOMAIN content /\ j # 1
        BY <3>1 DEF j
    <3>3. IsTurn(path, content[j])
        BY <2>1, <3>2 DEF WholeContent, OpenContent, GoodEntry, Fits, Settled, IsTurn, IsStored
    <3> QED
        BY <3>1, <3>3 DEF j
  <2>a. \A i \in DOMAIN turns0 : /\ i \in Nat /\ i + 1 \in DOMAIN content
                                 /\ turns0[i] = content[i + 1] /\ IsTurn(path, turns0[i])
      BY <2>3, <2>4, <2>5, <2>7
  <2>b. \A i \in DOMAIN turns0 : \A k \in 1 .. i : turns0[k] = content[k + 1]
      BY <2>3, <2>5
  <2>8. CASE useTotals
    <3>1. path.ext = "json"
      <4> SUFFICES ASSUME path.ext # "json" PROVE FALSE
          OBVIOUS
      <4>1. ~rich /\ turns0 # <<>> /\ turns0[1].kind = "turn" /\ turns0[1].total_tokens # None
          BY <2>8
      <4>2. 1 \in DOMAIN turns0
          BY <2>5, <4>1
      <4>3. turns0[1].model_usage = <<>>
          BY <4>1, <4>2
      <4> QED
          BY <2>7, <4>1, <4>2, <4>3 DEF IsTurn, ReadsWell
    <3> QED
        BY <2>2, <2>6, <2>8, <2>a, <3>1, TotalsOwned
  <2>9. CASE ~useTotals
    <3>1. path.ext # "json"
      <4> SUFFICES ASSUME path.ext = "json" PROVE FALSE
          OBVIOUS
      <4>1. PICK i \in DOMAIN turns0 : turns0[i].kind = "turn" /\ turns0[i].model_usage # <<>>
          BY <2>9
      <4> QED
          BY <2>7, <4>1 DEF IsTurn, ReadsWell
    <3> QED
        BY <2>2, <2>6, <2>9, <2>a, <2>b, <3>1, RichOwned
  <2> QED
      BY <2>8, <2>9
<1> QED
    BY <1>1, <1>2

-----------------------------------------------------------------------------
(* Scanning: the calls of the files have their marks, so the records have the keys. *)

\* What an adapter finds in a marked file. A call in flight is not in its row yet.
LEMMA FileOffers ==
  ASSUME NEW t, NEW path, NEW content, NEW mark, GoodContent(t, path, content),
         Keyed(t, path, content, mark)
  PROVE  Offered(t, path, content, mark)
<1>1. IsSeq(content)
    BY TornShows DEF GoodContent, WholeContent, OpenContent
<1>2. ASSUME NEW x, GoodEntry(t, path, x)
      PROVE  x.calls = {} \/ Eventual(x) = x
    BY <1>2 DEF GoodEntry, Settled, Pending, Eventual
<1>3. \A i \in DOMAIN content : content[i].calls = {} \/ Eventual(content[i]) = content[i]
  <2>1. CASE WholeContent(t, path, content)
      BY <1>2, <2>1 DEF WholeContent, OpenContent
  <2>2. CASE TornContent(t, path, content) /\ ~IsDocument(t, path)
      BY <1>2, <2>2, TornShows
  <2>3. CASE TornContent(t, path, content) /\ IsDocument(t, path)
    <3> DEFINE x == Torn(Last(content).whole)
    <3>1. content = <<x>>
        BY <2>3 DEF TornContent, Halved
    <3>2. x.calls = {}
        BY DEF Torn, Noise, ++
    <3> HIDE DEF x
    <3> QED
        BY <3>1, <3>2, OneIsSeq
  <2> QED
      BY <2>1, <2>2, <2>3 DEF GoodContent
<1> QED
    BY <1>1, <1>3 DEF Keyed, Offered

\* What a connection to a store reads.
LEMMA StoresOffer ==
  ASSUME NEW t, IsStored(t), NEW fs, FilesOK(t, fs), NEW over, NEW mark, FilesKeyed(t, fs, mark)
  PROVE  /\ DOMAIN Stores(fs, over) \subseteq DOMAIN fs
         /\ \A p \in DOMAIN Stores(fs, over) : Offered(t, p, Stores(fs, over)[p], mark)
<1> DEFINE S == {q \in DOMAIN fs : q.root \in over /\ IsDb(q)}
<1>1. /\ DOMAIN Stores(fs, over) = S
      /\ \A p \in S : Stores(fs, over)[p] = IF Wal(p) \in DOMAIN fs THEN fs[Wal(p)] ELSE fs[p]
    BY DEF Stores, Seen
<1>2. ASSUME NEW p \in S PROVE Offered(t, p, Stores(fs, over)[p], mark)
  <2> DEFINE wal == Wal(p)
  <2>1. IsPath(p) /\ FileOK(t, p, fs[p])
      BY DEF FilesOK, FileOK, Placed
  <2>2. IsStoreFile(p) /\ IsStoreFile(wal) /\ wal.root = p.root
      BY <2>1, WalIs
  <2>a. wal.stem = p.stem
      BY <2>1 DEF IsPath, Path, Wal
  <2>3. \A q : IsStoreFile(q) => IsParsed(t, q)
      BY DEF IsParsed, IsStored, IsStoreFile
  <2>b. Stores(fs, over)[p] = IF wal \in DOMAIN fs THEN fs[wal] ELSE fs[p]
      BY <1>1
  <2> HIDE DEF wal
  <2>4. Offered(t, p, fs[p], mark)
      BY <2>1, <2>2, <2>3, FileOffers DEF FileOK, FilesKeyed, FileKeyed
  <2>5. ASSUME wal \in DOMAIN fs PROVE Offered(t, p, fs[wal], mark)
    <3>1. GoodContent(t, wal, fs[wal]) /\ Keyed(t, wal, fs[wal], mark)
        BY <2>2, <2>3, <2>5 DEF FilesOK, FileOK, FilesKeyed, FileKeyed
    <3>2. Offered(t, wal, fs[wal], mark)
        BY <3>1, FileOffers
    <3> QED
        BY <2>2, <2>a, <3>2, MarkMoves DEF Offered
  <2> QED
      BY <2>4, <2>5, <2>b
<1> QED
    BY <1>1, <1>2

\* The records of a scan.
KeyedRecords(t, mark, records) ==
    /\ IsSeq(records) /\ \A r \in ToSet(records) : RowKeyed(t, r, mark)

\* A record is of the file it was read from.
LEMMA ScanKeyed ==
  ASSUME NEW t, NEW mark, NEW parsed, IsFiniteSet(DOMAIN parsed),
         \A p \in DOMAIN parsed : Owned(t, p, mark, parsed[p])
  PROVE  KeyedRecords(t, mark, FullScan(parsed).records)
<1> DEFINE records == FullScan(parsed).records
<1>1. /\ IsSeq(records)
      /\ ToSet(records) = UNION {{q ++ [file |-> p] : q \in ToSet(parsed[p])} : p \in DOMAIN parsed}
    BY ScanReads DEF Owned
<1> HIDE DEF records
<1>2. ASSUME NEW p \in DOMAIN parsed, NEW q \in ToSet(parsed[p])
      PROVE  RowKeyed(t, q ++ [file |-> p], mark)
  <2>1. /\ DOMAIN q = RecordFields
        /\ \A c \in q.calls : c \in DOMAIN mark /\ q.key = KeyFrom(t, p, mark[c])
      BY DEF Owned
  <2>2. (q ++ [file |-> p]).calls = q.calls /\ (q ++ [file |-> p]).key = q.key
        /\ (q ++ [file |-> p]).file = p
      BY <2>1 DEF ++, RecordFields
  <2> QED
      BY <2>1, <2>2 DEF RowKeyed
<1>3. \A r \in ToSet(records) : RowKeyed(t, r, mark)
    BY <1>1, <1>2
<1> QED
    BY <1>1, <1>3 DEF KeyedRecords, records

\* The records of two scans, one after the other.
LEMMA MoreKeyed ==
  ASSUME NEW t, NEW mark, NEW a, NEW b, KeyedRecords(t, mark, a), KeyedRecords(t, mark, b)
  PROVE  KeyedRecords(t, mark, a \o b)
BY ConcatIsSeq DEF KeyedRecords

\* A scan of everything.
LEMMA WholeKeyedScan ==
  ASSUME NEW t, NEW mark, NEW fs, FilesOK(t, fs), NEW parsed, DOMAIN parsed \subseteq DOMAIN fs,
         \A p \in DOMAIN parsed : Owned(t, p, mark, parsed[p])
  PROVE  KeyedRecords(t, mark, FullScan(parsed).records)
BY ScanKeyed, FS_Subset DEF FilesOK

\* A scan of what changed.
LEMMA PartKeyedScan ==
  ASSUME NEW t, NEW mark, NEW fs, FilesOK(t, fs), NEW seen, DOMAIN seen \subseteq DOMAIN fs,
         NEW was, NEW parsed, DOMAIN parsed = Changed(seen, was),
         \A p \in DOMAIN parsed : Owned(t, p, mark, parsed[p])
  PROVE  KeyedRecords(t, mark, IncrementalScan(seen, parsed).records)
<1>1. DOMAIN parsed \subseteq DOMAIN fs
    BY DEF Changed
<1>2. KeyedRecords(t, mark, FullScan(parsed).records)
    BY <1>1, WholeKeyedScan
<1>3. IncrementalScan(seen, parsed).records = FullScan(parsed).records
    BY DEF IncrementalScan, FullScan
<1> QED
    BY <1>2, <1>3

\* The files of an adapter are offered to it.
LEMMA SeenOffer ==
  ASSUME NEW t, NEW mark, NEW fs, FilesOK(t, fs), FilesKeyed(t, fs, mark), NEW S,
         S \subseteq DOMAIN fs, \A p \in S : IsParsed(t, p)
  PROVE  \A p \in S : Offered(t, p, fs[p], mark)
BY FileOffers DEF FilesOK, FileOK, FilesKeyed, FileKeyed

-----------------------------------------------------------------------------
\* A scan for Claude.
LEMMA ClaudeScanKeyed ==
  ASSUME NEW fs, FilesOK("claude", fs), NEW mark, FilesKeyed("claude", fs, mark),
         NEW over, NEW was
  PROVE  KeyedRecords("claude", mark, ClaudeScan(fs, over, was).records)
<1> DEFINE S == {q \in DOMAIN fs : q.root \in over /\ IsJsonl(q)}
           seen == ClaudeSeen(fs, over)
           parsed == [p \in Changed(seen, was) |-> ClaudeFile(p, seen[p])]
<1>1. DOMAIN seen = S /\ S \subseteq DOMAIN fs /\ \A p \in S : seen[p] = fs[p]
    BY DEF ClaudeSeen, Seen
<1>2. \A p \in S : IsParsed("claude", p)
    BY DEF IsParsed
<1>3. ClaudeScan(fs, over, was) = IncrementalScan(seen, parsed)
    BY DEF ClaudeScan
<1> HIDE DEF S, seen
<1>4. \A p \in S : Offered("claude", p, seen[p], mark)
    BY <1>1, <1>2, SeenOffer
<1>5. DOMAIN parsed = Changed(seen, was) /\ Changed(seen, was) \subseteq S
      /\ \A p \in DOMAIN parsed : parsed[p] = ClaudeFile(p, seen[p])
    BY <1>1 DEF Changed
<1> HIDE DEF parsed
<1>6. \A p \in DOMAIN parsed : Owned("claude", p, mark, parsed[p])
    BY <1>4, <1>5, ClaudeOwned
<1> QED
    BY <1>1, <1>3, <1>5, <1>6, PartKeyedScan

\* A scan for Codex.
LEMMA CodexScanKeyed ==
  ASSUME NEW fs, FilesOK("codex", fs), NEW mark, FilesKeyed("codex", fs, mark),
         NEW over, NEW was
  PROVE  KeyedRecords("codex", mark, CodexScan(fs, over, was).records)
<1> DEFINE S == {q \in DOMAIN fs : q.root \in over /\ IsJsonl(q)}
           seen == CodexSeen(fs, over)
           parsed == [p \in Changed(seen, was) |-> CodexFile(p, seen[p])]
<1>1. DOMAIN seen = S /\ S \subseteq DOMAIN fs /\ \A p \in S : seen[p] = fs[p]
    BY DEF CodexSeen, Seen
<1>2. \A p \in S : IsParsed("codex", p)
    BY DEF IsParsed
<1>3. CodexScan(fs, over, was) = IncrementalScan(seen, parsed)
    BY DEF CodexScan
<1> HIDE DEF S, seen
<1>4. \A p \in S : Offered("codex", p, seen[p], mark)
    BY <1>1, <1>2, SeenOffer
<1>5. DOMAIN parsed = Changed(seen, was) /\ Changed(seen, was) \subseteq S
      /\ \A p \in DOMAIN parsed : parsed[p] = CodexFile(p, seen[p])
    BY <1>1 DEF Changed
<1> HIDE DEF parsed
<1>6. \A p \in DOMAIN parsed : Owned("codex", p, mark, parsed[p])
    BY <1>4, <1>5, CodexOwned
<1> QED
    BY <1>1, <1>3, <1>5, <1>6, PartKeyedScan

\* A scan for Pi.
LEMMA PiScanKeyed ==
  ASSUME NEW fs, FilesOK("pi", fs), NEW mark, FilesKeyed("pi", fs, mark),
         NEW over, NEW was
  PROVE  KeyedRecords("pi", mark, PiScan(fs, over, was).records)
<1> DEFINE S == {q \in DOMAIN fs : q.root \in over /\ IsJsonl(q)}
           seen == PiSeen(fs, over)
           parsed == [p \in Changed(seen, was) |-> PiFile(p, seen[p])]
<1>1. DOMAIN seen = S /\ S \subseteq DOMAIN fs /\ \A p \in S : seen[p] = fs[p]
    BY DEF PiSeen, Seen
<1>2. \A p \in S : IsParsed("pi", p)
    BY DEF IsParsed
<1>3. PiScan(fs, over, was) = IncrementalScan(seen, parsed)
    BY DEF PiScan
<1> HIDE DEF S, seen
<1>4. \A p \in S : Offered("pi", p, seen[p], mark)
    BY <1>1, <1>2, SeenOffer
<1>5. DOMAIN parsed = Changed(seen, was) /\ Changed(seen, was) \subseteq S
      /\ \A p \in DOMAIN parsed : parsed[p] = PiFile(p, seen[p])
    BY <1>1 DEF Changed
<1> HIDE DEF parsed
<1>6. \A p \in DOMAIN parsed : Owned("pi", p, mark, parsed[p])
    BY <1>4, <1>5, PiOwned
<1> QED
    BY <1>1, <1>3, <1>5, <1>6, PartKeyedScan

\* A scan for OpenClaw.
LEMMA OpenClawScanKeyed ==
  ASSUME NEW fs, FilesOK("openclaw", fs), NEW mark, FilesKeyed("openclaw", fs, mark),
         NEW over, NEW was
  PROVE  KeyedRecords("openclaw", mark, OpenClawScan(fs, over, was).records)
<1> DEFINE S == {q \in DOMAIN fs : q.root \in over /\ IsJsonl(q) /\ q.dir = "sessions"}
           parsed == [p \in S |-> OpenClawFile(p, fs[p])]
<1>1. OpenClawScan(fs, over, was) = FullScan(parsed)
    BY DEF OpenClawScan, OpenClawSeen, Seen
<1>2. \A p \in S : IsParsed("openclaw", p)
    BY DEF IsParsed
<1>3. S \subseteq DOMAIN fs
    OBVIOUS
<1> HIDE DEF S
<1>4. \A p \in S : Offered("openclaw", p, fs[p], mark)
    BY <1>2, <1>3, SeenOffer
<1>5. DOMAIN parsed = S /\ \A p \in S : parsed[p] = OpenClawFile(p, fs[p])
    OBVIOUS
<1> HIDE DEF parsed
<1>6. \A p \in DOMAIN parsed : Owned("openclaw", p, mark, parsed[p])
    BY <1>4, <1>5, OpenClawOwned
<1> QED
    BY <1>1, <1>3, <1>5, <1>6, WholeKeyedScan

\* A scan for DeepSeek.
LEMMA DeepSeekScanKeyed ==
  ASSUME NEW fs, FilesOK("deepseek", fs), NEW mark, FilesKeyed("deepseek", fs, mark),
         NEW over, NEW was
  PROVE  KeyedRecords("deepseek", mark, DeepSeekScan(fs, over, was).records)
<1> DEFINE S == {q \in DOMAIN fs : q.root \in over /\ IsHarnessFile(q)}
           parsed == [p \in S |-> DeepSeekFile(p, fs[p])]
<1>1. DeepSeekScan(fs, over, was) = FullScan(parsed)
    BY DEF DeepSeekScan, DeepSeekSeen, Seen
<1>2. \A p \in S : IsParsed("deepseek", p)
    BY DEF IsParsed
<1>3. S \subseteq DOMAIN fs
    OBVIOUS
<1> HIDE DEF S
<1>4. \A p \in S : Offered("deepseek", p, fs[p], mark)
    BY <1>2, <1>3, SeenOffer
<1>5. DOMAIN parsed = S /\ \A p \in S : parsed[p] = DeepSeekFile(p, fs[p])
    OBVIOUS
<1> HIDE DEF parsed
<1>6. \A p \in DOMAIN parsed : Owned("deepseek", p, mark, parsed[p])
    BY <1>4, <1>5, DeepSeekOwned
<1> QED
    BY <1>1, <1>3, <1>5, <1>6, WholeKeyedScan

\* A scan for Gemini.
LEMMA GeminiScanKeyed ==
  ASSUME NEW fs, FilesOK("gemini", fs), NEW mark, FilesKeyed("gemini", fs, mark),
         NEW over, NEW was
  PROVE  KeyedRecords("gemini", mark, GeminiScan(fs, over, was).records)
<1> DEFINE S == {q \in DOMAIN fs : q.root \in over /\ q.ext = "json"}
           parsed == [p \in S |-> CollectUsages(p, fs[p])]
<1>1. GeminiScan(fs, over, was) = FullScan(parsed)
    BY DEF GeminiScan, GeminiSeen, Seen
<1>2. \A p \in S : IsParsed("gemini", p)
    BY DEF IsParsed
<1>3. S \subseteq DOMAIN fs
    OBVIOUS
<1> HIDE DEF S
<1>4. \A p \in S : Offered("gemini", p, fs[p], mark)
    BY <1>2, <1>3, SeenOffer
<1>5. DOMAIN parsed = S /\ \A p \in S : parsed[p] = CollectUsages(p, fs[p])
    OBVIOUS
<1> HIDE DEF parsed
<1>6. \A p \in DOMAIN parsed : Owned("gemini", p, mark, parsed[p])
    BY <1>4, <1>5, GeminiOwned
<1> QED
    BY <1>1, <1>3, <1>5, <1>6, WholeKeyedScan

\* A scan for Trae.
LEMMA TraeScanKeyed ==
  ASSUME NEW fs, FilesOK("trae", fs), NEW mark, FilesKeyed("trae", fs, mark),
         NEW over, NEW was
  PROVE  KeyedRecords("trae", mark, TraeScan(fs, over, was).records)
<1> DEFINE S == {q \in DOMAIN fs : q.root \in over /\ q.ext = "json"}
           parsed == [p \in S |-> TraeFile(p, fs[p])]
<1>1. TraeScan(fs, over, was) = FullScan(parsed)
    BY DEF TraeScan, TraeSeen, Seen
<1>2. \A p \in S : IsParsed("trae", p)
    BY DEF IsParsed
<1>3. S \subseteq DOMAIN fs
    OBVIOUS
<1> HIDE DEF S
<1>4. \A p \in S : Offered("trae", p, fs[p], mark)
    BY <1>2, <1>3, SeenOffer
<1>5. DOMAIN parsed = S /\ \A p \in S : parsed[p] = TraeFile(p, fs[p])
    OBVIOUS
<1> HIDE DEF parsed
<1>6. \A p \in DOMAIN parsed : Owned("trae", p, mark, parsed[p])
    BY <1>4, <1>5, TraeOwned
<1> QED
    BY <1>1, <1>3, <1>5, <1>6, WholeKeyedScan

\* A scan for AtomCode.
LEMMA AtomCodeScanKeyed ==
  ASSUME NEW fs, FilesOK("atomcode", fs), NEW mark, FilesKeyed("atomcode", fs, mark),
         NEW over, NEW was
  PROVE  KeyedRecords("atomcode", mark, AtomCodeScan(fs, over, was).records)
<1> DEFINE S == DOMAIN MetaFiles(fs, over)
           parsed == [p \in S |-> ParseSession(fs, p, fs[p])]
<1>1. AtomCodeScan(fs, over, was) = FullScan(parsed)
    BY DEF AtomCodeScan
<1>2. \A p \in S : IsParsed("atomcode", p) /\ IsDocument("atomcode", p)
    BY DEF MetaFiles, IsParsed, IsDocument
<1>3. S \subseteq DOMAIN fs
    BY DEF MetaFiles
<1> HIDE DEF S
<1>4. \A p \in S : /\ Offered("atomcode", p, fs[p], mark)
                   /\ IsTorn(fs[p]) \/ WholeContent("atomcode", p, fs[p])
    BY <1>2, <1>3, SeenOffer, FileReads DEF FilesOK, FileOK
<1>5. DOMAIN parsed = S /\ \A p \in S : parsed[p] = ParseSession(fs, p, fs[p])
    OBVIOUS
<1> HIDE DEF parsed
<1>6. \A p \in DOMAIN parsed : Owned("atomcode", p, mark, parsed[p])
    BY <1>4, <1>5, SessionOwned
<1> QED
    BY <1>1, <1>3, <1>5, <1>6, WholeKeyedScan

\* A scan for Qoder.
LEMMA QoderScanKeyed ==
  ASSUME NEW fs, FilesOK("qoder", fs), NEW mark, FilesKeyed("qoder", fs, mark),
         NEW over, NEW was
  PROVE  KeyedRecords("qoder", mark, QoderScan(fs, over, was).records)
<1> DEFINE stores == Stores(fs, over)
           parsed == [p \in DOMAIN stores |-> QoderStore(p, stores[p])]
<1>1. QoderScan(fs, over, was) = FullScan(parsed)
    BY DEF QoderScan
<1>2. /\ DOMAIN stores \subseteq DOMAIN fs
      /\ \A p \in DOMAIN stores : Offered("qoder", p, stores[p], mark)
    BY StoresOffer DEF IsStored
<1> HIDE DEF stores
<1>3. /\ DOMAIN parsed = DOMAIN stores
      /\ \A p \in DOMAIN stores : parsed[p] = QoderStore(p, stores[p])
    OBVIOUS
<1> HIDE DEF parsed
<1>4. \A p \in DOMAIN parsed : Owned("qoder", p, mark, parsed[p])
    BY <1>2, <1>3, QoderOwned
<1> QED
    BY <1>1, <1>2, <1>3, <1>4, WholeKeyedScan

\* A scan for CodeArts.
LEMMA CodeArtsScanKeyed ==
  ASSUME NEW fs, FilesOK("codearts", fs), NEW mark, FilesKeyed("codearts", fs, mark),
         NEW over, NEW was
  PROVE  KeyedRecords("codearts", mark, CodeArtsScan(fs, over, was).records)
<1> DEFINE stores == Stores(fs, over)
           parsed == [p \in DOMAIN stores |-> CodeArtsStore(p, stores[p])]
<1>1. CodeArtsScan(fs, over, was) = FullScan(parsed)
    BY DEF CodeArtsScan
<1>2. /\ DOMAIN stores \subseteq DOMAIN fs
      /\ \A p \in DOMAIN stores : Offered("codearts", p, stores[p], mark)
    BY StoresOffer DEF IsStored
<1> HIDE DEF stores
<1>3. /\ DOMAIN parsed = DOMAIN stores
      /\ \A p \in DOMAIN stores : parsed[p] = CodeArtsStore(p, stores[p])
    OBVIOUS
<1> HIDE DEF parsed
<1>4. \A p \in DOMAIN parsed : Owned("codearts", p, mark, parsed[p])
    BY <1>2, <1>3, CodeArtsOwned
<1> QED
    BY <1>1, <1>2, <1>3, <1>4, WholeKeyedScan

\* A scan for TeleAgent.
LEMMA TeleAgentScanKeyed ==
  ASSUME NEW fs, FilesOK("teleagent", fs), NEW mark, FilesKeyed("teleagent", fs, mark),
         NEW over, NEW was
  PROVE  KeyedRecords("teleagent", mark, TeleAgentScan(fs, over, was).records)
<1> DEFINE stores == Stores(fs, over)
           parsed == [p \in DOMAIN stores |-> TeleAgentStore(p, stores[p])]
<1>1. TeleAgentScan(fs, over, was) = FullScan(parsed)
    BY DEF TeleAgentScan
<1>2. /\ DOMAIN stores \subseteq DOMAIN fs
      /\ \A p \in DOMAIN stores : Offered("teleagent", p, stores[p], mark)
    BY StoresOffer DEF IsStored
<1> HIDE DEF stores
<1>3. /\ DOMAIN parsed = DOMAIN stores
      /\ \A p \in DOMAIN stores : parsed[p] = TeleAgentStore(p, stores[p])
    OBVIOUS
<1> HIDE DEF parsed
<1>4. \A p \in DOMAIN parsed : Owned("teleagent", p, mark, parsed[p])
    BY <1>2, <1>3, TeleAgentOwned
<1> QED
    BY <1>1, <1>2, <1>3, <1>4, WholeKeyedScan

\* A scan for Antigravity.
LEMMA AntigravityScanKeyed ==
  ASSUME NEW fs, FilesOK("antigravity", fs), NEW mark, FilesKeyed("antigravity", fs, mark),
         NEW over, NEW was
  PROVE  KeyedRecords("antigravity", mark, AntigravityScan(fs, over, was).records)
<1> DEFINE stores == Stores(fs, over)
           parsed == [p \in DOMAIN stores |-> ScanConversation(fs, p, stores[p])]
<1>1. AntigravityScan(fs, over, was) = FullScan(parsed)
    BY DEF AntigravityScan
<1>2. /\ DOMAIN stores \subseteq DOMAIN fs
      /\ \A p \in DOMAIN stores : Offered("antigravity", p, stores[p], mark)
    BY StoresOffer DEF IsStored
<1> HIDE DEF stores
<1>3. /\ DOMAIN parsed = DOMAIN stores
      /\ \A p \in DOMAIN stores : parsed[p] = ScanConversation(fs, p, stores[p])
    OBVIOUS
<1> HIDE DEF parsed
<1>4. \A p \in DOMAIN parsed : Owned("antigravity", p, mark, parsed[p])
    BY <1>2, <1>3, ConversationOwned
<1> QED
    BY <1>1, <1>2, <1>3, <1>4, WholeKeyedScan

\* OpenCode: the stores and the messages of earlier versions.
LEMMA OpenCodeScanKeyed ==
  ASSUME NEW fs, FilesOK("opencode", fs), NEW mark, FilesKeyed("opencode", fs, mark),
         NEW over, NEW was
  PROVE  KeyedRecords("opencode", mark, OpenCodeScan(fs, over, was).records)
<1> DEFINE stores == Stores(fs, over)
           S == {q \in DOMAIN fs : q.root \in over /\ IsLegacyMessage(q)}
           parsed == [p \in DOMAIN stores |-> OpenCodeStore(p, stores[p])]
           earlier == [p \in S |-> OpenCodeLegacyFile(p, fs[p])]
           new == FullScan(parsed)
           legacy == FullScan(earlier)
<1>1. OpenCodeScan(fs, over, was) = [new EXCEPT !.records = @ \o legacy.records]
    BY DEF OpenCodeScan, Seen
<1>2. /\ DOMAIN stores \subseteq DOMAIN fs
      /\ \A p \in DOMAIN stores : Offered("opencode", p, stores[p], mark)
    BY StoresOffer DEF IsStored
<1> HIDE DEF stores
<1>3. /\ DOMAIN parsed = DOMAIN stores
      /\ \A p \in DOMAIN stores : parsed[p] = OpenCodeStore(p, stores[p])
    OBVIOUS
<1> HIDE DEF parsed
<1>4. \A p \in DOMAIN parsed : Owned("opencode", p, mark, parsed[p])
    BY <1>2, <1>3, OpenCodeOwned
<1>5. KeyedRecords("opencode", mark, new.records)
    BY <1>2, <1>3, <1>4, WholeKeyedScan
<1>6. \A p \in S : /\ IsParsed("opencode", p) /\ ~IsDocument("opencode", p)
                   /\ p.ext # "jsonl.zstd" /\ ~MayBeEmpty("opencode", p)
    BY DEF IsParsed, IsDocument, IsIndex, IsLegacyMessage, MayBeEmpty, IsStoreFile, IsJsonl
<1>7. S \subseteq DOMAIN fs /\ \A p \in S : IsLegacyMessage(p)
    OBVIOUS
<1> HIDE DEF S
<1>8. ASSUME NEW p \in S PROVE Owned("opencode", p, mark, OpenCodeLegacyFile(p, fs[p]))
  <2>1. WholeContent("opencode", p, fs[p])
      BY <1>6, <1>7 DEF FilesOK, FileOK, GoodContent, TornContent
  <2>2. Offered("opencode", p, fs[p], mark)
      BY <1>6, <1>7, SeenOffer
  <2>3. fs[p] # <<>>
      BY <1>6, <2>1 DEF WholeContent
  <2>4. 1 \in DOMAIN fs[p]
      BY <2>2, <2>3, SeqShape DEF Offered, IsSeq
  <2>5. Fits("opencode", p, fs[p][1])
      BY <2>1, <2>4 DEF WholeContent, OpenContent
  <2> QED
      BY <1>7, <2>2, <2>3, <2>5, LegacyOwned DEF Fits
<1>9. DOMAIN earlier = S /\ \A p \in S : earlier[p] = OpenCodeLegacyFile(p, fs[p])
    OBVIOUS
<1> HIDE DEF earlier
<1>10. KeyedRecords("opencode", mark, legacy.records)
    BY <1>7, <1>8, <1>9, WholeKeyedScan
<1> HIDE DEF legacy
<1>11. DOMAIN new = {"records", "known"}
    BY DEF FullScan
<1> HIDE DEF new
<1> DEFINE both == [new EXCEPT !.records = @ \o legacy.records]
<1>12. both.records = new.records \o legacy.records
    BY <1>11
<1> HIDE DEF both
<1> QED
    BY <1>1, <1>5, <1>10, <1>12, MoreKeyed DEF both

\* CodeBuddy: its two halves.
LEMMA CodebuddyScanKeyed ==
  ASSUME NEW fs, FilesOK("codebuddy", fs), NEW mark, FilesKeyed("codebuddy", fs, mark),
         NEW over, NEW was
  PROVE  KeyedRecords("codebuddy", mark, CodebuddyScan(fs, over, was).records)
<1> DEFINE S == {q \in DOMAIN fs : q.root \in over /\ IsJsonl(q)}
           D == {q \in DOMAIN fs : q.root \in ExistingDataDirs /\ IsIndex(q)}
           seen == CodebuddySeen(fs, over)
           parsed == [p \in Changed(seen, was) |-> CodebuddyFile(p, seen[p])]
           desktop == [p \in D |-> DesktopConversation(fs, p, fs[p])]
           cli == IncrementalScan(seen, parsed)
           ide == FullScan(desktop)
<1>1. DOMAIN seen = S /\ S \subseteq DOMAIN fs /\ \A p \in S : seen[p] = fs[p]
    BY DEF CodebuddySeen, Seen
<1>2. \A p \in S : IsParsed("codebuddy", p) /\ ~IsIndex(p)
    BY DEF IsParsed, IsIndex, IsJsonl
<1>3. CodebuddyScan(fs, over, was) = [cli EXCEPT !.records = @ \o ide.records]
    BY DEF CodebuddyScan, DesktopScan, DesktopSeen, Seen
<1>4. \A p \in D : IsParsed("codebuddy", p) /\ IsIndex(p)
    BY DEF IsParsed
<1>5. D \subseteq DOMAIN fs
    OBVIOUS
<1> HIDE DEF S, D, seen
<1>6. \A p \in S : Offered("codebuddy", p, seen[p], mark)
    BY <1>1, <1>2, SeenOffer
<1>7. DOMAIN parsed = Changed(seen, was) /\ Changed(seen, was) \subseteq S
      /\ \A p \in DOMAIN parsed : parsed[p] = CodebuddyFile(p, seen[p])
    BY <1>1 DEF Changed
<1> HIDE DEF parsed
<1>8. \A p \in DOMAIN parsed : Owned("codebuddy", p, mark, parsed[p])
    BY <1>2, <1>6, <1>7, CodebuddyOwned
<1>9. KeyedRecords("codebuddy", mark, cli.records)
    BY <1>1, <1>7, <1>8, PartKeyedScan
<1>10. \A p \in D : Offered("codebuddy", p, fs[p], mark)
    BY <1>4, <1>5, SeenOffer
<1>11. DOMAIN desktop = D /\ \A p \in D : desktop[p] = DesktopConversation(fs, p, fs[p])
    OBVIOUS
<1> HIDE DEF desktop
<1>12. \A p \in DOMAIN desktop : Owned("codebuddy", p, mark, desktop[p])
    BY <1>4, <1>10, <1>11, DesktopOwned
<1>13. KeyedRecords("codebuddy", mark, ide.records)
    BY <1>5, <1>11, <1>12, WholeKeyedScan
<1> HIDE DEF ide
<1>14. DOMAIN cli = {"records", "known"}
    BY DEF IncrementalScan, FullScan
<1> HIDE DEF cli
<1> DEFINE both == [cli EXCEPT !.records = @ \o ide.records]
<1>15. both.records = cli.records \o ide.records
    BY <1>14
<1> HIDE DEF both
<1> QED
    BY <1>1, <1>3, <1>9, <1>13, <1>15, MoreKeyed DEF both

\* WorkBuddy: the transcripts and the ledger beside them.
LEMMA WorkbuddyScanKeyed ==
  ASSUME NEW fs, FilesOK("workbuddy", fs), NEW mark, FilesKeyed("workbuddy", fs, mark),
         NEW over, NEW was
  PROVE  KeyedRecords("workbuddy", mark, WorkbuddyScan(fs, over, was).records)
<1> DEFINE S == {q \in DOMAIN fs : q.root \in over /\ IsJsonl(q)}
           D == {q \in DOMAIN fs : q.root \in over /\ IsLedger(q)}
           seen == WorkbuddySeen(fs, over)
           parsed == [p \in Changed(seen, was) |-> WorkbuddyFile(p, seen[p])]
           lines == IncrementalScan(seen, parsed)
           covered == {r.session : r \in ToSet(lines.records)}
           rowsOf == [p \in D |-> WorkbuddyLedger(p, fs[p], covered)]
           ledgers == FullScan(rowsOf)
<1>1. DOMAIN seen = S /\ S \subseteq DOMAIN fs /\ \A p \in S : seen[p] = fs[p]
    BY DEF WorkbuddySeen, Seen
<1>2. \A p \in S : IsParsed("workbuddy", p) /\ ~IsLedger(p)
    BY DEF IsParsed, IsJsonl, IsLedger
<1>3. WorkbuddyScan(fs, over, was) = [lines EXCEPT !.records = @ \o ledgers.records]
    BY DEF WorkbuddyScan, Seen
<1>4. \A p \in D : IsParsed("workbuddy", p) /\ IsLedger(p)
    BY DEF IsParsed
<1>5. D \subseteq DOMAIN fs
    OBVIOUS
<1> HIDE DEF S, D, seen
<1>6. \A p \in S : Offered("workbuddy", p, seen[p], mark)
    BY <1>1, <1>2, SeenOffer
<1>7. DOMAIN parsed = Changed(seen, was) /\ Changed(seen, was) \subseteq S
      /\ \A p \in DOMAIN parsed : parsed[p] = WorkbuddyFile(p, seen[p])
    BY <1>1 DEF Changed
<1> HIDE DEF parsed
<1>8. \A p \in DOMAIN parsed : Owned("workbuddy", p, mark, parsed[p])
    BY <1>2, <1>6, <1>7, WorkbuddyOwned
<1>9. KeyedRecords("workbuddy", mark, lines.records)
    BY <1>1, <1>7, <1>8, PartKeyedScan
<1> HIDE DEF covered
<1>10. \A p \in D : Offered("workbuddy", p, fs[p], mark)
    BY <1>4, <1>5, SeenOffer
<1>11. DOMAIN rowsOf = D /\ \A p \in D : rowsOf[p] = WorkbuddyLedger(p, fs[p], covered)
    OBVIOUS
<1> HIDE DEF rowsOf
<1>12. \A p \in DOMAIN rowsOf : Owned("workbuddy", p, mark, rowsOf[p])
    BY <1>4, <1>10, <1>11, LedgerOwned
<1>13. KeyedRecords("workbuddy", mark, ledgers.records)
    BY <1>5, <1>11, <1>12, WholeKeyedScan
<1> HIDE DEF ledgers
<1>14. DOMAIN lines = {"records", "known"}
    BY DEF IncrementalScan, FullScan
<1> HIDE DEF lines
<1> DEFINE both == [lines EXCEPT !.records = @ \o ledgers.records]
<1>15. both.records = lines.records \o ledgers.records
    BY <1>14
<1> HIDE DEF both
<1> QED
    BY <1>1, <1>3, <1>9, <1>13, <1>15, MoreKeyed DEF both

\* Whichever tool it is, the records of its scan have the keys of their calls.
LEMMA ScanOutputKeyed ==
  ASSUME BillInv, NEW mark, FilesKeyed(tool, files, mark), NEW over
  PROVE  KeyedRecords(tool, mark, ScanOutput(over).records)
<1> tool \in Tools /\ FilesOK(tool, files)
    BY DEF BillInv
<1>1. CASE tool = "claude"
  <2>1. ScanOutput(over) = ClaudeScan(files, over, known)
      BY <1>1 DEF ScanOutput
  <2> QED
      BY <1>1, <2>1, ClaudeScanKeyed
<1>2. CASE tool = "codex"
  <2>1. ScanOutput(over) = CodexScan(files, over, known)
      BY <1>2 DEF ScanOutput
  <2> QED
      BY <1>2, <2>1, CodexScanKeyed
<1>3. CASE tool = "gemini"
  <2>1. ScanOutput(over) = GeminiScan(files, over, known)
      BY <1>3 DEF ScanOutput
  <2> QED
      BY <1>3, <2>1, GeminiScanKeyed
<1>4. CASE tool = "antigravity"
  <2>1. ScanOutput(over) = AntigravityScan(files, over, known)
      BY <1>4 DEF ScanOutput
  <2> QED
      BY <1>4, <2>1, AntigravityScanKeyed
<1>5. CASE tool = "codebuddy"
  <2>1. ScanOutput(over) = CodebuddyScan(files, over, known)
      BY <1>5 DEF ScanOutput
  <2> QED
      BY <1>5, <2>1, CodebuddyScanKeyed
<1>6. CASE tool = "workbuddy"
  <2>1. ScanOutput(over) = WorkbuddyScan(files, over, known)
      BY <1>6 DEF ScanOutput
  <2> QED
      BY <1>6, <2>1, WorkbuddyScanKeyed
<1>7. CASE tool = "opencode"
  <2>1. ScanOutput(over) = OpenCodeScan(files, over, known)
      BY <1>7 DEF ScanOutput
  <2> QED
      BY <1>7, <2>1, OpenCodeScanKeyed
<1>8. CASE tool = "qoder"
  <2>1. ScanOutput(over) = QoderScan(files, over, known)
      BY <1>8 DEF ScanOutput
  <2> QED
      BY <1>8, <2>1, QoderScanKeyed
<1>9. CASE tool = "openclaw"
  <2>1. ScanOutput(over) = OpenClawScan(files, over, known)
      BY <1>9 DEF ScanOutput
  <2> QED
      BY <1>9, <2>1, OpenClawScanKeyed
<1>10. CASE tool = "deepseek"
  <2>1. ScanOutput(over) = DeepSeekScan(files, over, known)
      BY <1>10 DEF ScanOutput
  <2> QED
      BY <1>10, <2>1, DeepSeekScanKeyed
<1>11. CASE tool = "pi"
  <2>1. ScanOutput(over) = PiScan(files, over, known)
      BY <1>11 DEF ScanOutput
  <2> QED
      BY <1>11, <2>1, PiScanKeyed
<1>12. CASE tool = "trae"
  <2>1. ScanOutput(over) = TraeScan(files, over, known)
      BY <1>12 DEF ScanOutput
  <2> QED
      BY <1>12, <2>1, TraeScanKeyed
<1>13. CASE tool = "atomcode"
  <2>1. ScanOutput(over) = AtomCodeScan(files, over, known)
      BY <1>13 DEF ScanOutput
  <2> QED
      BY <1>13, <2>1, AtomCodeScanKeyed
<1>14. CASE tool = "codearts"
  <2>1. ScanOutput(over) = CodeArtsScan(files, over, known)
      BY <1>14 DEF ScanOutput
  <2> QED
      BY <1>14, <2>1, CodeArtsScanKeyed
<1>15. CASE tool = "teleagent"
  <2>1. ScanOutput(over) = TeleAgentScan(files, over, known)
      BY <1>15 DEF ScanOutput
  <2> QED
      BY <1>15, <2>1, TeleAgentScanKeyed
<1> QED
    BY <1>1, <1>2, <1>3, <1>4, <1>5, <1>6, <1>7, <1>8,
       <1>9, <1>10, <1>11, <1>12, <1>13, <1>14, <1>15, ToolIsKnown

-----------------------------------------------------------------------------
(* The marks are there at first, and whatever step is taken. *)

\* No call is made yet.
LEMMA OnceInit == Init => OnceInv
<1> SUFFICES ASSUME Init PROVE \E mark : Marked(mark)
    BY DEF OnceInv
<1>1. files = <<>> /\ made = 0 /\ rows = {}
    BY DEF Init
<1> DEFINE mark == [c \in {Calls[i] : i \in 1 .. made} |-> c]
<1>2. DOMAIN mark = {Calls[i] : i \in 1 .. made}
    OBVIOUS
<1>3. FilesKeyed(tool, files, mark) /\ \A r \in rows : RowKeyed(tool, r, mark)
    BY <1>1 DEF FilesKeyed
<1> HIDE DEF mark
<1> QED
    BY <1>2, <1>3 DEF Marked

\* More marks leave the rows theirs.
LEMMA MoreMarksForRows ==
  ASSUME NEW t, NEW mark, NEW more, NEW r, RowKeyed(t, r, mark),
         DOMAIN mark \subseteq DOMAIN more, \A c \in DOMAIN mark : more[c] = mark[c]
  PROVE  RowKeyed(t, r, more)
BY DEF RowKeyed

\* A step of the environment's that makes no call.
LEMMA EnvironmentMarks ==
  ASSUME NEW mark, Marked(mark), tool' = tool, made' = made, rows' = rows,
         FilesKeyed(tool, files', mark)
  PROVE  Marked(mark)'
BY DEF Marked, RowKeyed, FilesKeyed, FileKeyed, Keyed

\* The rows a scan adds have the keys of their calls.
LEMMA ScanMarks ==
  ASSUME BillInv, NEW mark, Marked(mark), Scan
  PROVE  Marked(mark)'
<1> DEFINE records == ScanOutput(Existing(ScanRoots)).records
<1>1. /\ rows' = InsertOrIgnore(rows, records)
      /\ tool' = tool /\ files' = files /\ made' = made
    BY DEF Scan, toolVars
<1>2. KeyedRecords(tool, mark, records)
    BY ScanOutputKeyed DEF Marked
<1> HIDE DEF records
<1>3. \A r \in rows' : r \in rows \/ \E i \in DOMAIN records : r = records[i]
    BY <1>1 DEF InsertOrIgnore
<1>4. \A i \in DOMAIN records : records[i] \in ToSet(records)
    BY <1>2, SeqShape DEF KeyedRecords
<1>5. \A r \in rows' : RowKeyed(tool, r, mark)
    BY <1>2, <1>3, <1>4 DEF Marked, KeyedRecords
<1> QED
    BY <1>1, <1>5 DEF Marked

\* Every step keeps them.
LEMMA OnceStep == BillInv /\ OnceInv /\ [Next]_vars => OnceInv'
<1> SUFFICES ASSUME BillInv, OnceInv, [Next]_vars PROVE OnceInv'
    OBVIOUS
<1>0. PICK mark : Marked(mark)
    BY DEF OnceInv
<1>k. FilesKeyed(tool, files, mark)
    BY <1>0 DEF Marked
<1>1. ASSUME NEW m, Marked(m)' PROVE OnceInv'
    BY <1>1 DEF OnceInv
<1>2. ASSUME tool' = tool, made' = made, rows' = rows, FilesKeyed(tool, files', mark)
      PROVE  OnceInv'
    BY <1>0, <1>1, <1>2, EnvironmentMarks
<1>3. ASSUME NEW f, Turn(f) PROVE tool' = tool /\ made' = made /\ rows' = rows /\ files' = f
    BY <1>3 DEF Turn, adapterVars
<1>4. CASE MakeCall
  <2>1. PICK more : /\ DOMAIN more = {Calls[i] : i \in 1 .. made'}
                    /\ DOMAIN mark \subseteq DOMAIN more
                    /\ \A d \in DOMAIN mark : more[d] = mark[d]
                    /\ FilesKeyed(tool, files', more)
      BY <1>0, <1>k, <1>4, MakeCallKeyed DEF Marked
  <2>2. tool' = tool /\ rows' = rows
      BY <1>4 DEF MakeCall, adapterVars
  <2>3. \A r \in rows : RowKeyed(tool, r, more)
      BY <1>0, <2>1, MoreMarksForRows DEF Marked
  <2>4. Marked(more)'
      BY <2>1, <2>2, <2>3 DEF Marked
  <2> QED
      BY <1>1, <2>4
<1>u. CASE MakeUntoldCall
  <2>1. PICK more : /\ DOMAIN more = {Calls[i] : i \in 1 .. made'}
                    /\ DOMAIN mark \subseteq DOMAIN more
                    /\ \A d \in DOMAIN mark : more[d] = mark[d]
                    /\ FilesKeyed(tool, files', more)
      BY <1>0, <1>k, <1>u, MakeUntoldCallKeyed DEF Marked
  <2>2. tool' = tool /\ rows' = rows
      BY <1>u DEF MakeUntoldCall, adapterVars
  <2>3. \A r \in rows : RowKeyed(tool, r, more)
      BY <1>0, <2>1, MoreMarksForRows DEF Marked
  <2>4. Marked(more)'
      BY <2>1, <2>2, <2>3 DEF Marked
  <2> QED
      BY <1>1, <2>4
<1>5. CASE Finish
    BY <1>2, <1>5, <1>k, FinishKeyed DEF Finish, adapterVars
<1>6. CASE SwitchModel
    BY <1>2, <1>3, <1>6, <1>k, SwitchModelKeyed DEF SwitchModel
<1>7. CASE AddHome
    BY <1>2, <1>3, <1>7, <1>k DEF AddHome
<1>8. CASE AddBadRow
    BY <1>2, <1>3, <1>8, <1>k, AddBadRowKeyed DEF AddBadRow
<1>9. CASE Checkpoint
    BY <1>2, <1>3, <1>9, <1>k, CheckpointKeyed DEF Checkpoint
<1>10. CASE Tear
    BY <1>2, <1>3, <1>10, <1>k, TearKeyed DEF Tear
<1>11. CASE Mend
    BY <1>2, <1>11, <1>k, MendKeyed DEF Mend, adapterVars
<1>12. CASE Mirror
    BY <1>2, <1>3, <1>12, <1>k, MirrorKeyed DEF Mirror
<1>13. CASE Migrate
    BY <1>2, <1>3, <1>13, <1>k, MigrateKeyed DEF Migrate
<1>14. CASE SyncLedger
    BY <1>2, <1>3, <1>14, <1>k, SyncLedgerKeyed DEF SyncLedger
<1>15. CASE WriteBeside
    BY <1>2, <1>3, <1>15, <1>k, WriteBesideKeyed DEF WriteBeside
<1>16. CASE Rewrite
    BY <1>2, <1>3, <1>16, <1>k, RewriteKeyed DEF Rewrite
<1>17. CASE NothingToScan \/ SkipScan \/ Restart \/ UNCHANGED vars
  <2>1. tool' = tool /\ made' = made /\ rows' = rows /\ files' = files
      BY <1>17 DEF NothingToScan, SkipScan, Restart, toolVars, vars, adapterVars
  <2> QED
      BY <1>2, <1>k, <2>1
<1>18. CASE Scan
    BY <1>0, <1>1, <1>18, ScanMarks
<1> QED
    BY <1>4, <1>5, <1>6, <1>7, <1>8, <1>9, <1>10, <1>11, <1>12, <1>13, <1>14, <1>15, <1>16,
       <1>17, <1>18, <1>u DEF Next

\* So they are always there.
LEMMA OnceAlways == Spec => []OnceInv
<1>1. OnceInv /\ BillInv /\ [Next]_vars => OnceInv'
    BY OnceStep
<1> QED
    BY <1>1, OnceInit, BillAlways, PTL DEF Spec

\* However often the files of a tool are read and whatever it does with them in between: a
\* call is in the table once. In a tool that keeps it in two places it may be there twice,
\* but then the two rows were read from two files.
THEOREM CallsAreCountedOnce == Spec => []CountedOnce
<1>1. BillInv /\ OnceInv => CountedOnce
  <2> SUFFICES ASSUME BillInv, OnceInv, NEW r \in rows, NEW q \in rows, r # q,
                      NEW c \in r.calls, c \in q.calls
               PROVE  tool \in {"codebuddy", "workbuddy", "atomcode"} /\ r.file # q.file
      BY DEF CountedOnce
  <2>1. PICK mark : Marked(mark)
      BY DEF OnceInv
  <2>2. /\ r.key = KeyFrom(tool, r.file, mark[c])
        /\ q.key = KeyFrom(tool, q.file, mark[c])
      BY <2>1 DEF Marked, RowKeyed
  <2>3. r.key # q.key
      BY DEF BillInv, RowsOK
  <2>4. r.file # q.file
      BY <2>2, <2>3
  <2>5. tool \in {"codebuddy", "workbuddy", "atomcode"}
      BY <2>2, <2>3 DEF KeyFrom
  <2> QED
      BY <2>4, <2>5
<1> QED
    BY <1>1, BillAlways, OnceAlways, PTL

===============================================================================
