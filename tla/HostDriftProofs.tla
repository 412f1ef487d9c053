---------------------------- MODULE HostDriftProofs ----------------------------
(***************************************************************************)
(* What holds of every host: whatever its facts, the entries that appear   *)
(* in its report, the scanners that panic, the policy that is laid over    *)
(* the findings and the order in which all this happens.                   *)
(*                                                                         *)
(* The first part is about the rules of src/scoring.rs and any report:     *)
(* what its findings weigh (the sum of axis does not depend on the order   *)
(* of the findings, and a set dominated entry by entry weighs no more),    *)
(* what a compromise weighs, which finding carries the passwordless-root   *)
(* class, that a report with more in its lists weighs no less, and that    *)
(* the machine that evaluates a report hides nothing.                      *)
(*                                                                         *)
(* The second part is about hosts that change.  HostInv says that the      *)
(* facts are of the kind the scanners write, that now is the scan of those *)
(* facts under the policy of the day, and that a snapshot holds a report   *)
(* that a scan gave, with its score.  The rest compares two reports.       *)
(***************************************************************************)
EXTENDS HostDrift, FiniteSetTheorems, WellFoundedInduction, TLAPS

-------------------------------------------------------------------------------
(* The sum of axis. *)
Weight(S) == MapThenSumSet(LAMBDA f : f.weight, S)

(* Finitely many findings, each with a weight. *)
Weighty(S) == IsFiniteSet(S) /\ \A f \in S : f.weight \in Nat

(* The fold takes the findings in the order of CHOOSE; Splits takes them in any order. *)
any(s) == CHOOSE x \in s : TRUE
Sums(g, S) ==
    \A s \in SUBSET S : g[s] = IF s = {} THEN 0 ELSE any(s).weight + g[s \ {any(s)}]

Splits(g, S) ==
    \A s \in SUBSET S : \A x \in s : g[s] = x.weight + g[s \ {x}]
Numbers(g, S) == \A s \in SUBSET S : g[s] \in Nat

(* The element that the fold takes first is one of the set. *)
LEMMA AnyFacts ==
    ASSUME NEW s, s # {}
    PROVE  any(s) \in s
BY DEF any

(* Subsets of a finite set of findings, one finding less at a time. *)
LEMMA SubsetFacts ==
    ASSUME NEW S, Weighty(S), NEW s \in SUBSET S
    PROVE  /\ Weighty(s) /\ Cardinality(s) \in Nat
           /\ Cardinality(s) = 0 <=> s = {}
           /\ \A x \in s : /\ s \ {x} \in SUBSET S
                           /\ Cardinality(s \ {x}) = Cardinality(s) - 1
<1>1. IsFiniteSet(s)
  BY FS_Subset DEF Weighty
<1>2. \A x \in s : Cardinality(s \ {x}) = Cardinality(s) - 1
  BY <1>1, FS_RemoveElement
<1> QED BY <1>1, <1>2, FS_CardinalityType, FS_EmptySet DEF Weighty

(* A least counterexample, for induction over the natural numbers. *)
LEMMA LeastNumber ==
    ASSUME NEW T \in SUBSET Nat, T # {}
    PROVE  \E n \in T : \A m \in T : n <= m
<1>1. \E n \in T : \A m \in T : ~(<<m, n>> \in OpToRel(<, Nat))
  BY NatLessThanWellFounded, WFMin
<1>2. PICK n \in T : \A m \in T : ~(<<m, n>> \in OpToRel(<, Nat))
  BY <1>1
<1>3. \A m \in T : ~(m < n)
  BY <1>2 DEF OpToRel
<1> QED BY <1>3

(* A function that sums the subsets of at most n findings. *)
SumsTo(g, S, n) ==
    \A s \in SUBSET S : Cardinality(s) <= n =>
        g[s] = IF s = {} THEN 0 ELSE any(s).weight + g[s \ {any(s)}]

(* There is a function that sums every subset in the order of the fold: built size by size. *)
LEMMA SumsExist ==
    ASSUME NEW S, Weighty(S)
    PROVE  \E g \in [SUBSET S -> Nat] : Sums(g, S)
<1> DEFINE Bad == {n \in Nat : ~ \E g \in [SUBSET S -> Nat] : SumsTo(g, S, n)}
<1>1. SUFFICES ASSUME Bad # {} PROVE FALSE
  <2>1. Cardinality(S) \in Nat /\ IsFiniteSet(S)
    BY FS_CardinalityType DEF Weighty
  <2>2. PICK g \in [SUBSET S -> Nat] : SumsTo(g, S, Cardinality(S))
    BY <1>1, <2>1
  <2>3. \A s \in SUBSET S : Cardinality(s) <= Cardinality(S)
    BY <2>1, FS_Subset
  <2> QED BY <2>2, <2>3 DEF Sums, SumsTo
<1>2. PICK n \in Bad : \A m \in Bad : n <= m
  BY <1>1, LeastNumber
<1>3. CASE n = 0
  <2> DEFINE g == [s \in SUBSET S |-> 0]
  <2>1. g \in [SUBSET S -> Nat]
    OBVIOUS
  <2>2. SumsTo(g, S, 0)
    BY SubsetFacts DEF SumsTo
  <2> QED BY <1>2, <1>3, <2>1, <2>2
<1>4. CASE n > 0
  <2>1. n - 1 \in Nat /\ n - 1 \notin Bad
    <3>1. n \in Nat /\ n - 1 \in Nat /\ ~(n <= n - 1)
      BY <1>4
    <3> HIDE DEF Bad
    <3> QED BY <3>1, <1>2
  <2>2. PICK g \in [SUBSET S -> Nat] : SumsTo(g, S, n - 1)
    BY <2>1
  <2> DEFINE h == [s \in SUBSET S |-> IF s = {} THEN 0 ELSE any(s).weight + g[s \ {any(s)}]]
  <2>3. ASSUME NEW s \in SUBSET S, s # {}
        PROVE  any(s).weight \in Nat /\ s \ {any(s)} \in SUBSET S
    BY <2>3, AnyFacts DEF Weighty
  <2>4. h \in [SUBSET S -> Nat]
    BY <2>3
  <2>5. \A s \in SUBSET S : Cardinality(s) <= n - 1 => h[s] = g[s]
    BY <2>2 DEF SumsTo
  <2>6. ASSUME NEW s \in SUBSET S, Cardinality(s) <= n, s # {}
        PROVE  h[s \ {any(s)}] = g[s \ {any(s)}]
    <3>1. Cardinality(s \ {any(s)}) = Cardinality(s) - 1 /\ Cardinality(s) \in Nat
      BY <2>6, AnyFacts, SubsetFacts
    <3>2. Cardinality(s \ {any(s)}) <= n - 1
      BY <3>1, <2>6
    <3>3. s \ {any(s)} \in SUBSET S
      BY <2>3, <2>6
    <3> HIDE DEF h
    <3> QED BY <3>2, <3>3, <2>5
  <2>7. SumsTo(h, S, n)
    BY <2>6, <2>3 DEF SumsTo
  <2> HIDE DEF h
  <2> QED BY <1>2, <2>4, <2>7
<1> QED BY <1>2, <1>3, <1>4

(* There is only one: a subset on which two of them differ would have a smaller one. *)
LEMMA SumsUnique ==
    ASSUME NEW S, Weighty(S), NEW T \in SUBSET S, NEW g, Sums(g, T), NEW h, Sums(h, S)
    PROVE  \A s \in SUBSET T : g[s] = h[s]
<1> DEFINE Bad == {n \in Nat : \E s \in SUBSET T : Cardinality(s) = n /\ g[s] # h[s]}
<1>1. SUFFICES ASSUME Bad # {} PROVE FALSE
  <2>1. \A s \in SUBSET T : Cardinality(s) \in Nat
    BY SubsetFacts
  <2> QED BY <1>1, <2>1
<1>2. PICK n \in Bad : \A m \in Bad : n <= m
  BY <1>1, LeastNumber
<1>3. PICK s \in SUBSET T : Cardinality(s) = n /\ g[s] # h[s]
  BY <1>2
<1>4. s # {}
  BY <1>3 DEF Sums
<1> DEFINE t == s \ {any(s)}
<1>5. t \in SUBSET T /\ Cardinality(t) = n - 1 /\ Cardinality(t) \in Nat /\ n \in Nat
  BY <1>3, <1>4, AnyFacts, SubsetFacts
<1>6. g[s] = any(s).weight + g[t] /\ h[s] = any(s).weight + h[t]
  BY <1>4 DEF Sums
<1>7. g[t] # h[t]
  BY <1>3, <1>6
<1>8. n - 1 \in Bad
  BY <1>5, <1>7
<1> HIDE DEF Bad
<1> QED BY <1>2, <1>5, <1>8

(* The sum of axis is that function, on every subset. *)
LEMMA WeightSums ==
    ASSUME NEW S, Weighty(S)
    PROVE  \E g \in [SUBSET S -> Nat] : Sums(g, S) /\ \A s \in SUBSET S : Weight(s) = g[s]
<1> DEFINE F(T, g) ==
      [s \in SUBSET T |-> IF s = {} THEN 0 ELSE any(s).weight + g[s \ {any(s)}]]
<1>1. PICK g \in [SUBSET S -> Nat] : Sums(g, S)
  BY SumsExist
<1>2. ASSUME NEW T \in SUBSET S
      PROVE  Weight(T) = g[T]
  <2>1. Weighty(T)
    BY SubsetFacts
  <2>2. PICK k \in [SUBSET T -> Nat] : Sums(k, T)
    BY <2>1, SumsExist
  <2>3. k = F(T, k)
    BY <2>2 DEF Sums
  <2> DEFINE h == CHOOSE h0 : h0 = F(T, h0)
  <2>4. h = F(T, h)
    BY <2>3
  <2>5. Weight(T) = h[T]
    BY DEF Weight, MapThenSumSet, MapThenFoldSet, any
  <2> HIDE DEF h
  <2>6. Sums(h, T)
    BY <2>4 DEF Sums
  <2> QED BY <1>1, <2>5, <2>6, SumsUnique
<1> QED BY <1>1, <1>2

(* Whichever finding is taken out first, the sum is the same. *)
LEMMA SumsRemove ==
    ASSUME NEW S, Weighty(S), NEW g, Numbers(g, S), Sums(g, S)
    PROVE  Splits(g, S)
<1> DEFINE Bad == {n \in Nat : \E s \in SUBSET S : \E x \in s :
                                 Cardinality(s) = n /\ g[s] # x.weight + g[s \ {x}]}
<1>1. SUFFICES ASSUME Bad # {} PROVE FALSE
  <2>1. \A s \in SUBSET S : Cardinality(s) \in Nat
    BY SubsetFacts
  <2> QED BY <1>1, <2>1 DEF Splits
<1>2. PICK n \in Bad : \A m \in Bad : n <= m
  BY <1>1, LeastNumber
<1>30. PICK s \in SUBSET S : \E x \in s : Cardinality(s) = n /\ g[s] # x.weight + g[s \ {x}]
  BY <1>2
<1>3. PICK x \in s : Cardinality(s) = n /\ g[s] # x.weight + g[s \ {x}]
  BY <1>30
<1> DEFINE c == any(s)
<1>4. c \in s /\ g[s] = c.weight + g[s \ {c}]
  BY AnyFacts DEF Sums
<1>5. c # x
  BY <1>3, <1>4
<1> HIDE DEF c
<1> DEFINE u == s \ {c}
           v == s \ {x}
           w == (s \ {c}) \ {x}
<1>6. u \in SUBSET S /\ v \in SUBSET S /\ w \in SUBSET S /\ x \in u /\ c \in v
  BY <1>4, <1>5
<1>7. u \ {x} = w /\ v \ {c} = w
  BY <1>4, <1>5
<1>8. /\ Cardinality(u) = n - 1 /\ Cardinality(v) = n - 1
      /\ n \in Nat /\ n - 1 \in Nat
  BY <1>3, <1>4, <1>6, SubsetFacts
<1>9. n - 1 \notin Bad
  <2>1. ~(n <= n - 1)
    BY <1>8
  <2> HIDE DEF Bad
  <2> QED BY <1>2, <2>1
<1>10. g[u] = x.weight + g[w] /\ g[v] = c.weight + g[w]
  <2>1. \A t \in SUBSET S : \A y \in t : Cardinality(t) = n - 1 => g[t] = y.weight + g[t \ {y}]
    BY <1>8, <1>9
  <2> QED BY <2>1, <1>6, <1>7, <1>8
<1>11. x.weight \in Nat /\ c.weight \in Nat /\ g[w] \in Nat
  BY <1>4, <1>6 DEF Weighty, Numbers
<1> QED BY <1>3, <1>4, <1>10, <1>11

(* The sum of axis does not depend on the order of the findings. *)
LEMMA WeightFacts ==
    ASSUME NEW S, Weighty(S)
    PROVE  /\ Weight(S) \in Nat
           /\ S = {} => Weight(S) = 0
           /\ \A x \in S : Weight(S) = x.weight + Weight(S \ {x})
<1>1. PICK g \in [SUBSET S -> Nat] : Sums(g, S) /\ \A s \in SUBSET S : Weight(s) = g[s]
  BY WeightSums
<1>2. Splits(g, S)
  <2>1. Numbers(g, S)
    BY DEF Numbers
  <2> QED BY <1>1, <2>1, SumsRemove
<1>3. S \in SUBSET S /\ \A x \in S : S \ {x} \in SUBSET S
  OBVIOUS
<1>4. S = {} => g[S] = 0
  BY <1>1, <1>3 DEF Sums
<1> QED BY <1>1, <1>2, <1>3, <1>4 DEF Splits

(* Of two disjoint sets, the weights add up. *)
LEMMA WeightUnion ==
    ASSUME NEW A, NEW B, Weighty(A), Weighty(B), A \cap B = {}
    PROVE  Weight(A \cup B) = Weight(A) + Weight(B)
<1> DEFINE Bad == {n \in Nat : \E s \in SUBSET A :
                      Cardinality(s) = n /\ Weight(s \cup B) # Weight(s) + Weight(B)}
<1>0. \A s \in SUBSET A : Weighty(s) /\ Weighty(s \cup B)
  BY SubsetFacts, FS_Union DEF Weighty
<1>1. SUFFICES ASSUME Bad # {} PROVE FALSE
  <2>1. \A s \in SUBSET A : Cardinality(s) \in Nat
    BY SubsetFacts
  <2> QED BY <1>1, <2>1
<1>2. PICK n \in Bad : \A m \in Bad : n <= m
  BY <1>1, LeastNumber
<1>3. PICK s \in SUBSET A : Cardinality(s) = n /\ Weight(s \cup B) # Weight(s) + Weight(B)
  BY <1>2
<1>4. CASE s = {}
  <2>1. s \cup B = B
    BY <1>4
  <2>2. Weight(s \cup B) = Weight(B)
    BY <2>1
  <2>3. Weight(s) = 0 /\ Weight(B) \in Nat
    BY <1>0, <1>4, WeightFacts
  <2> QED BY <2>2, <2>3, <1>3
<1>5. CASE s # {}
  <2>1. PICK x : x \in s
    BY <1>5
  <2> DEFINE t == s \ {x}
  <2>2. t \in SUBSET A /\ Cardinality(t) = n - 1 /\ n \in Nat /\ n - 1 \in Nat
    BY <1>3, <2>1, SubsetFacts
  <2>3. (s \cup B) \ {x} = t \cup B
    BY <2>1
  <2>4. Weight(s) = x.weight + Weight(t) /\ Weight(s \cup B) = x.weight + Weight(t \cup B)
    BY <1>0, <2>1, <2>3, WeightFacts
  <2>5. x.weight \in Nat /\ Weight(t) \in Nat /\ Weight(B) \in Nat /\ Weight(t \cup B) \in Nat
    BY <1>0, <2>1, <2>2, WeightFacts DEF Weighty
  <2>6. Weight(t \cup B) # Weight(t) + Weight(B)
    BY <1>3, <2>4, <2>5
  <2>7. n - 1 \in Bad
    BY <2>2, <2>6
  <2> HIDE DEF Bad
  <2> QED BY <1>2, <2>2, <2>7
<1> QED BY <1>4, <1>5

(* Fewer findings weigh no more. *)
LEMMA WeightSubset ==
    ASSUME NEW B, Weighty(B), NEW A \in SUBSET B
    PROVE  Weight(A) <= Weight(B)
<1>1. Weighty(A) /\ Weighty(B \ A)
  BY SubsetFacts
<1>2. Weight(A \cup (B \ A)) = Weight(A) + Weight(B \ A)
  BY <1>1, WeightUnion
<1>3. A \cup (B \ A) = B
  OBVIOUS
<1> QED BY <1>1, <1>2, <1>3, WeightFacts

(* What is dominated element by element weighs no more. *)
LEMMA WeightDominated ==
    ASSUME NEW A, NEW B, Weighty(A), Weighty(B), NEW phi \in [A -> B],
           \A x, y \in A : phi[x] = phi[y] => x = y,
           \A x \in A : x.weight <= phi[x].weight
    PROVE  Weight(A) <= Weight(B)
<1> DEFINE im(s) == {phi[x] : x \in s}
           Bad == {n \in Nat : \E s \in SUBSET A : Cardinality(s) = n /\ ~(Weight(s) <= Weight(im(s)))}
<1>0. \A s \in SUBSET A : Weighty(s) /\ Weighty(im(s)) /\ im(s) \in SUBSET B
  BY SubsetFacts
<1>1. SUFFICES ASSUME Bad # {} PROVE FALSE
  <2>1. Cardinality(A) \in Nat /\ A \in SUBSET A
    BY SubsetFacts
  <2>2. Weight(A) <= Weight(im(A))
    BY <1>1, <2>1
  <2>3. Weight(im(A)) <= Weight(B)
    BY <1>0, WeightSubset
  <2>4. Weight(A) \in Nat /\ Weight(im(A)) \in Nat /\ Weight(B) \in Nat
    BY <1>0, WeightFacts
  <2> HIDE DEF im
  <2> QED BY <2>2, <2>3, <2>4
<1>2. PICK n \in Bad : \A m \in Bad : n <= m
  BY <1>1, LeastNumber
<1>3. PICK s \in SUBSET A : Cardinality(s) = n /\ ~(Weight(s) <= Weight(im(s)))
  BY <1>2
<1>4. CASE s = {}
  <2>1. Weight(s) = 0 /\ Weight(im(s)) \in Nat
    BY <1>0, <1>4, WeightFacts
  <2> QED BY <2>1, <1>3
<1>5. CASE s # {}
  <2>1. PICK x : x \in s
    BY <1>5
  <2> DEFINE t == s \ {x}
  <2>2. t \in SUBSET A /\ Cardinality(t) = n - 1 /\ n \in Nat /\ n - 1 \in Nat
    BY <1>3, <2>1, SubsetFacts
  <2>3. im(s) \ {phi[x]} = im(t) /\ phi[x] \in im(s)
    BY <2>1
  <2>4. Weight(s) = x.weight + Weight(t) /\ Weight(im(s)) = phi[x].weight + Weight(im(t))
    BY <1>0, <2>1, <2>3, WeightFacts
  <2>5. /\ x.weight \in Nat /\ phi[x].weight \in Nat /\ x.weight <= phi[x].weight
        /\ Weight(t) \in Nat /\ Weight(im(t)) \in Nat
    BY <1>0, <2>1, <2>2, WeightFacts DEF Weighty
  <2>6. ~(Weight(t) <= Weight(im(t)))
    BY <1>3, <2>4, <2>5
  <2>7. n - 1 \in Bad
    BY <2>2, <2>6
  <2> HIDE DEF Bad
  <2> QED BY <1>2, <2>2, <2>7
<1> QED BY <1>4, <1>5
-------------------------------------------------------------------------------
(* The findings of a report, but for the three that may carry the passwordless-root class. *)
Carriers == {"SEC-005", "SEC-012", "SEC-061"}
ClassFindings(r) == UNION {SEC_005(r), SEC_012(r), SEC_061(r)}
(* The rules in groups of nine. *)
Rules1(r) == UNION {SEC_001(r), SEC_002(r), SEC_003(r), SEC_004(r), SEC_006(r), SEC_007(r),
                    SEC_008(r), SEC_009(r), SEC_011(r)}
Rules2(r) == UNION {SEC_062(r), SEC_063(r), SEC_013_030_031(r), SEC_015(r), SEC_016(r),
                    SEC_017(r), SEC_032(r), SEC_019(r), SEC_020(r)}
Rules3(r) == UNION {SEC_021(r), SEC_022(r), SEC_023(r), SEC_028(r), SEC_026(r), SEC_029(r),
                    SEC_033(r), SEC_027(r), SEC_024_025(r)}
Rules4(r) == UNION {SEC_014_059_058(r), CAP_001(r), CAP_002(r), SEC_034_036(r), SEC_037(r),
                    SEC_035(r), SEC_038(r), SEC_060(r), SEC_039(r)}
Rules5(r) == UNION {SEC_040(r), SEC_041(r), SEC_042_049_050(r), SEC_051(r), SEC_052_053_054(r),
                    SEC_055_056_057(r), SEC_043(r), SEC_047(r), SEC_048(r)}
Rules6(r) == UNION {SEC_046(r), SEC_045(r), SEC_044(r), SEC_018(r), DOCK_001_004(r), DOCK_010(r),
                    SEC_065_066(r), SEC_070(r), SEC_071(r)}
Rules7(r) == UNION {SEC_072(r), SEC_073(r), SEC_074_075_076(r), SEC_077(r), SEC_078(r),
                    SEC_079(r), SEC_081(r), DOCK_005_006(r), DOCK_007_008_009(r)}
Rules8(r) == UNION {REL_001(r), REL_002(r), REL_003(r), HYG_001(r), {}, {}, {}, {}, {}}
OtherFindings(r) == UNION {Rules1(r), Rules2(r), Rules3(r), Rules4(r), Rules5(r), Rules6(r),
                           Rules7(r), Rules8(r), {}}

(* The rules are those of the passwordless-root class and the others, in eight groups. *)
LEMMA RulesSplit ==
    ASSUME NEW r
    PROVE  AccessFindings(r) \cup ProcessFindings(r) \cup SystemFindings(r)
             = ClassFindings(r) \cup OtherFindings(r)
BY DEF AccessFindings, ProcessFindings, SystemFindings, ClassFindings, OtherFindings,
       Rules1, Rules2, Rules3, Rules4, Rules5, Rules6, Rules7, Rules8

(* Every finding has a weight, a compromise one of 55 or more. *)
Weighed(D) ==
    /\ IsFiniteSet(D)
    /\ \A f \in D : /\ f.weight \in Nat
                    /\ f.id \in COMPROMISE_IDS => f.weight >= 55 /\ f.category = "security"
                    /\ f.id \notin Carriers /\ f.id # "COV-001"
                    /\ "suppressed" \in DOMAIN f

(* A rule that finds nothing. *)
LEMMA WeighedEmpty == Weighed({})
BY FS_EmptySet DEF Weighed

(* Two rules. *)
LEMMA WeighedUnion ==
    ASSUME NEW D, NEW E, Weighed(D), Weighed(E)
    PROVE  Weighed(D \cup E)
BY FS_Union DEF Weighed

(* A group of rules. *)
LEMMA WeighedNine ==
    ASSUME NEW A, NEW B, NEW C, NEW D, NEW E, NEW F, NEW G, NEW H, NEW I,
           Weighed(A), Weighed(B), Weighed(C), Weighed(D), Weighed(E), Weighed(F), Weighed(G),
           Weighed(H), Weighed(I)
    PROVE  Weighed(UNION {A, B, C, D, E, F, G, H, I})
<1>1. Weighed((A \cup B) \cup C) /\ Weighed((D \cup E) \cup F) /\ Weighed((G \cup H) \cup I)
  BY WeighedUnion
<1>2. Weighed(((A \cup B) \cup C) \cup ((D \cup E) \cup F))
  BY <1>1, WeighedUnion
<1>3. Weighed((((A \cup B) \cup C) \cup ((D \cup E) \cup F)) \cup ((G \cup H) \cup I))
  BY <1>1, <1>2, WeighedUnion
<1>4. UNION {A, B, C, D, E, F, G, H, I}
        = (((A \cup B) \cup C) \cup ((D \cup E) \cup F)) \cup ((G \cup H) \cup I)
  OBVIOUS
<1> QED BY <1>3, <1>4

(* A single finding with a weight. *)
LEMMA WeighedFinding ==
    ASSUME NEW id, NEW src, NEW cat, NEW w \in Nat, id \notin Carriers, id # "COV-001",
           id \notin COMPROMISE_IDS \/ (w >= 55 /\ cat = "security")
    PROVE  Weighed({Finding(id, src, cat, w)})
<1> DEFINE f == Finding(id, src, cat, w)
<1>1. f.id = id /\ f.weight = w /\ f.category = cat /\ "suppressed" \in DOMAIN f
  BY DEF Finding
<1>2. IsFiniteSet({f})
  BY FS_Singleton
<1> HIDE DEF f
<1>3. Weighed({f})
  BY <1>1, <1>2 DEF Weighed
<1> QED BY <1>3 DEF f

(* A finding that is only listed. *)
LEMMA WeighedInfo ==
    ASSUME NEW id, NEW src, id \notin Carriers, id # "COV-001", id \notin COMPROMISE_IDS
    PROVE  Weighed(Info(id, src))
<1> DEFINE f == Listed(id, src, 0)
<1>1. f.id = id /\ f.weight = 0 /\ "suppressed" \in DOMAIN f
  BY DEF Listed, Finding
<1>2. IsFiniteSet({f})
  BY FS_Singleton
<1> HIDE DEF f
<1>3. Weighed({f})
  BY <1>1, <1>2 DEF Weighed
<1> QED BY <1>3 DEF Info, f

(* A finding that does not mean a compromise. *)
LEMMA WeighedMinor ==
    ASSUME NEW id, NEW src, NEW w \in Nat, id \notin Carriers, id # "COV-001",
           id \notin COMPROMISE_IDS
    PROVE  Weighed(Sec(id, src, w)) /\ Weighed(Rel(id, src, w))
BY WeighedFinding DEF Sec, Rel

(* A finding that may mean one. *)
LEMMA WeighedGrave ==
    ASSUME NEW id, NEW src, NEW w \in Nat, id \notin Carriers, id # "COV-001", w >= 55
    PROVE  Weighed(Sec(id, src, w))
BY WeighedFinding DEF Sec

(* The greatest of the weights of a rule. *)
LEMMA MaxFacts ==
    ASSUME NEW A \in SUBSET (0 .. 60), A # {}
    PROVE  Max(A) \in A /\ \A y \in A : y <= Max(A)
<1> DEFINE B == {m \in Nat : \A y \in A : y <= m}
<1>1. 60 \in B
  OBVIOUS
<1>2. PICK m \in B : \A k \in B : m <= k
  BY <1>1, LeastNumber
<1>3. m \in A
  <2>1. SUFFICES ASSUME m \notin A PROVE FALSE
    OBVIOUS
  <2>2. PICK y : y \in A
    OBVIOUS
  <2>3. m \in Nat /\ m - 1 \in Nat
    BY <1>2, <2>1, <2>2
  <2>4. \A z \in A : z <= m - 1
    BY <1>2, <2>1
  <2>5. m - 1 \in B
    BY <2>3, <2>4
  <2> HIDE DEF B
  <2> QED BY <1>2, <2>3, <2>5
<1>4. \E x \in A : \A y \in A : x >= y
  BY <1>2, <1>3
<1>5. Max(A) \in A /\ \A y \in A : Max(A) >= y
  BY <1>4 DEF Max
<1> QED BY <1>5

(* Every rule outside the class: finite, weighed, and 55 or more for a compromise. *)
LEMMA OthersWeighed ==
    ASSUME NEW r, IsFiniteSet(r.sysctl_issues)
    PROVE  Weighed(OtherFindings(r))
<1> USE WeighedEmpty DEF Carriers, When
<1>1. Weighed(SEC_001(r))
  BY WeighedMinor DEF SEC_001, COMPROMISE_IDS, RISK_NO_FIREWALL
<1>2. Weighed(SEC_002(r))
  BY WeighedMinor DEF SEC_002, COMPROMISE_IDS, RISK_SSH_ROOT_LOGIN
<1>3. Weighed(SEC_003(r))
  BY WeighedMinor DEF SEC_003, COMPROMISE_IDS, RISK_SECURITY_UPDATES
<1>4. Weighed(SEC_004(r))
  BY WeighedMinor DEF SEC_004, COMPROMISE_IDS, RISK_CRITICAL_SSL_MAX
<1>5. Weighed(SEC_006(r))
  BY WeighedMinor DEF SEC_006, COMPROMISE_IDS, RISK_SUDOERS_MODE
<1>6. Weighed(SEC_007(r))
  <2> DEFINE F(i) == [Finding("SEC-007", "security", "security", RISK_SYSCTL_PER_ISSUE) EXCEPT
                        !.of = i.k,
                        !.suppressed = IF i.k = "ip_forward" /\ (r.runtime_active \/ r.kubelet)
                                       THEN "scanner" ELSE "none"]
  <2>1. SEC_007(r) = {F(i) : i \in r.sysctl_issues}
    BY DEF SEC_007
  <2>2. \A i : F(i).id = "SEC-007" /\ F(i).weight = 5 /\ "suppressed" \in DOMAIN F(i)
    BY DEF Finding, RISK_SYSCTL_PER_ISSUE
  <2> DEFINE g == [i \in r.sysctl_issues |-> F(i)]
  <2>4. g \in Surjection(r.sysctl_issues, SEC_007(r))
    BY <2>1 DEF Surjection
  <2>5. IsFiniteSet(SEC_007(r))
    BY <2>4, FS_Surjection
  <2> HIDE DEF F
  <2> QED BY <2>1, <2>2, <2>5 DEF Weighed, COMPROMISE_IDS
<1>7. Weighed(SEC_008(r))
  BY WeighedMinor DEF SEC_008, COMPROMISE_IDS, RISK_SSH_PASSWORD_AUTH
<1>8. Weighed(SEC_009(r))
  BY WeighedMinor DEF SEC_009, COMPROMISE_IDS
<1>9. Weighed(SEC_011(r))
  BY WeighedMinor DEF SEC_011, COMPROMISE_IDS
<1>10. Weighed(SEC_062(r))
  BY WeighedMinor, WeighedInfo, WeighedUnion DEF SEC_062, COMPROMISE_IDS
<1>11. Weighed(SEC_063(r))
  BY WeighedMinor, WeighedInfo DEF SEC_063, COMPROMISE_IDS
<1>12. Weighed(SEC_013_030_031(r))
  BY WeighedMinor, WeighedInfo, WeighedUnion DEF SEC_013_030_031, COMPROMISE_IDS
<1>13. Weighed(SEC_015(r))
  BY WeighedGrave DEF SEC_015
<1>14. Weighed(SEC_016(r))
  BY WeighedGrave DEF SEC_016
<1>15. Weighed(SEC_017(r))
  BY WeighedGrave DEF SEC_017
<1>16. Weighed(SEC_032(r))
  BY WeighedInfo DEF SEC_032, COMPROMISE_IDS
<1>17. Weighed(SEC_019(r))
  BY WeighedGrave DEF SEC_019
<1>18. Weighed(SEC_020(r))
  BY WeighedGrave DEF SEC_020
<1>19. Weighed(SEC_021(r))
  BY WeighedGrave DEF SEC_021
<1>20. Weighed(SEC_022(r))
  BY WeighedGrave DEF SEC_022
<1>21. Weighed(SEC_023(r))
  BY WeighedGrave DEF SEC_023
<1>22. Weighed(SEC_028(r))
  BY WeighedGrave DEF SEC_028
<1>23. Weighed(SEC_026(r))
  BY WeighedMinor DEF SEC_026, COMPROMISE_IDS
<1>24. Weighed(SEC_029(r))
  BY WeighedInfo DEF SEC_029, COMPROMISE_IDS
<1>25. Weighed(SEC_033(r))
  BY WeighedInfo DEF SEC_033, COMPROMISE_IDS
<1>26. Weighed(SEC_027(r))
  BY WeighedInfo DEF SEC_027, COMPROMISE_IDS
<1>27. Weighed(SEC_024_025(r))
  <2>1. Weighed(Sec("SEC-024", "security", 60))
    BY WeighedGrave
  <2>2. Weighed(Sec("SEC-025", "security", 20))
    BY WeighedMinor DEF COMPROMISE_IDS
  <2> QED BY <2>1, <2>2, WeighedUnion DEF SEC_024_025
<1>28. Weighed(SEC_014_059_058(r))
  BY WeighedMinor, WeighedInfo, WeighedUnion DEF SEC_014_059_058, COMPROMISE_IDS
<1>29. Weighed(CAP_001(r))
  BY WeighedMinor DEF CAP_001, COMPROMISE_IDS
<1>30. Weighed(CAP_002(r))
  <2> DEFINE A == {ambient_escalation_weight(c.ambient) :
                     c \in {d \in r.capability_audit : d.reason = "AmbientCapsNoNewPrivs"}} \ {0}
  <2>1. A \in SUBSET (0 .. 60)
    BY DEF ambient_escalation_weight
  <2>2. A # {} => Max(A) \in Nat
    BY <2>1, MaxFacts
  <2> HIDE DEF A
  <2>3. Weighed(When(A # {}, Sec("CAP-002", "security", Max(A))))
    BY <2>2, WeighedMinor DEF COMPROMISE_IDS
  <2>4. Weighed(Info("CAP-002", "security"))
    BY WeighedInfo DEF COMPROMISE_IDS
  <2> QED BY <2>3, <2>4, WeighedUnion DEF CAP_002, A
<1>31. Weighed(SEC_034_036(r))
  <2> DEFINE A == {classify_cap_binary(f, r) : f \in r.file_capabilities} \ {0}
  <2>1. A \in SUBSET (0 .. 60)
    BY DEF classify_cap_binary
  <2>2. A # {} => Max(A) \in Nat
    BY <2>1, MaxFacts
  <2> HIDE DEF A
  <2>3. Weighed(When(A # {}, Sec("SEC-036", "security", Max(A))))
    BY <2>2, WeighedMinor DEF COMPROMISE_IDS
  <2>4. Weighed(Info("SEC-034", "security"))
    BY WeighedInfo DEF COMPROMISE_IDS
  <2> QED BY <2>3, <2>4, WeighedUnion DEF SEC_034_036, A
<1>32. Weighed(SEC_037(r))
  <2> DEFINE A == {classify_setuid(f, r) : f \in r.setuid_files} \ {0}
  <2>1. A \in SUBSET (0 .. 60)
    BY DEF classify_setuid
  <2>2. A # {} => Max(A) \in Nat
    BY <2>1, MaxFacts
  <2> HIDE DEF A
  <2>3. Weighed(When(A # {}, Sec("SEC-037", "security", Max(A))))
    BY <2>2, WeighedMinor DEF COMPROMISE_IDS
  <2>4. Weighed(Info("SEC-037", "security"))
    BY WeighedInfo DEF COMPROMISE_IDS
  <2> QED BY <2>3, <2>4, WeighedUnion DEF SEC_037, A
<1>33. Weighed(SEC_035(r))
  BY WeighedInfo DEF SEC_035, COMPROMISE_IDS
<1>34. Weighed(SEC_038(r))
  BY WeighedMinor, WeighedInfo DEF SEC_038, COMPROMISE_IDS
<1>35. Weighed(SEC_060(r))
  BY WeighedInfo DEF SEC_060, COMPROMISE_IDS
<1>36. Weighed(SEC_039(r))
  BY WeighedMinor, WeighedInfo, WeighedUnion DEF SEC_039, COMPROMISE_IDS
<1>37. Weighed(SEC_040(r))
  BY WeighedGrave DEF SEC_040
<1>38. Weighed(SEC_041(r))
  BY WeighedMinor, WeighedInfo DEF SEC_041, COMPROMISE_IDS
<1>39. Weighed(SEC_042_049_050(r))
  <2>1. /\ Weighed(Sec("SEC-042", "persistence", 60))
        /\ Weighed(Sec("SEC-042", "persistence", 55))
    BY WeighedGrave
  <2>2. /\ Weighed(Sec("SEC-049", "persistence", 20))
        /\ Weighed(Sec("SEC-050", "persistence", 30))
    BY WeighedMinor DEF COMPROMISE_IDS
  <2> QED BY <2>1, <2>2, WeighedUnion DEF SEC_042_049_050
<1>40. Weighed(SEC_051(r))
  BY WeighedMinor DEF SEC_051, COMPROMISE_IDS
<1>41. Weighed(SEC_052_053_054(r))
  <2>1. Weighed(Sec("SEC-052", "persistence", 55))
    BY WeighedGrave
  <2>2. /\ Weighed(Sec("SEC-053", "persistence", 30))
        /\ Weighed(Sec("SEC-054", "persistence", 20))
    BY WeighedMinor DEF COMPROMISE_IDS
  <2> QED BY <2>1, <2>2, WeighedUnion DEF SEC_052_053_054
<1>42. Weighed(SEC_055_056_057(r))
  <2>1. Weighed(Sec("SEC-055", "persistence", 55))
    BY WeighedGrave
  <2>2. /\ Weighed(Sec("SEC-056", "persistence", 30))
        /\ Weighed(Sec("SEC-057", "persistence", 20))
    BY WeighedMinor DEF COMPROMISE_IDS
  <2> QED BY <2>1, <2>2, WeighedUnion DEF SEC_055_056_057
<1>43. Weighed(SEC_043(r))
  BY WeighedGrave DEF SEC_043
<1>44. Weighed(SEC_047(r))
  BY WeighedInfo DEF SEC_047, COMPROMISE_IDS
<1>45. Weighed(SEC_048(r))
  BY WeighedMinor, WeighedInfo DEF SEC_048, COMPROMISE_IDS
<1>46. Weighed(SEC_046(r))
  BY WeighedMinor DEF SEC_046, COMPROMISE_IDS
<1>47. Weighed(SEC_045(r))
  BY WeighedInfo DEF SEC_045, COMPROMISE_IDS
<1>48. Weighed(SEC_044(r))
  BY WeighedMinor, WeighedInfo, WeighedUnion DEF SEC_044, COMPROMISE_IDS
<1>49. Weighed(SEC_018(r))
  BY WeighedMinor DEF SEC_018, COMPROMISE_IDS
<1>50. Weighed(DOCK_001_004(r))
  BY WeighedMinor, WeighedUnion DEF DOCK_001_004, COMPROMISE_IDS
<1>51. Weighed(DOCK_010(r))
  BY WeighedGrave DEF DOCK_010
<1>52. Weighed(SEC_065_066(r))
  BY WeighedMinor, WeighedUnion DEF SEC_065_066, COMPROMISE_IDS
<1>53. Weighed(SEC_070(r))
  BY WeighedMinor DEF SEC_070, COMPROMISE_IDS
<1>54. Weighed(SEC_071(r))
  BY WeighedMinor DEF SEC_071, COMPROMISE_IDS
<1>55. Weighed(SEC_072(r))
  BY WeighedMinor DEF SEC_072, COMPROMISE_IDS
<1>56. Weighed(SEC_073(r))
  BY WeighedMinor DEF SEC_073, COMPROMISE_IDS
<1>57. Weighed(SEC_074_075_076(r))
  BY WeighedMinor, WeighedUnion DEF SEC_074_075_076, COMPROMISE_IDS
<1>58. Weighed(SEC_077(r))
  BY WeighedMinor DEF SEC_077, COMPROMISE_IDS
<1>59. Weighed(SEC_078(r))
  BY WeighedMinor DEF SEC_078, COMPROMISE_IDS
<1>60. Weighed(SEC_079(r))
  BY WeighedMinor DEF SEC_079, COMPROMISE_IDS
<1>61. Weighed(SEC_081(r))
  BY WeighedMinor DEF SEC_081, COMPROMISE_IDS
<1>62. Weighed(DOCK_005_006(r))
  BY WeighedMinor, WeighedUnion DEF DOCK_005_006, COMPROMISE_IDS
<1>63. Weighed(DOCK_007_008_009(r))
  BY WeighedMinor, WeighedUnion DEF DOCK_007_008_009, COMPROMISE_IDS
<1>64. Weighed(REL_001(r))
  BY WeighedMinor DEF REL_001, COMPROMISE_IDS
<1>65. Weighed(REL_002(r))
  BY WeighedMinor DEF REL_002, COMPROMISE_IDS
<1>66. Weighed(REL_003(r))
  BY WeighedMinor DEF REL_003, COMPROMISE_IDS
<1>67. Weighed(HYG_001(r))
  BY WeighedFinding DEF HYG_001, COMPROMISE_IDS
<1>68. Weighed(Rules1(r))
  BY <1>1, <1>2, <1>3, <1>4, <1>5, <1>6, <1>7, <1>8, <1>9, WeighedNine DEF Rules1
<1>69. Weighed(Rules2(r))
  BY <1>10, <1>11, <1>12, <1>13, <1>14, <1>15, <1>16, <1>17, <1>18, WeighedNine DEF Rules2
<1>70. Weighed(Rules3(r))
  BY <1>19, <1>20, <1>21, <1>22, <1>23, <1>24, <1>25, <1>26, <1>27, WeighedNine DEF Rules3
<1>71. Weighed(Rules4(r))
  BY <1>28, <1>29, <1>30, <1>31, <1>32, <1>33, <1>34, <1>35, <1>36, WeighedNine DEF Rules4
<1>72. Weighed(Rules5(r))
  BY <1>37, <1>38, <1>39, <1>40, <1>41, <1>42, <1>43, <1>44, <1>45, WeighedNine DEF Rules5
<1>73. Weighed(Rules6(r))
  BY <1>46, <1>47, <1>48, <1>49, <1>50, <1>51, <1>52, <1>53, <1>54, WeighedNine DEF Rules6
<1>74. Weighed(Rules7(r))
  BY <1>55, <1>56, <1>57, <1>58, <1>59, <1>60, <1>61, <1>62, <1>63, WeighedNine DEF Rules7
<1>75. Weighed(Rules8(r))
  BY <1>64, <1>65, <1>66, <1>67, WeighedNine DEF Rules8
<1> QED BY <1>68, <1>69, <1>70, <1>71, <1>72, <1>73, <1>74, <1>75, WeighedNine DEF OtherFindings

-------------------------------------------------------------------------------
(* The passwordless-root class (R34-01). *)
LEMMA LiveFacts ==
    /\ \A D, E : live(D \cup E) = live(D) \cup live(E)
    /\ live({}) = {}
    /\ \A id, src, w : live(Sec(id, src, w)) = Sec(id, src, w) /\ live(Info(id, src)) = {}
BY DEF live, Sec, Info, Listed, Finding

(* The weight that each of the three rules carries. *)
Bypass(r) == \E g \in r.root_equivalent_groups : g.bypasses_sudo
SudoTier(r) ==
    IF r.sudo_nopasswd_entries = {} THEN 0
    ELSE IF prp_sec005(r) /\ ~prp_sec012(r) THEN 15
    ELSE IF prp_sec005(r) /\ ~(\E e \in r.sudo_nopasswd_entries : e.k = "plain") THEN 0
    ELSE 5
RootTier(r) == IF prp_sec012(r) THEN 15 ELSE 0
GroupTier(r) == IF Bypass(r) /\ ~prp_sec012(r) /\ ~prp_sec005(r) THEN 15 ELSE 0
ClassWeight(r) == SudoTier(r) + RootTier(r) + GroupTier(r)

(* What is live of a rule with this tier. *)
Tier(id, w) == IF w = 0 THEN {} ELSE Sec(id, "security", w)

(* What a tier weighs. *)
LEMMA TierFacts ==
    ASSUME NEW id, NEW w \in Nat
    PROVE  /\ Weighty(Tier(id, w)) /\ Weight(Tier(id, w)) = w
           /\ \A f \in Tier(id, w) : f.id = id /\ f.weight = w /\ f.category = "security"
                                      /\ f.source = "security"
<1>1. CASE w = 0
  <2>1. Tier(id, w) = {}
    BY <1>1 DEF Tier
  <2>2. Weighty({})
    BY FS_EmptySet DEF Weighty
  <2> QED BY <1>1, <2>1, <2>2, WeightFacts
<1>2. CASE w # 0
  <2> DEFINE f == Finding(id, "security", "security", w)
  <2>1. f.id = id /\ f.weight = w /\ f.category = "security" /\ f.source = "security"
    BY DEF Finding
  <2>2. Tier(id, w) = {f}
    BY <1>2 DEF Tier, Sec
  <2> HIDE DEF f
  <2>3. Weighty({f}) /\ Weighty({})
    BY <2>1, FS_Singleton, FS_EmptySet DEF Weighty
  <2>4. {f} \ {f} = {}
    OBVIOUS
  <2>5. Weight({f}) = f.weight + Weight({}) /\ Weight({}) = 0
    BY <2>3, <2>4, WeightFacts
  <2> QED BY <2>1, <2>2, <2>3, <2>5
<1> QED BY <1>1, <1>2

(* The three rules of the class in terms of their tiers. *)
LEMMA ClassTiers ==
    ASSUME NEW r
    PROVE  /\ live(ClassFindings(r)) =
                 (Tier("SEC-005", SudoTier(r)) \cup Tier("SEC-012", RootTier(r)))
                    \cup Tier("SEC-061", GroupTier(r))
           /\ SudoTier(r) \in {0, 5, 15} /\ RootTier(r) \in {0, 15} /\ GroupTier(r) \in {0, 15}
           /\ \A f \in ClassFindings(r) : f.id \in Carriers /\ f.source = "security"
                                        /\ "suppressed" \in DOMAIN f
<1>1. live(SEC_005(r)) = Tier("SEC-005", SudoTier(r))
  BY LiveFacts DEF SEC_005, SudoTier, Tier, When, RISK_PASSWORDLESS_ROOT
<1>2. live(SEC_012(r)) = Tier("SEC-012", RootTier(r))
  BY LiveFacts DEF SEC_012, RootTier, Tier, When, RISK_PASSWORDLESS_ROOT
<1>3. live(SEC_061(r)) = Tier("SEC-061", GroupTier(r))
  BY LiveFacts DEF SEC_061, GroupTier, Bypass, Tier, When, RISK_PASSWORDLESS_ROOT
<1>4. ClassFindings(r) = (SEC_005(r) \cup SEC_012(r)) \cup SEC_061(r)
  BY DEF ClassFindings
<1>5. live(ClassFindings(r)) = (live(SEC_005(r)) \cup live(SEC_012(r))) \cup live(SEC_061(r))
  BY <1>4 DEF live
<1>6. SudoTier(r) \in {0, 5, 15} /\ RootTier(r) \in {0, 15} /\ GroupTier(r) \in {0, 15}
  BY DEF SudoTier, RootTier, GroupTier
<1>7. \A f \in ClassFindings(r) : f.id \in Carriers /\ f.source = "security"
                                        /\ "suppressed" \in DOMAIN f
  BY <1>4 DEF SEC_005, SEC_012, SEC_061, When, Sec, Info, Listed, Finding, Carriers
<1> QED BY <1>1, <1>2, <1>3, <1>5, <1>6, <1>7

(* What the class weighs. *)
LEMMA ClassWeighs ==
    ASSUME NEW r
    PROVE  /\ Weighty(live(ClassFindings(r)))
           /\ Weight(live(ClassFindings(r))) = ClassWeight(r)
<1> DEFINE A == Tier("SEC-005", SudoTier(r))
           B == Tier("SEC-012", RootTier(r))
           C == Tier("SEC-061", GroupTier(r))
<1>1. SudoTier(r) \in Nat /\ RootTier(r) \in Nat /\ GroupTier(r) \in Nat
  BY ClassTiers
<1>2. /\ Weighty(A) /\ Weight(A) = SudoTier(r) /\ \A f \in A : f.id = "SEC-005"
      /\ Weighty(B) /\ Weight(B) = RootTier(r) /\ \A f \in B : f.id = "SEC-012"
      /\ Weighty(C) /\ Weight(C) = GroupTier(r) /\ \A f \in C : f.id = "SEC-061"
  BY <1>1, TierFacts
<1>3. live(ClassFindings(r)) = (A \cup B) \cup C
  BY ClassTiers
<1> HIDE DEF A, B, C
<1>4. A \cap B = {} /\ (A \cup B) \cap C = {}
  BY <1>2
<1>5. Weighty(A \cup B) /\ Weighty((A \cup B) \cup C)
  BY <1>2, FS_Union DEF Weighty
<1>6. Weight((A \cup B) \cup C) = (Weight(A) + Weight(B)) + Weight(C)
  BY <1>2, <1>4, <1>5, WeightUnion
<1> QED BY <1>2, <1>3, <1>5, <1>6 DEF ClassWeight

(* However many ways lead to passwordless root, exactly one finding weighs it. *)
LEMMA ClassOnce ==
    ASSUME NEW r
    PROVE  Cardinality({f \in live(ClassFindings(r)) : f.weight = RISK_PASSWORDLESS_ROOT})
             = IF prp_sec012(r) \/ prp_sec005(r) \/ Bypass(r) THEN 1 ELSE 0
<1> DEFINE A == Tier("SEC-005", SudoTier(r))
           B == Tier("SEC-012", RootTier(r))
           C == Tier("SEC-061", GroupTier(r))
           K == {f \in live(ClassFindings(r)) : f.weight = RISK_PASSWORDLESS_ROOT}
<1>1. SudoTier(r) \in Nat /\ RootTier(r) \in Nat /\ GroupTier(r) \in Nat
  BY ClassTiers
<1>2. /\ \A f \in A : f.weight = SudoTier(r)
      /\ \A f \in B : f.weight = RootTier(r)
      /\ \A f \in C : f.weight = GroupTier(r)
  BY <1>1, TierFacts
<1>3. live(ClassFindings(r)) = (A \cup B) \cup C
  BY ClassTiers
<1>4. prp_sec005(r) => r.sudo_nopasswd_entries # {}
  BY DEF prp_sec005
<1>5. /\ SudoTier(r) = 15 <=> prp_sec005(r) /\ ~prp_sec012(r)
      /\ RootTier(r) = 15 <=> prp_sec012(r)
      /\ GroupTier(r) = 15 <=> Bypass(r) /\ ~prp_sec012(r) /\ ~prp_sec005(r)
  BY <1>4 DEF SudoTier, RootTier, GroupTier
<1>6. /\ SudoTier(r) = 15 => A = {Finding("SEC-005", "security", "security", 15)}
      /\ RootTier(r) = 15 => B = {Finding("SEC-012", "security", "security", 15)}
      /\ GroupTier(r) = 15 => C = {Finding("SEC-061", "security", "security", 15)}
  BY DEF Tier, Sec
<1> HIDE DEF A, B, C
<1>7. K = (IF SudoTier(r) = 15 THEN A ELSE {}) \cup (IF RootTier(r) = 15 THEN B ELSE {})
             \cup (IF GroupTier(r) = 15 THEN C ELSE {})
  BY <1>2, <1>3 DEF RISK_PASSWORDLESS_ROOT
<1> HIDE DEF K
<1>8. CASE prp_sec012(r) \/ prp_sec005(r) \/ Bypass(r)
  <2>1. \E f : K = {f}
    BY <1>5, <1>6, <1>7, <1>8
  <2> QED BY <1>8, <2>1, FS_Singleton DEF K
<1>9. CASE ~(prp_sec012(r) \/ prp_sec005(r) \/ Bypass(r))
  <2>1. K = {}
    BY <1>5, <1>7, <1>9
  <2> QED BY <1>9, <2>1, FS_EmptySet DEF K
<1> QED BY <1>8, <1>9

-------------------------------------------------------------------------------
(* q is a report of the same host with more in its lists: nothing was put right.  The
   backup tools are the one list whose entries are a merit. *)
Worse(r, q) ==
    /\ \A x \in ListFields \ {"backup_tools"} : r[x] \subseteq q[x]
    /\ \A x \in (Fields \ ListFields) \cup {"backup_tools", "at"} : r[x] = q[x]
    /\ r.firewall_bypass \subseteq q.firewall_bypass

(* Worse, field by field, for the fields that the rules read. *)
LEMMA WorseFields ==
    ASSUME NEW r, NEW q, Worse(r, q)
    PROVE  /\ q.attribution_degraded = r.attribution_degraded /\ q.backup_tools = r.backup_tools
           /\ q.core_pattern = r.core_pattern /\ q.firewall_active = r.firewall_active
           /\ q.at = r.at /\ q.kubelet = r.kubelet
           /\ q.live_tracer = r.live_tracer /\ q.lockdown_none = r.lockdown_none
           /\ q.ntp_synchronized = r.ntp_synchronized /\ q.oom_kills = r.oom_kills
           /\ q.password_auth = r.password_auth /\ q.provenance = r.provenance
           /\ q.root_login = r.root_login /\ q.runtime_active = r.runtime_active
           /\ q.security_updates = r.security_updates
           /\ q.selinux_permissive = r.selinux_permissive
           /\ q.sudoers_mode = r.sudoers_mode
           /\ r.authorized_keys_writable \subseteq q.authorized_keys_writable
           /\ r.capability_audit \subseteq q.capability_audit
           /\ r.complain_profiles \subseteq q.complain_profiles
           /\ r.containers \subseteq q.containers
           /\ r.cpu_vulnerabilities \subseteq q.cpu_vulnerabilities
           /\ r.critical_cron \subseteq q.critical_cron
           /\ r.duplicate_uid_zero \subseteq q.duplicate_uid_zero
           /\ r.ebpf_progs \subseteq q.ebpf_progs
           /\ r.empty_password_users \subseteq q.empty_password_users
           /\ r.exec_start \subseteq q.exec_start
           /\ r.failed_services \subseteq q.failed_services
           /\ r.file_capabilities \subseteq q.file_capabilities
           /\ r.file_permission_issues \subseteq q.file_permission_issues
           /\ r.ftrace_hooks \subseteq q.ftrace_hooks
           /\ r.generators \subseteq q.generators /\ r.ghost_pids \subseteq q.ghost_pids
           /\ r.hidden_modules \subseteq q.hidden_modules
           /\ r.kernel_taint \subseteq q.kernel_taint
           /\ r.keys \subseteq q.keys /\ r.ld_so_conf_injections \subseteq q.ld_so_conf_injections
           /\ r.library_injections \subseteq q.library_injections
           /\ r.listening_ports \subseteq q.listening_ports
           /\ r.mount_masking \subseteq q.mount_masking
           /\ r.pam_injections \subseteq q.pam_injections
           /\ r.preload_injections \subseteq q.preload_injections
           /\ r.reverse_shells \subseteq q.reverse_shells
           /\ r.root_dotfiles_readable \subseteq q.root_dotfiles_readable
           /\ r.root_equivalent_groups \subseteq q.root_equivalent_groups
           /\ r.secret_hygiene \subseteq q.secret_hygiene
           /\ r.setuid_files \subseteq q.setuid_files
           /\ r.ssh_private_key_readable \subseteq q.ssh_private_key_readable
           /\ r.sshd_directives \subseteq q.sshd_directives
           /\ r.ssl_certificates \subseteq q.ssl_certificates
           /\ r.sudo_nopasswd_entries \subseteq q.sudo_nopasswd_entries
           /\ r.sudoers_nopasswd_all \subseteq q.sudoers_nopasswd_all
           /\ r.suspicious_processes \subseteq q.suspicious_processes
           /\ r.sysctl_issues \subseteq q.sysctl_issues
           /\ r.system_accounts_with_shell \subseteq q.system_accounts_with_shell
           /\ r.systemd_hardening \subseteq q.systemd_hardening
           /\ r.weak_password_hashes \subseteq q.weak_password_hashes
           /\ r.firewall_bypass \subseteq q.firewall_bypass
<1>1. {"attribution_degraded", "backup_tools", "core_pattern", "firewall_active", "at",
       "kubelet", "live_tracer", "lockdown_none", "ntp_synchronized", "oom_kills",
       "password_auth", "provenance", "root_login", "runtime_active", "security_updates",
       "selinux_permissive", "sudoers_mode"} \subseteq (Fields \ ListFields) \cup {"backup_tools", "at"}
  BY DEF Fields, ListFields, DefaultScalars
<1>2. {"authorized_keys_writable", "capability_audit", "complain_profiles", "containers",
       "cpu_vulnerabilities", "critical_cron", "duplicate_uid_zero", "ebpf_progs",
       "empty_password_users", "exec_start", "failed_services", "file_capabilities",
       "file_permission_issues", "ftrace_hooks", "generators", "ghost_pids",
       "hidden_modules", "kernel_taint", "keys", "ld_so_conf_injections",
       "library_injections", "listening_ports", "mount_masking", "pam_injections",
       "preload_injections", "reverse_shells", "root_dotfiles_readable",
       "root_equivalent_groups", "secret_hygiene", "setuid_files",
       "ssh_private_key_readable", "sshd_directives", "ssl_certificates",
       "sudo_nopasswd_entries", "sudoers_nopasswd_all", "suspicious_processes",
       "sysctl_issues", "system_accounts_with_shell", "systemd_hardening",
       "weak_password_hashes"} \subseteq ListFields \ {"backup_tools"}
  BY DEF ListFields
<1> QED BY <1>1, <1>2 DEF Worse

(* Within the live findings of a report, id and of tell every finding apart: a rule has its
   own ids (Home names it by one of them), and at most one live finding for each. *)
Home(id) ==
    CASE id \in {"SEC-013", "SEC-030", "SEC-031"} -> "SEC-013"
      [] id \in {"SEC-024", "SEC-025"} -> "SEC-024"
      [] id \in {"SEC-014", "SEC-059", "SEC-058"} -> "SEC-014"
      [] id \in {"SEC-034", "SEC-036"} -> "SEC-034"
      [] id \in {"SEC-042", "SEC-049", "SEC-050"} -> "SEC-042"
      [] id \in {"SEC-052", "SEC-053", "SEC-054"} -> "SEC-052"
      [] id \in {"SEC-055", "SEC-056", "SEC-057"} -> "SEC-055"
      [] id \in {"DOCK-001", "DOCK-002", "DOCK-003", "DOCK-004"} -> "DOCK-001"
      [] id \in {"SEC-065", "SEC-066"} -> "SEC-065"
      [] id \in {"SEC-074", "SEC-075", "SEC-076"} -> "SEC-074"
      [] id \in {"DOCK-005", "DOCK-006"} -> "DOCK-005"
      [] id \in {"DOCK-007", "DOCK-008", "DOCK-009"} -> "DOCK-007"
      [] OTHER -> id
Keyed(D, rep) ==
    /\ \A f \in D : Home(f.id) = rep
    /\ \A f, g \in live(D) : f.id = g.id /\ f.of = g.of => f = g

(* A rule that finds something in the lighter report finds it in the heavier one. *)
Heavier(D, E) ==
    \A f \in live(D) : \E g \in live(E) :
        g.id = f.id /\ g.of = f.of /\ g.category = f.category /\ g.weight >= f.weight

(* Heavier, rule by rule. *)
LEMMA HeavierUnion ==
    ASSUME NEW A, NEW B, NEW C, NEW D, Heavier(A, B), Heavier(C, D)
    PROVE  Heavier(A \cup C, B \cup D)
BY DEF Heavier, live

(* What is not live weighs nothing. *)
LEMMA HeavierEmpty ==
    /\ \A E : Heavier({}, E)
    /\ \A id, src, E : Heavier(Info(id, src), E)
BY DEF Heavier, live, Info, Listed, Finding

(* The same finding with a greater weight. *)
LEMMA HeavierFinding ==
    ASSUME NEW id, NEW src, NEW v \in Nat, NEW w \in Nat, v <= w
    PROVE  Heavier(Sec(id, src, v), Sec(id, src, w))
<1> DEFINE f == Finding(id, src, "security", v)
           g == Finding(id, src, "security", w)
<1>1. /\ f.id = g.id /\ f.of = g.of /\ f.category = g.category
      /\ f.weight = v /\ g.weight = w /\ g.suppressed = "none"
  BY DEF Finding
<1>2. Sec(id, src, v) = {f} /\ Sec(id, src, w) = {g}
  BY DEF Sec
<1> HIDE DEF f, g
<1>3. \A x \in live({f}) : x = f
  BY DEF live
<1>4. g \in live({g})
  BY <1>1 DEF live
<1> QED BY <1>1, <1>2, <1>3, <1>4 DEF Heavier

(* The greatest of more weights is no smaller. *)
LEMMA MaxMonotone ==
    ASSUME NEW B, B \subseteq 0 .. 60, NEW A, A \subseteq B, A # {}
    PROVE  Max(A) \in Nat /\ Max(B) \in Nat /\ Max(A) <= Max(B)
<1>1. A \in SUBSET (0 .. 60) /\ B \in SUBSET (0 .. 60) /\ B # {}
  OBVIOUS
<1>2. Max(A) \in A /\ Max(B) \in B /\ \A y \in B : y <= Max(B)
  BY <1>1, MaxFacts
<1>3. Max(A) \in B
  BY <1>2
<1>4. \A y \in B : y \in Nat
  OBVIOUS
<1> QED BY <1>2, <1>3, <1>4

(* A live finding is known by its id and what it is about: no rule adds the same one twice. *)
LEMMA KeyedRules ==
    ASSUME NEW r
    PROVE  \A f, g \in live(OtherFindings(r)) : f.id = g.id /\ f.of = g.of => f = g
<1> USE DEF Home, Keyed, live, When, Sec, Info, Rel, Listed, Finding
<1>1. Keyed(SEC_001(r), "SEC-001")
  BY DEF SEC_001
<1>2. Keyed(SEC_002(r), "SEC-002")
  BY DEF SEC_002
<1>3. Keyed(SEC_003(r), "SEC-003")
  BY DEF SEC_003
<1>4. Keyed(SEC_004(r), "SEC-004")
  BY DEF SEC_004
<1>5. Keyed(SEC_006(r), "SEC-006")
  BY DEF SEC_006
<1>6. Keyed(SEC_007(r), "SEC-007")
  <2> DEFINE F(k) == [Finding("SEC-007", "security", "security", RISK_SYSCTL_PER_ISSUE) EXCEPT
                        !.of = k,
                        !.suppressed = IF k = "ip_forward" /\ (r.runtime_active \/ r.kubelet)
                                       THEN "scanner" ELSE "none"]
  <2>1. SEC_007(r) = {F(i.k) : i \in r.sysctl_issues}
    BY DEF SEC_007
  <2>2. \A k : F(k).id = "SEC-007" /\ F(k).of = k
    OBVIOUS
  <2> HIDE DEF F
  <2> QED BY <2>1, <2>2
<1>7. Keyed(SEC_008(r), "SEC-008")
  BY DEF SEC_008
<1>8. Keyed(SEC_009(r), "SEC-009")
  BY DEF SEC_009
<1>9. Keyed(SEC_011(r), "SEC-011")
  BY DEF SEC_011
<1>10. Keyed(SEC_062(r), "SEC-062")
  BY DEF SEC_062
<1>11. Keyed(SEC_063(r), "SEC-063")
  BY DEF SEC_063
<1>12. Keyed(SEC_013_030_031(r), "SEC-013")
  BY DEF SEC_013_030_031
<1>13. Keyed(SEC_015(r), "SEC-015")
  BY DEF SEC_015
<1>14. Keyed(SEC_016(r), "SEC-016")
  BY DEF SEC_016
<1>15. Keyed(SEC_017(r), "SEC-017")
  BY DEF SEC_017
<1>16. Keyed(SEC_032(r), "SEC-032")
  BY DEF SEC_032
<1>17. Keyed(SEC_019(r), "SEC-019")
  BY DEF SEC_019
<1>18. Keyed(SEC_020(r), "SEC-020")
  BY DEF SEC_020
<1>19. Keyed(SEC_021(r), "SEC-021")
  BY DEF SEC_021
<1>20. Keyed(SEC_022(r), "SEC-022")
  BY DEF SEC_022
<1>21. Keyed(SEC_023(r), "SEC-023")
  BY DEF SEC_023
<1>22. Keyed(SEC_028(r), "SEC-028")
  BY DEF SEC_028
<1>23. Keyed(SEC_026(r), "SEC-026")
  BY DEF SEC_026
<1>24. Keyed(SEC_029(r), "SEC-029")
  BY DEF SEC_029
<1>25. Keyed(SEC_033(r), "SEC-033")
  BY DEF SEC_033
<1>26. Keyed(SEC_027(r), "SEC-027")
  BY DEF SEC_027
<1>27. Keyed(SEC_024_025(r), "SEC-024")
  BY DEF SEC_024_025
<1>28. Keyed(SEC_014_059_058(r), "SEC-014")
  BY DEF SEC_014_059_058
<1>29. Keyed(CAP_001(r), "CAP-001")
  BY DEF CAP_001
<1>30. Keyed(CAP_002(r), "CAP-002")
  <2> DEFINE W == {ambient_escalation_weight(c.ambient) :
                     c \in {d \in r.capability_audit : d.reason = "AmbientCapsNoNewPrivs"}}
             w == Max(W \ {0})
  <2>1. CAP_002(r) = When(W \ {0} # {}, Sec("CAP-002", "security", w))
                       \cup When(0 \in W, Info("CAP-002", "security"))
    BY DEF CAP_002
  <2> HIDE DEF W, w
  <2> QED BY <2>1
<1>31. Keyed(SEC_034_036(r), "SEC-034")
  BY DEF SEC_034_036
<1>32. Keyed(SEC_037(r), "SEC-037")
  BY DEF SEC_037
<1>33. Keyed(SEC_035(r), "SEC-035")
  BY DEF SEC_035
<1>34. Keyed(SEC_038(r), "SEC-038")
  BY DEF SEC_038
<1>35. Keyed(SEC_060(r), "SEC-060")
  BY DEF SEC_060
<1>36. Keyed(SEC_039(r), "SEC-039")
  BY DEF SEC_039
<1>37. Keyed(SEC_040(r), "SEC-040")
  BY DEF SEC_040
<1>38. Keyed(SEC_041(r), "SEC-041")
  BY DEF SEC_041
<1>39. Keyed(SEC_042_049_050(r), "SEC-042")
  BY DEF SEC_042_049_050
<1>40. Keyed(SEC_051(r), "SEC-051")
  BY DEF SEC_051
<1>41. Keyed(SEC_052_053_054(r), "SEC-052")
  BY DEF SEC_052_053_054
<1>42. Keyed(SEC_055_056_057(r), "SEC-055")
  BY DEF SEC_055_056_057
<1>43. Keyed(SEC_043(r), "SEC-043")
  BY DEF SEC_043
<1>44. Keyed(SEC_047(r), "SEC-047")
  BY DEF SEC_047
<1>45. Keyed(SEC_048(r), "SEC-048")
  BY DEF SEC_048
<1>46. Keyed(SEC_046(r), "SEC-046")
  BY DEF SEC_046
<1>47. Keyed(SEC_045(r), "SEC-045")
  BY DEF SEC_045
<1>48. Keyed(SEC_044(r), "SEC-044")
  BY DEF SEC_044
<1>49. Keyed(SEC_018(r), "SEC-018")
  BY DEF SEC_018
<1>50. Keyed(DOCK_001_004(r), "DOCK-001")
  BY DEF DOCK_001_004
<1>51. Keyed(DOCK_010(r), "DOCK-010")
  BY DEF DOCK_010
<1>52. Keyed(SEC_065_066(r), "SEC-065")
  BY DEF SEC_065_066
<1>53. Keyed(SEC_070(r), "SEC-070")
  BY DEF SEC_070
<1>54. Keyed(SEC_071(r), "SEC-071")
  BY DEF SEC_071
<1>55. Keyed(SEC_072(r), "SEC-072")
  BY DEF SEC_072
<1>56. Keyed(SEC_073(r), "SEC-073")
  BY DEF SEC_073
<1>57. Keyed(SEC_074_075_076(r), "SEC-074")
  BY DEF SEC_074_075_076
<1>58. Keyed(SEC_077(r), "SEC-077")
  BY DEF SEC_077
<1>59. Keyed(SEC_078(r), "SEC-078")
  BY DEF SEC_078
<1>60. Keyed(SEC_079(r), "SEC-079")
  BY DEF SEC_079
<1>61. Keyed(SEC_081(r), "SEC-081")
  BY DEF SEC_081
<1>62. Keyed(DOCK_005_006(r), "DOCK-005")
  BY DEF DOCK_005_006
<1>63. Keyed(DOCK_007_008_009(r), "DOCK-007")
  BY DEF DOCK_007_008_009
<1>64. Keyed(REL_001(r), "REL-001")
  BY DEF REL_001
<1>65. Keyed(REL_002(r), "REL-002")
  BY DEF REL_002
<1>66. Keyed(REL_003(r), "REL-003")
  BY DEF REL_003
<1>67. Keyed(HYG_001(r), "HYG-001")
  BY DEF HYG_001
<1> HIDE DEF Home, When, Sec, Info, Rel, Listed, Finding
<1> QED BY <1>1, <1>2, <1>3, <1>4, <1>5, <1>6, <1>7, <1>8, <1>9, <1>10, <1>11, <1>12, <1>13, <1>14,
             <1>15, <1>16, <1>17, <1>18, <1>19, <1>20, <1>21, <1>22, <1>23, <1>24, <1>25,
             <1>26, <1>27, <1>28, <1>29, <1>30, <1>31, <1>32, <1>33, <1>34, <1>35, <1>36,
             <1>37, <1>38, <1>39, <1>40, <1>41, <1>42, <1>43, <1>44, <1>45, <1>46, <1>47,
             <1>48, <1>49, <1>50, <1>51, <1>52, <1>53, <1>54, <1>55, <1>56, <1>57, <1>58,
             <1>59, <1>60, <1>61, <1>62, <1>63, <1>64, <1>65, <1>66, <1>67,
           SMTT(60) DEF OtherFindings, Rules1, Rules2, Rules3, Rules4, Rules5, Rules6, Rules7, Rules8

(* With more in the lists, every rule outside the class finds at least as much: the rules
   that give way to another one (memory buckets, SEC-038, SEC-041) give way to a heavier one. *)
LEMMA HeavierRules ==
    ASSUME NEW r, NEW q, Worse(r, q)
    PROVE  Heavier(OtherFindings(r), OtherFindings(q))
<1> USE WorseFields
<1>1. Heavier(SEC_001(r), SEC_001(q))
  BY DEF SEC_001, RISK_NO_FIREWALL, Heavier, live, When, Finding, Sec
<1>2. Heavier(SEC_002(r), SEC_002(q))
  BY DEF SEC_002, RISK_SSH_ROOT_LOGIN, Heavier, live, When, Finding, Sec
<1>3. Heavier(SEC_003(r), SEC_003(q))
  BY DEF SEC_003, RISK_SECURITY_UPDATES, Heavier, live, When, Finding, Sec
<1>4. Heavier(SEC_004(r), SEC_004(q))
  BY DEF SEC_004, RISK_CRITICAL_SSL_MAX, Heavier, live, When, Finding, Sec
<1>5. Heavier(SEC_006(r), SEC_006(q))
  BY DEF SEC_006, RISK_SUDOERS_MODE, Heavier, live, When, Finding, Sec
<1>6. Heavier(SEC_007(r), SEC_007(q))
  <2> DEFINE F(k, ra, ku) ==
        [Finding("SEC-007", "security", "security", RISK_SYSCTL_PER_ISSUE) EXCEPT
           !.of = k,
           !.suppressed = IF k = "ip_forward" /\ (ra \/ ku) THEN "scanner" ELSE "none"]
  <2>c. \A x : SEC_007(x) = {F(i.k, x.runtime_active, x.kubelet) : i \in x.sysctl_issues}
    BY Zenon DEF SEC_007
  <2>b. \A k, ra, ku : F(k, ra, ku).weight = 5
    BY DEF Finding, RISK_SYSCTL_PER_ISSUE
  <2> HIDE DEF F
  <2>a. /\ SEC_007(r) = {F(i.k, r.runtime_active, r.kubelet) : i \in r.sysctl_issues}
        /\ SEC_007(q) = {F(i.k, r.runtime_active, r.kubelet) : i \in q.sysctl_issues}
    BY <2>c
  <2>1. SEC_007(r) \subseteq SEC_007(q)
    BY <2>a
  <2>2. \A f \in SEC_007(r) : f.weight = 5
    BY <2>a, <2>b
  <2> QED BY <2>1, <2>2 DEF Heavier, live
<1>7. Heavier(SEC_008(r), SEC_008(q))
  BY DEF SEC_008, RISK_SSH_PASSWORD_AUTH, Heavier, live, When, Finding, Sec
<1>8. Heavier(SEC_009(r), SEC_009(q))
  BY DEF SEC_009, Heavier, live, When, Finding, Sec
<1>9. Heavier(SEC_011(r), SEC_011(q))
  BY DEF SEC_011, Heavier, live, When, Finding, Sec
<1>10. Heavier(SEC_062(r), SEC_062(q))
  BY DEF SEC_062, Heavier, live, When, Finding, Sec, Info, Listed
<1>11. Heavier(SEC_063(r), SEC_063(q))
  BY DEF SEC_063, Heavier, live, When, Finding, Sec, Info, Listed
<1>12. Heavier(SEC_013_030_031(r), SEC_013_030_031(q))
  BY DEF SEC_013_030_031, tiers, Heavier, live, When, Finding, Sec, Info, Listed
<1>13. Heavier(SEC_015(r), SEC_015(q))
  BY DEF SEC_015, critical_caps_of, Heavier, live, When, Finding, Sec
<1>14. Heavier(SEC_016(r), SEC_016(q))
  BY DEF SEC_016, Heavier, live, When, Finding, Sec
<1>15. Heavier(SEC_017(r), SEC_017(q))
  BY DEF SEC_017, fileless, Heavier, live, When, Finding, Sec
<1>16. Heavier(SEC_032(r), SEC_032(q))
  BY DEF SEC_032, Heavier, live, When, Finding, Info, Listed
<1>17. Heavier(SEC_019(r), SEC_019(q))
  BY DEF SEC_019, critical_caps_of, fileless, Heavier, live, When, Finding, Sec
<1>18. Heavier(SEC_020(r), SEC_020(q))
  BY DEF SEC_020, Heavier, live, When, Finding, Sec
<1>19. Heavier(SEC_021(r), SEC_021(q))
  BY DEF SEC_021, Heavier, live, When, Finding, Sec
<1>20. Heavier(SEC_022(r), SEC_022(q))
  BY DEF SEC_022, Heavier, live, When, Finding, Sec
<1>21. Heavier(SEC_023(r), SEC_023(q))
  BY DEF SEC_023, in_bucket, mem_bucket, process_behavior_clean, Heavier, live, When, Finding, Sec
<1>22. Heavier(SEC_028(r), SEC_028(q))
  BY DEF SEC_028, in_bucket, mem_bucket, process_behavior_clean, Heavier, live, When, Finding, Sec
<1>23. Heavier(SEC_026(r), SEC_026(q))
  <2> DEFINE deep(x) == \E f \in memory_anomalies(x) :
                           f.source \in {"maps-exec-stack", "maps-exec-heap", "maps-anon-rwx"}
             w(x) == IF deep(x) THEN 20 ELSE 10
  <2>1. \A f \in r.library_injections :
           mem_bucket(f, r) = "Anomaly" => mem_bucket(f, q) = "Anomaly"
    BY WorseFields DEF mem_bucket, process_behavior_clean
  <2>2. memory_anomalies(r) \subseteq memory_anomalies(q)
    BY <2>1, WorseFields DEF memory_anomalies, in_bucket
  <2>3. w(r) \in Nat /\ w(q) \in Nat /\ w(r) <= w(q)
    BY <2>2
  <2>4. Heavier(Sec("SEC-026", "security", w(r)), Sec("SEC-026", "security", w(q)))
    BY <2>3, HeavierFinding
  <2> QED BY <2>2, <2>4, HeavierEmpty DEF SEC_026, When
<1>24. Heavier(SEC_029(r), SEC_029(q))
  BY
    DEF SEC_029, provisional_regions, in_bucket, mem_bucket, process_behavior_clean, Heavier,
        live, When, Finding, Info, Listed
<1>25. Heavier(SEC_033(r), SEC_033(q))
  BY
    DEF SEC_033, in_bucket, mem_bucket, process_behavior_clean, Heavier, live, When, Finding,
        Info, Listed
<1>26. Heavier(SEC_027(r), SEC_027(q))
  BY
    DEF SEC_027, in_bucket, mem_bucket, process_behavior_clean, Heavier, live, When, Finding,
        Info, Listed
<1>27. Heavier(SEC_024_025(r), SEC_024_025(q))
  BY DEF SEC_024_025, Heavier, live, When, Finding, Sec
<1>28. Heavier(SEC_014_059_058(r), SEC_014_059_058(q))
  BY DEF SEC_014_059_058, Heavier, live, When, Finding, Sec, Info, Listed
<1>29. Heavier(CAP_001(r), CAP_001(q))
  <2> DEFINE caps(x) == {c \in x.capability_audit : c.critical}
             w(x) == IF \E c \in caps(x), p \in x.listening_ports :
                            p.pid = c.pid /\ p.bind = "wildcard"
                     THEN 20 ELSE 8
  <2>1. caps(r) \subseteq caps(q)
    BY WorseFields
  <2>2. w(r) \in Nat /\ w(q) \in Nat /\ w(r) <= w(q)
    BY <2>1, WorseFields
  <2>3. Heavier(Sec("CAP-001", "security", w(r)), Sec("CAP-001", "security", w(q)))
    BY <2>2, HeavierFinding
  <2> QED BY <2>1, <2>3, HeavierEmpty DEF CAP_001, When
<1>30. Heavier(CAP_002(r), CAP_002(q))
  <2> DEFINE W(x) == {ambient_escalation_weight(c.ambient) :
                        c \in {d \in x.capability_audit : d.reason = "AmbientCapsNoNewPrivs"}}
             A(x) == W(x) \ {0}
  <2>1. A(r) \subseteq A(q) /\ A(q) \subseteq 0 .. 60
    BY WorseFields DEF ambient_escalation_weight
  <2>2. A(r) # {} => Heavier(Sec("CAP-002", "security", Max(A(r))),
                            Sec("CAP-002", "security", Max(A(q))))
    BY <2>1, MaxMonotone, HeavierFinding
  <2>3. Heavier(When(A(r) # {}, Sec("CAP-002", "security", Max(A(r)))),
                When(A(q) # {}, Sec("CAP-002", "security", Max(A(q)))))
    BY <2>1, <2>2, HeavierEmpty DEF When
  <2>4. Heavier(When(0 \in W(r), Info("CAP-002", "security")),
                When(0 \in W(q), Info("CAP-002", "security")))
    BY HeavierEmpty DEF When
  <2> QED BY <2>3, <2>4, HeavierUnion DEF CAP_002
<1>31. Heavier(SEC_034_036(r), SEC_034_036(q))
  <2> DEFINE W(x) == {classify_cap_binary(f, x) : f \in x.file_capabilities}
             A(x) == W(x) \ {0}
  <2>1. \A f : classify_cap_binary(f, r) = classify_cap_binary(f, q)
    BY WorseFields DEF classify_cap_binary, attributable
  <2>2. \A f : classify_cap_binary(f, q) \in 0 .. 60
    BY DEF classify_cap_binary
  <2>3. A(r) \subseteq A(q) /\ A(q) \subseteq 0 .. 60
    BY <2>1, <2>2, WorseFields
  <2>4. A(r) # {} => Heavier(Sec("SEC-036", "security", Max(A(r))),
                            Sec("SEC-036", "security", Max(A(q))))
    BY <2>3, MaxMonotone, HeavierFinding
  <2>5. Heavier(When(A(r) # {}, Sec("SEC-036", "security", Max(A(r)))),
                When(A(q) # {}, Sec("SEC-036", "security", Max(A(q)))))
    BY <2>3, <2>4, HeavierEmpty DEF When
  <2>6. Heavier(When(0 \in W(r), Info("SEC-034", "security")),
                When(0 \in W(q), Info("SEC-034", "security")))
    BY HeavierEmpty DEF When
  <2> QED BY <2>5, <2>6, HeavierUnion DEF SEC_034_036
<1>32. Heavier(SEC_037(r), SEC_037(q))
  <2> DEFINE W(x) == {classify_setuid(f, x) : f \in x.setuid_files}
             A(x) == W(x) \ {0}
  <2>1. \A f : classify_setuid(f, r) = classify_setuid(f, q)
    BY WorseFields DEF classify_setuid, attributable
  <2>2. \A f : classify_setuid(f, q) \in 0 .. 60
    BY DEF classify_setuid
  <2>3. A(r) \subseteq A(q) /\ A(q) \subseteq 0 .. 60
    BY <2>1, <2>2, WorseFields
  <2>4. A(r) # {} => Heavier(Sec("SEC-037", "security", Max(A(r))),
                            Sec("SEC-037", "security", Max(A(q))))
    BY <2>3, MaxMonotone, HeavierFinding
  <2>5. Heavier(When(A(r) # {}, Sec("SEC-037", "security", Max(A(r)))),
                When(A(q) # {}, Sec("SEC-037", "security", Max(A(q)))))
    BY <2>3, <2>4, HeavierEmpty DEF When
  <2>6. Heavier(When(0 \in W(r), Info("SEC-037", "security")),
                When(0 \in W(q), Info("SEC-037", "security")))
    BY HeavierEmpty DEF When
  <2> QED BY <2>5, <2>6, HeavierUnion DEF SEC_037
<1>33. Heavier(SEC_035(r), SEC_035(q))
  BY DEF SEC_035, Heavier, live, When, Finding, Info, Listed
<1>34. Heavier(SEC_038(r), SEC_038(q))
  <2>1. /\ Heavier(Sec("SEC-038", "security", 25), Sec("SEC-038", "security", 25))
        /\ Heavier(Sec("SEC-038", "security", 10), Sec("SEC-038", "security", 25))
        /\ Heavier(Sec("SEC-038", "security", 10), Sec("SEC-038", "security", 10))
    BY HeavierFinding
  <2> QED BY <2>1, WorseFields, HeavierEmpty DEF SEC_038, When
<1>35. Heavier(SEC_060(r), SEC_060(q))
  BY DEF SEC_060, Heavier, live, When, Finding, Info, Listed
<1>36. Heavier(SEC_039(r), SEC_039(q))
  BY DEF SEC_039, Heavier, live, When, Finding, Sec, Info, Listed
<1>37. Heavier(SEC_040(r), SEC_040(q))
  BY DEF SEC_040, Heavier, live, When, Finding, Sec
<1>38. Heavier(SEC_041(r), SEC_041(q))
  <2>1. /\ Heavier(Sec("SEC-041", "security", 55), Sec("SEC-041", "security", 55))
        /\ Heavier(Sec("SEC-041", "security", 30), Sec("SEC-041", "security", 55))
        /\ Heavier(Sec("SEC-041", "security", 30), Sec("SEC-041", "security", 30))
    BY HeavierFinding
  <2> QED BY <2>1, WorseFields, HeavierEmpty DEF SEC_041, When
<1>39. Heavier(SEC_042_049_050(r), SEC_042_049_050(q))
  <2> DEFINE with(x, id) == {f \in x.preload_injections : preload_id(f, x) = id}
             w(x) == IF \E f \in with(x, "SEC-042") : f.volatile THEN 60 ELSE 55
  <2>1. \A f : preload_id(f, r) = preload_id(f, q)
    BY WorseFields DEF preload_id
  <2>2. \A id : with(r, id) \subseteq with(q, id)
    BY <2>1, WorseFields
  <2>3. w(r) \in Nat /\ w(q) \in Nat /\ w(r) <= w(q)
    BY <2>2
  <2>4. /\ Heavier(Sec("SEC-042", "persistence", w(r)), Sec("SEC-042", "persistence", w(q)))
        /\ Heavier(Sec("SEC-049", "persistence", 20), Sec("SEC-049", "persistence", 20))
        /\ Heavier(Sec("SEC-050", "persistence", 30), Sec("SEC-050", "persistence", 30))
    BY <2>3, HeavierFinding
  <2>5. /\ Heavier(When(with(r, "SEC-042") # {}, Sec("SEC-042", "persistence", w(r))),
                   When(with(q, "SEC-042") # {}, Sec("SEC-042", "persistence", w(q))))
        /\ Heavier(When(with(r, "SEC-049") # {}, Sec("SEC-049", "persistence", 20)),
                   When(with(q, "SEC-049") # {}, Sec("SEC-049", "persistence", 20)))
        /\ Heavier(When(with(r, "SEC-050") # {}, Sec("SEC-050", "persistence", 30)),
                   When(with(q, "SEC-050") # {}, Sec("SEC-050", "persistence", 30)))
    BY <2>2, <2>4, HeavierEmpty DEF When
  <2> DEFINE A(x) == When(with(x, "SEC-042") # {}, Sec("SEC-042", "persistence", w(x)))
             B(x) == When(with(x, "SEC-049") # {}, Sec("SEC-049", "persistence", 20))
             C(x) == When(with(x, "SEC-050") # {}, Sec("SEC-050", "persistence", 30))
  <2>6. \A x : SEC_042_049_050(x) = (A(x) \cup B(x)) \cup C(x)
    BY DEF SEC_042_049_050
  <2> HIDE DEF A, B, C
  <2>7. Heavier((A(r) \cup B(r)) \cup C(r), (A(q) \cup B(q)) \cup C(q))
    <3>1. Heavier(A(r), A(q)) /\ Heavier(B(r), B(q)) /\ Heavier(C(r), C(q))
      BY <2>5 DEF A, B, C
    <3> QED BY <3>1, HeavierUnion
  <2> QED BY <2>6, <2>7
<1>40. Heavier(SEC_051(r), SEC_051(q))
  BY DEF SEC_051, Heavier, live, When, Finding, Sec
<1>41. Heavier(SEC_052_053_054(r), SEC_052_053_054(q))
  BY DEF SEC_052_053_054, classify_generator, Heavier, live, When, Finding, Sec
<1>42. Heavier(SEC_055_056_057(r), SEC_055_056_057(q))
  BY DEF SEC_055_056_057, Heavier, live, When, Finding, Sec
<1>43. Heavier(SEC_043(r), SEC_043(q))
  BY DEF SEC_043, Heavier, live, When, Finding, Sec
<1>44. Heavier(SEC_047(r), SEC_047(q))
  BY DEF SEC_047, Heavier, live, When, Finding, Info, Listed
<1>45. Heavier(SEC_048(r), SEC_048(q))
  BY DEF SEC_048, Heavier, live, When, Finding, Sec, Info, Listed
<1>46. Heavier(SEC_046(r), SEC_046(q))
  BY DEF SEC_046, Heavier, live, When, Finding, Sec
<1>47. Heavier(SEC_045(r), SEC_045(q))
  BY DEF SEC_045, Heavier, live, When, Finding, Info, Listed
<1>48. Heavier(SEC_044(r), SEC_044(q))
  BY DEF SEC_044, Heavier, live, When, Finding, Sec, Info, Listed
<1>49. Heavier(SEC_018(r), SEC_018(q))
  BY DEF SEC_018, Heavier, live, When, Finding, Sec
<1>50. Heavier(DOCK_001_004(r), DOCK_001_004(q))
  BY DEF DOCK_001_004, Heavier, live, When, Finding, Sec
<1>51. Heavier(DOCK_010(r), DOCK_010(q))
  BY DEF DOCK_010, Heavier, live, When, Finding, Sec
<1>52. Heavier(SEC_065_066(r), SEC_065_066(q))
  <2> DEFINE behind(x) == {b \in x.firewall_bypass : b.firewall_was_active}
             open(x) == x.firewall_bypass \ behind(x)
             v(x) == IF \E b \in behind(x) : b.sensitive THEN 35 ELSE 20
             w(x) == IF \E b \in open(x) : b.sensitive THEN 25 ELSE 15
  <2>1. behind(r) \subseteq behind(q) /\ open(r) \subseteq open(q)
    BY DEF Worse
  <2>2. /\ v(r) \in Nat /\ v(q) \in Nat /\ v(r) <= v(q)
        /\ w(r) \in Nat /\ w(q) \in Nat /\ w(r) <= w(q)
    BY <2>1
  <2>3. /\ Heavier(Sec("SEC-065", "network", v(r)), Sec("SEC-065", "network", v(q)))
        /\ Heavier(Sec("SEC-066", "network", w(r)), Sec("SEC-066", "network", w(q)))
    BY <2>2, HeavierFinding
  <2>4. /\ Heavier(When(behind(r) # {}, Sec("SEC-065", "network", v(r))),
                   When(behind(q) # {}, Sec("SEC-065", "network", v(q))))
        /\ Heavier(When(open(r) # {}, Sec("SEC-066", "network", w(r))),
                   When(open(q) # {}, Sec("SEC-066", "network", w(q))))
    BY <2>1, <2>3, HeavierEmpty DEF When
  <2> QED BY <2>4, HeavierUnion DEF SEC_065_066
<1>53. Heavier(SEC_070(r), SEC_070(q))
  <2> DEFINE w(x) == IF \E h \in x.weak_password_hashes : h.hash \in {"DES", "$1$"} THEN 20 ELSE 10
  <2>1. w(r) \in Nat /\ w(q) \in Nat /\ w(r) <= w(q)
    BY WorseFields
  <2>2. Heavier(Sec("SEC-070", "security", w(r)), Sec("SEC-070", "security", w(q)))
    BY <2>1, HeavierFinding
  <2> QED BY <2>2, WorseFields, HeavierEmpty DEF SEC_070, When
<1>54. Heavier(SEC_071(r), SEC_071(q))
  BY DEF SEC_071, Heavier, live, When, Finding, Sec
<1>55. Heavier(SEC_072(r), SEC_072(q))
  BY DEF SEC_072, Heavier, live, When, Finding, Sec
<1>56. Heavier(SEC_073(r), SEC_073(q))
  BY DEF SEC_073, Heavier, live, When, Finding, Sec
<1>57. Heavier(SEC_074_075_076(r), SEC_074_075_076(q))
  BY DEF SEC_074_075_076, Heavier, live, When, Finding, Sec
<1>58. Heavier(SEC_077(r), SEC_077(q))
  BY DEF SEC_077, Heavier, live, When, Finding, Sec
<1>59. Heavier(SEC_078(r), SEC_078(q))
  BY DEF SEC_078, Heavier, live, When, Finding, Sec
<1>60. Heavier(SEC_079(r), SEC_079(q))
  BY DEF SEC_079, Heavier, live, When, Finding, Sec
<1>61. Heavier(SEC_081(r), SEC_081(q))
  BY DEF SEC_081, Heavier, live, When, Finding, Sec
<1>62. Heavier(DOCK_005_006(r), DOCK_005_006(q))
  BY DEF DOCK_005_006, Heavier, live, When, Finding, Sec
<1>63. Heavier(DOCK_007_008_009(r), DOCK_007_008_009(q))
  BY DEF DOCK_007_008_009, Heavier, live, When, Finding, Rel
<1>64. Heavier(REL_001(r), REL_001(q))
  BY DEF REL_001, Heavier, live, When, Finding, Rel
<1>65. Heavier(REL_002(r), REL_002(q))
  BY DEF REL_002, Heavier, live, When, Finding, Rel
<1>66. Heavier(REL_003(r), REL_003(q))
  BY DEF REL_003, Heavier, live, When, Finding, Rel
<1>67. Heavier(HYG_001(r), HYG_001(q))
  BY DEF HYG_001, Heavier, live, When, Finding
<1>68. Heavier(Rules1(r), Rules1(q))
  BY <1>1, <1>2, <1>3, <1>4, <1>5, <1>6, <1>7, <1>8, <1>9 DEF Rules1, Heavier, live
<1>69. Heavier(Rules2(r), Rules2(q))
  BY <1>10, <1>11, <1>12, <1>13, <1>14, <1>15, <1>16, <1>17, <1>18 DEF Rules2, Heavier, live
<1>70. Heavier(Rules3(r), Rules3(q))
  BY <1>19, <1>20, <1>21, <1>22, <1>23, <1>24, <1>25, <1>26, <1>27 DEF Rules3, Heavier, live
<1>71. Heavier(Rules4(r), Rules4(q))
  BY <1>28, <1>29, <1>30, <1>31, <1>32, <1>33, <1>34, <1>35, <1>36 DEF Rules4, Heavier, live
<1>72. Heavier(Rules5(r), Rules5(q))
  BY <1>37, <1>38, <1>39, <1>40, <1>41, <1>42, <1>43, <1>44, <1>45 DEF Rules5, Heavier, live
<1>73. Heavier(Rules6(r), Rules6(q))
  BY <1>46, <1>47, <1>48, <1>49, <1>50, <1>51, <1>52, <1>53, <1>54 DEF Rules6, Heavier, live
<1>74. Heavier(Rules7(r), Rules7(q))
  BY <1>55, <1>56, <1>57, <1>58, <1>59, <1>60, <1>61, <1>62, <1>63 DEF Rules7, Heavier, live
<1>75. Heavier(Rules8(r), Rules8(q))
  BY <1>64, <1>65, <1>66, <1>67 DEF Rules8, Heavier, live
<1> QED BY <1>68, <1>69, <1>70, <1>71, <1>72, <1>73, <1>74, <1>75 DEF OtherFindings, Heavier, live

-------------------------------------------------------------------------------
(* What evaluate makes of a report: what the failed scanners did not withhold, and the notes
   about them. *)
Rest(r) == {f \in OtherFindings(r) : f.source \notin r.failed_scanners}
Carrying(r) == {f \in ClassFindings(r) : f.source \notin r.failed_scanners}
Notes(r) == {[Finding("COV-001", "orchestrator", "hygiene", 0) EXCEPT !.of = s] :
                s \in r.failed_scanners}
Finite(r) == IsFiniteSet(r.sysctl_issues) /\ IsFiniteSet(r.failed_scanners)
On(S, cat) == {f \in live(S) : f.category = cat}

(* The findings of a report: the rules of the scanners that ran, and a note for each that
   did not. *)
LEMMA EvaluateSplit ==
    ASSUME NEW r
    PROVE  evaluate(r) = (Rest(r) \cup Carrying(r)) \cup Notes(r)
BY RulesSplit DEF evaluate, finding_from_failed_scanner, Rest, Carrying, Notes

(* A note for every scanner that panicked, of no weight. *)
LEMMA NotesFacts ==
    ASSUME NEW r, Finite(r)
    PROVE  /\ IsFiniteSet(Notes(r))
           /\ \A f \in Notes(r) : /\ f.id = "COV-001" /\ f.weight = 0 /\ f.suppressed = "none"
                                  /\ f.of \in r.failed_scanners
                                  /\ "suppressed" \in DOMAIN f
           /\ \A s \in r.failed_scanners : \E f \in Notes(r) : f.of = s
<1> DEFINE N(s) == [Finding("COV-001", "orchestrator", "hygiene", 0) EXCEPT !.of = s]
           note == [s \in r.failed_scanners |-> N(s)]
<1>1. \A s : /\ N(s).id = "COV-001" /\ N(s).weight = 0 /\ N(s).suppressed = "none"
             /\ N(s).of = s /\ "suppressed" \in DOMAIN N(s)
  BY DEF Finding
<1>2. Notes(r) = {N(s) : s \in r.failed_scanners}
  BY DEF Notes
<1> HIDE DEF N
<1>3. note \in Surjection(r.failed_scanners, Notes(r))
  BY <1>2 DEF Surjection
<1>4. IsFiniteSet(Notes(r))
  BY <1>3, FS_Surjection DEF Finite
<1> QED BY <1>1, <1>2, <1>4

(* Every finding says whether it is suppressed, and by what. *)
LEMMA FindingsShaped ==
    ASSUME NEW r, Finite(r)
    PROVE  \A f \in evaluate(r) : "suppressed" \in DOMAIN f
BY EvaluateSplit, NotesFacts, ClassTiers, OthersWeighed DEF Rest, Carrying, Weighed, Finite

(* Findings without weight weigh nothing. *)
LEMMA WeightZero ==
    ASSUME NEW S, Weighty(S), \A f \in S : f.weight = 0
    PROVE  Weight(S) = 0
<1> DEFINE Bad == {n \in Nat : \E s \in SUBSET S : Cardinality(s) = n /\ Weight(s) # 0}
<1>1. SUFFICES ASSUME Bad # {} PROVE FALSE
  <2>1. Cardinality(S) \in Nat /\ S \in SUBSET S
    BY SubsetFacts
  <2> QED BY <1>1, <2>1
<1>2. PICK n \in Bad : \A m \in Bad : n <= m
  BY <1>1, LeastNumber
<1>3. PICK s \in SUBSET S : Cardinality(s) = n /\ Weight(s) # 0
  BY <1>2
<1>4. Weighty(s) /\ s # {}
  BY <1>3, SubsetFacts, WeightFacts
<1>5. PICK x : x \in s
  BY <1>4
<1> DEFINE t == s \ {x}
<1>6. t \in SUBSET S /\ Cardinality(t) = n - 1 /\ n \in Nat /\ n - 1 \in Nat /\ Weighty(t)
  BY <1>3, <1>5, SubsetFacts
<1>7. Weight(s) = 0 + Weight(t) /\ Weight(t) \in Nat
  BY <1>4, <1>5, <1>6, WeightFacts
<1>8. n - 1 \in Bad
  BY <1>3, <1>6, <1>7
<1> HIDE DEF Bad
<1> QED BY <1>2, <1>6, <1>8

(* The findings that evaluate returns, and where their weights come from. *)
LEMMA PartsWeighty ==
    ASSUME NEW r, Finite(r), NEW cat
    PROVE  /\ Weighty(On(Rest(r), cat)) /\ Weighty(On(Carrying(r), cat))
           /\ Weighty(On(Notes(r), cat)) /\ Weighty(On(evaluate(r), cat))
           /\ On(evaluate(r), cat)
                = (On(Rest(r), cat) \cup On(Carrying(r), cat)) \cup On(Notes(r), cat)
           /\ On(Rest(r), cat) \cap On(Carrying(r), cat) = {}
           /\ (On(Rest(r), cat) \cup On(Carrying(r), cat)) \cap On(Notes(r), cat) = {}
<1>1. Weighed(OtherFindings(r))
  BY OthersWeighed DEF Finite
<1>2. /\ IsFiniteSet(OtherFindings(r))
      /\ \A f \in OtherFindings(r) : f.weight \in Nat /\ f.id \notin Carriers /\ f.id # "COV-001"
  BY <1>1 DEF Weighed
<1>3. Weighty(live(ClassFindings(r))) /\ \A f \in ClassFindings(r) : f.id \in Carriers
  BY ClassWeighs, ClassTiers
<1>4. IsFiniteSet(Notes(r)) /\ \A f \in Notes(r) : f.weight = 0 /\ f.id = "COV-001"
  BY NotesFacts
<1>5. /\ On(Rest(r), cat) \subseteq OtherFindings(r)
      /\ On(Carrying(r), cat) \subseteq live(ClassFindings(r))
      /\ On(Carrying(r), cat) \subseteq ClassFindings(r)
      /\ On(Notes(r), cat) \subseteq Notes(r)
  BY DEF On, live, Rest, Carrying
<1>6. Weighty(On(Rest(r), cat)) /\ Weighty(On(Carrying(r), cat)) /\ Weighty(On(Notes(r), cat))
  BY <1>2, <1>3, <1>4, <1>5, FS_Subset DEF Weighty
<1>7. On(evaluate(r), cat)
        = (On(Rest(r), cat) \cup On(Carrying(r), cat)) \cup On(Notes(r), cat)
  BY EvaluateSplit DEF On, live
<1>8. Weighty((On(Rest(r), cat) \cup On(Carrying(r), cat)) \cup On(Notes(r), cat))
  BY <1>6, FS_Union DEF Weighty
<1>9. /\ On(Rest(r), cat) \cap On(Carrying(r), cat) = {}
      /\ (On(Rest(r), cat) \cup On(Carrying(r), cat)) \cap On(Notes(r), cat) = {}
  BY <1>2, <1>3, <1>4, <1>5 DEF Carriers
<1> QED BY <1>6, <1>7, <1>8, <1>9

CarriedWeight(r, cat) ==
    IF cat = "security" /\ "security" \notin r.failed_scanners THEN ClassWeight(r) ELSE 0

(* An axis is the sum of the class and of the rest. *)
LEMMA AxisSplit ==
    ASSUME NEW r, Finite(r), NEW cat
    PROVE  /\ Weight(On(evaluate(r), cat)) = Weight(On(Rest(r), cat)) + CarriedWeight(r, cat)
           /\ Weight(On(evaluate(r), cat)) \in Nat /\ Weight(On(Rest(r), cat)) \in Nat
           /\ CarriedWeight(r, cat) \in Nat /\ ClassWeight(r) \in Nat
<1> DEFINE A == On(Rest(r), cat)
           B == On(Carrying(r), cat)
           C == On(Notes(r), cat)
<1>1. /\ Weighty(A) /\ Weighty(B) /\ Weighty(C)
      /\ On(evaluate(r), cat) = (A \cup B) \cup C /\ A \cap B = {} /\ (A \cup B) \cap C = {}
  BY PartsWeighty
<1>2. Weight(C) = 0
  <2>1. \A f \in C : f.weight = 0
    BY NotesFacts DEF On, live
  <2> HIDE DEF C
  <2> QED BY <1>1, <2>1, WeightZero
<1>3. SudoTier(r) \in Nat /\ RootTier(r) \in Nat /\ GroupTier(r) \in Nat
  BY ClassTiers
<1>4. \A f \in live(ClassFindings(r)) : f.category = "security" /\ f.source = "security"
  BY <1>3, ClassTiers, TierFacts
<1>5. B = IF cat = "security" /\ "security" \notin r.failed_scanners
          THEN live(ClassFindings(r)) ELSE {}
  BY <1>4 DEF On, Carrying, live
<1>6. Weight(B) = CarriedWeight(r, cat)
  BY <1>1, <1>5, ClassWeighs, WeightFacts DEF CarriedWeight
<1> HIDE DEF A, B, C
<1>7. Weighty(A \cup B)
  BY <1>1, FS_Union DEF Weighty
<1>8. Weight((A \cup B) \cup C) = (Weight(A) + Weight(B)) + Weight(C)
  BY <1>1, <1>7, WeightUnion
<1>9. Weight(A) \in Nat /\ Weight(B) \in Nat
  BY <1>1, WeightFacts
<1>10. ClassWeight(r) \in Nat
  BY <1>3 DEF ClassWeight
<1> QED BY <1>1, <1>2, <1>6, <1>8, <1>9, <1>10 DEF A

(* The score in terms of the three sums. *)
Least(a, b) == IF a <= b THEN a ELSE b

(* The smaller of two numbers. *)
LEMMA MinFacts ==
    ASSUME NEW a \in Nat, NEW b \in Nat
    PROVE  Min({a, b}) = Least(a, b) /\ Least(a, b) \in Nat
<1>1. Least(a, b) \in {a, b} /\ \A y \in {a, b} : Least(a, b) <= y
  BY DEF Least
<1>2. Min({a, b}) \in {a, b} /\ \A y \in {a, b} : Min({a, b}) <= y
  BY <1>1 DEF Min
<1> QED BY <1>1, <1>2

Total(s, t, u) == Least(Least(s, 60) + Least(t, 30) + Least(u, 10), 100)

(* The score in terms of the sums of the three axes. *)
LEMMA ScoreFacts ==
    ASSUME NEW r, Finite(r)
    PROVE  /\ security(evaluate(r)) = Least(Weight(On(evaluate(r), "security")), 60)
           /\ score(evaluate(r)) = Total(Weight(On(evaluate(r), "security")),
                                         Weight(On(evaluate(r), "reliability")),
                                         Weight(On(evaluate(r), "hygiene")))
           /\ score(evaluate(r)) \in Nat
<1> DEFINE W(cat) == Weight(On(evaluate(r), cat))
           X(cat) == axis(evaluate(r), cat)
           S == security(evaluate(r))
           T == Min({X("reliability"), 30})
           U == Min({X("hygiene"), 10})
<1>1. \A cat : W(cat) \in Nat
  BY AxisSplit
<1>2. \A cat : X(cat) = Min({W(cat), 255})
  BY DEF axis, saturating, MaxU8, Weight, On
<1> HIDE DEF W, X
<1>3. ASSUME NEW cat
      PROVE  X(cat) = Least(W(cat), 255) /\ X(cat) \in Nat
  <2>1. Min({W(cat), 255}) = Least(W(cat), 255) /\ Least(W(cat), 255) \in Nat
    BY <1>1, MinFacts
  <2> QED BY <1>2, <2>1
<1>4. S = Min({X("security"), 60})
  BY DEF security, X
<1>5. /\ S = Least(X("security"), 60) /\ T = Least(X("reliability"), 30)
      /\ U = Least(X("hygiene"), 10) /\ S \in Nat /\ T \in Nat /\ U \in Nat
  BY <1>3, <1>4, MinFacts
<1>6. /\ S = Least(W("security"), 60) /\ T = Least(W("reliability"), 30)
      /\ U = Least(W("hygiene"), 10)
  BY <1>1, <1>3, <1>5 DEF Least
<1>7. score(evaluate(r)) = Min({S + T + U, 100})
  BY DEF score, X
<1> HIDE DEF S, T, U
<1>8. score(evaluate(r)) = Least(S + T + U, 100) /\ score(evaluate(r)) \in Nat
  BY <1>5, <1>7, MinFacts
<1> QED BY <1>6, <1>8 DEF Total, W, S

(* A compromised host scores at least 55. *)
LEMMA CompromiseScores ==
    ASSUME NEW r, Finite(r), compromised_host(evaluate(r))
    PROVE  score(evaluate(r)) >= 55
<1>1. PICK f \in live(evaluate(r)) : f.id \in COMPROMISE_IDS
  BY DEF compromised_host, has
<1>2. f \in OtherFindings(r)
  <2>1. f \notin ClassFindings(r)
    BY <1>1, ClassTiers DEF Carriers, COMPROMISE_IDS
  <2>2. f \notin Notes(r)
    BY <1>1, NotesFacts DEF COMPROMISE_IDS
  <2> QED BY <1>1, <2>1, <2>2, EvaluateSplit DEF live, Rest, Carrying
<1>3. f.weight \in Nat /\ f.weight >= 55 /\ f.category = "security"
  BY <1>1, <1>2, OthersWeighed DEF Weighed, Finite
<1> DEFINE S == On(evaluate(r), "security")
<1>4. f \in S /\ Weighty(S) /\ S \ {f} \in SUBSET S
  BY <1>1, <1>3, PartsWeighty DEF On
<1>5. Weighty(S \ {f})
  BY <1>4, SubsetFacts
<1>6. Weight(S) = f.weight + Weight(S \ {f}) /\ Weight(S \ {f}) \in Nat
  BY <1>4, <1>5, WeightFacts
<1>7. Weight(S) \in Nat /\ Weight(S) >= 55
  BY <1>3, <1>6
<1>8. /\ Weight(On(evaluate(r), "reliability")) \in Nat
      /\ Weight(On(evaluate(r), "hygiene")) \in Nat
  BY AxisSplit
<1> QED BY <1>7, <1>8, ScoreFacts DEF Total, Least

-------------------------------------------------------------------------------
(* More evidence (Worse): nothing that was held against the host is dropped. *)
LEMMA RestDominated ==
    ASSUME NEW r, NEW q, Worse(r, q), Finite(r), Finite(q), q.failed_scanners = {}, NEW cat,
           NEW G, G \subseteq On(Rest(q), cat),
           \A f \in live(Rest(r)) : \A g \in G : f.id # g.id
    PROVE  Weight(On(Rest(r), cat)) <= Weight(On(Rest(q), cat) \ G)
<1> DEFINE A == On(Rest(r), cat)
           B == On(Rest(q), cat) \ G
           like(f) == {g \in B : g.id = f.id /\ g.of = f.of /\ g.weight >= f.weight}
           phi == [f \in A |-> CHOOSE g \in B : g \in like(f)]
<1>1. A \subseteq live(OtherFindings(r)) /\ Rest(q) = OtherFindings(q)
  BY DEF On, live, Rest
<1>2. ASSUME NEW f \in A
      PROVE  \E g \in B : g \in like(f)
  <2>1. PICK g \in live(OtherFindings(q)) :
           g.id = f.id /\ g.of = f.of /\ g.category = f.category /\ g.weight >= f.weight
    BY <1>1, HeavierRules DEF Heavier
  <2>2. f \in live(Rest(r)) /\ f.category = cat
    BY DEF On
  <2>3. g \in B
    BY <1>1, <2>1, <2>2 DEF On
  <2> QED BY <2>1, <2>3
<1>3. \A f \in A : phi[f] \in B /\ phi[f] \in like(f)
  BY <1>2
<1>4. Weighty(A) /\ Weighty(B)
  BY PartsWeighty, SubsetFacts
<1>5. phi \in [A -> B]
  BY <1>3
<1> HIDE DEF A, B, phi
<1>6. \A x, y \in A : phi[x] = phi[y] => x = y
  BY <1>1, <1>3, KeyedRules
<1>7. \A x \in A : x.weight \in Nat /\ phi[x].weight \in Nat /\ x.weight <= phi[x].weight
  BY <1>3, <1>4 DEF Weighty
<1>8. Weight(A) <= Weight(B)
  BY <1>4, <1>5, <1>6, <1>7, WeightDominated
<1> QED BY <1>8 DEF A, B

(* The one exception: a root path beside plain NOPASSWD entries takes the class over from
   SEC-061, and the five points of the plain entries are no longer added. *)
LEMMA ClassMonotone ==
    ASSUME NEW r, NEW q, Worse(r, q)
    PROVE  /\ ClassWeight(r) <= ClassWeight(q) + 5
           /\ r.sudo_nopasswd_entries = q.sudo_nopasswd_entries
                => ClassWeight(r) <= ClassWeight(q)
<1>1. /\ r.sudo_nopasswd_entries \subseteq q.sudo_nopasswd_entries
      /\ r.sudoers_nopasswd_all \subseteq q.sudoers_nopasswd_all
      /\ r.root_equivalent_groups \subseteq q.root_equivalent_groups
  BY DEF Worse, ListFields
<1>2. /\ prp_sec012(r) => prp_sec012(q)
      /\ prp_sec005(r) => prp_sec005(q)
      /\ Bypass(r) => Bypass(q)
      /\ prp_sec005(r) => r.sudo_nopasswd_entries # {}
      /\ prp_sec005(q) => q.sudo_nopasswd_entries # {}
  BY <1>1 DEF prp_sec012, prp_sec005, Bypass
<1>3. /\ r.sudo_nopasswd_entries # {} => q.sudo_nopasswd_entries # {}
      /\ (\E e \in r.sudo_nopasswd_entries : e.k = "plain")
            => (\E e \in q.sudo_nopasswd_entries : e.k = "plain")
  BY <1>1
<1>4. r.sudo_nopasswd_entries = q.sudo_nopasswd_entries => (prp_sec005(r) <=> prp_sec005(q))
  BY DEF prp_sec005
<1> QED BY <1>2, <1>3, <1>4 DEF ClassWeight, SudoTier, RootTier, GroupTier

(* The worse report, with every scanner back: at least the weight of the other, but for the
   exception; and a compromise that is new adds at least 55. *)
LEMMA AxisMonotone ==
    ASSUME NEW r, NEW q, Worse(r, q), Finite(r), Finite(q), q.failed_scanners = {}, NEW cat
    PROVE  /\ cat # "security" =>
                Weight(On(evaluate(r), cat)) <= Weight(On(evaluate(q), cat))
           /\ Weight(On(evaluate(r), cat)) <= Weight(On(evaluate(q), cat)) + 5
           /\ r.sudo_nopasswd_entries = q.sudo_nopasswd_entries =>
                Weight(On(evaluate(r), cat)) <= Weight(On(evaluate(q), cat))
<1>1. On(Rest(q), cat) \ {} = On(Rest(q), cat)
  OBVIOUS
<1>2. Weight(On(Rest(r), cat)) <= Weight(On(Rest(q), cat))
  BY <1>1, RestDominated
<1>3. /\ Weight(On(evaluate(r), cat)) = Weight(On(Rest(r), cat)) + CarriedWeight(r, cat)
      /\ Weight(On(evaluate(q), cat)) = Weight(On(Rest(q), cat)) + CarriedWeight(q, cat)
      /\ Weight(On(Rest(r), cat)) \in Nat /\ Weight(On(Rest(q), cat)) \in Nat
      /\ ClassWeight(r) \in Nat /\ ClassWeight(q) \in Nat
  BY AxisSplit
<1>4. CarriedWeight(r, cat) = 0 \/ (cat = "security" /\ CarriedWeight(r, cat) = ClassWeight(r))
  BY DEF CarriedWeight
<1>5. CarriedWeight(q, cat) = IF cat = "security" THEN ClassWeight(q) ELSE 0
  BY DEF CarriedWeight
<1> QED BY <1>2, <1>3, <1>4, <1>5, ClassMonotone

(* A compromise that is new adds at least 50 on the security axis, the exception deducted. *)
LEMMA NewCompromise ==
    ASSUME NEW r, NEW q, Worse(r, q), Finite(r), Finite(q), q.failed_scanners = {},
           ~compromised_host(evaluate(r)), compromised_host(evaluate(q))
    PROVE  Weight(On(evaluate(r), "security")) + 50 <= Weight(On(evaluate(q), "security"))
<1>1. PICK g \in live(evaluate(q)) : g.id \in COMPROMISE_IDS
  BY DEF compromised_host, has
<1>2. g \in Rest(q)
  <2>1. g \notin ClassFindings(q)
    BY <1>1, ClassTiers DEF Carriers, COMPROMISE_IDS
  <2>2. g \notin Notes(q)
    BY <1>1, NotesFacts DEF COMPROMISE_IDS
  <2> QED BY <1>1, <2>1, <2>2, EvaluateSplit DEF live, Carrying
<1>3. g.weight \in Nat /\ g.weight >= 55 /\ g.category = "security"
  BY <1>1, <1>2, OthersWeighed DEF Weighed, Finite, Rest
<1> DEFINE A == On(Rest(r), "security")
           B == On(Rest(q), "security")
<1>4. g \in B /\ Weighty(B)
  BY <1>1, <1>2, <1>3, PartsWeighty DEF On, live
<1>5. \A f \in live(Rest(r)) : f.id \notin COMPROMISE_IDS
  BY EvaluateSplit DEF compromised_host, has, live
<1>6. \A f \in live(Rest(r)) : \A h \in {g} : f.id # h.id
  BY <1>1, <1>5
<1>7. Weight(A) <= Weight(B \ {g})
  BY <1>4, <1>6, RestDominated
<1>8. Weight(B) = g.weight + Weight(B \ {g})
  BY <1>4, WeightFacts
<1>9. Weighty(B \ {g})
  BY <1>4, SubsetFacts
<1>10. Weight(B \ {g}) \in Nat
  BY <1>9, WeightFacts
<1>11. /\ Weight(On(evaluate(r), "security")) = Weight(A) + CarriedWeight(r, "security")
       /\ Weight(On(evaluate(q), "security")) = Weight(B) + CarriedWeight(q, "security")
       /\ Weight(A) \in Nat /\ Weight(B) \in Nat
       /\ ClassWeight(r) \in Nat /\ ClassWeight(q) \in Nat
  BY AxisSplit
<1>12. /\ CarriedWeight(r, "security") \in {0, ClassWeight(r)}
       /\ CarriedWeight(q, "security") = ClassWeight(q)
  BY DEF CarriedWeight
<1> HIDE DEF A, B
<1> QED BY <1>3, <1>7, <1>8, <1>10, <1>11, <1>12, ClassMonotone

(* The score with the exception of the base tier. *)
LEMMA ScoreMonotone ==
    ASSUME NEW r, NEW q, Worse(r, q), Finite(r), Finite(q), q.failed_scanners = {}
    PROVE  /\ score(evaluate(r)) <= score(evaluate(q)) + 5
           /\ r.sudo_nopasswd_entries = q.sudo_nopasswd_entries =>
                score(evaluate(r)) <= score(evaluate(q))
<1> DEFINE R(cat) == Weight(On(evaluate(r), cat))
           Q(cat) == Weight(On(evaluate(q), cat))
<1>1. \A cat : R(cat) \in Nat /\ Q(cat) \in Nat
  BY AxisSplit
<1>2. /\ R("reliability") <= Q("reliability") /\ R("hygiene") <= Q("hygiene")
      /\ R("security") <= Q("security") + 5
      /\ r.sudo_nopasswd_entries = q.sudo_nopasswd_entries => R("security") <= Q("security")
  BY AxisMonotone
<1>3. /\ score(evaluate(r)) = Total(R("security"), R("reliability"), R("hygiene"))
      /\ score(evaluate(q)) = Total(Q("security"), Q("reliability"), Q("hygiene"))
  BY ScoreFacts
<1> HIDE DEF R, Q
<1>4. /\ R("security") \in Nat /\ R("reliability") \in Nat /\ R("hygiene") \in Nat
      /\ Q("security") \in Nat /\ Q("reliability") \in Nat /\ Q("hygiene") \in Nat
  BY <1>1
<1> QED BY <1>2, <1>3, <1>4 DEF Total, Least

(* A new compromise raises the score wherever the security axis had room. *)
LEMMA CompromiseRaises ==
    ASSUME NEW r, NEW q, Worse(r, q), Finite(r), Finite(q), q.failed_scanners = {},
           ~compromised_host(evaluate(r)), compromised_host(evaluate(q)),
           security(evaluate(r)) < 60
    PROVE  score(evaluate(r)) < score(evaluate(q))
<1> DEFINE R(cat) == Weight(On(evaluate(r), cat))
           Q(cat) == Weight(On(evaluate(q), cat))
<1>1. /\ R("security") \in Nat /\ R("reliability") \in Nat /\ R("hygiene") \in Nat
      /\ Q("security") \in Nat /\ Q("reliability") \in Nat /\ Q("hygiene") \in Nat
  BY AxisSplit
<1>2. /\ R("reliability") <= Q("reliability") /\ R("hygiene") <= Q("hygiene")
  BY AxisMonotone
<1>3. R("security") + 50 <= Q("security")
  BY NewCompromise
<1>4. /\ score(evaluate(r)) = Total(R("security"), R("reliability"), R("hygiene"))
      /\ score(evaluate(q)) = Total(Q("security"), Q("reliability"), Q("hygiene"))
      /\ security(evaluate(r)) = Least(R("security"), 60)
  BY ScoreFacts
<1> HIDE DEF R, Q
<1> QED BY <1>1, <1>2, <1>3, <1>4 DEF Total, Least

-------------------------------------------------------------------------------
(* The verdict: which findings decide it. *)
CRITICAL_IDS == {"SEC-001", "SEC-002", "SEC-003", "SEC-004", "REL-001", "REL-002", "HYG-001"}
Sysctl(S) == {f \in live(S) : f.id = "SEC-007"}

(* What is live and neither of the class nor a note comes from a rule of the rest. *)
LEMMA LiveOthers ==
    ASSUME NEW r, Finite(r), NEW f \in live(evaluate(r)), f.id \notin Carriers, f.id # "COV-001"
    PROVE  f \in live(Rest(r)) /\ f \in live(OtherFindings(r))
<1>1. f \notin Carrying(r) /\ f \notin Notes(r)
  BY ClassTiers, NotesFacts DEF Carrying
<1> QED BY <1>1, EvaluateSplit DEF live, Rest

(* The kernel settings that count towards a critical verdict are finitely many. *)
LEMMA SysctlFinite ==
    ASSUME NEW r, Finite(r)
    PROVE  IsFiniteSet(Sysctl(evaluate(r))) /\ Sysctl(evaluate(r)) \subseteq live(Rest(r))
<1>1. Sysctl(evaluate(r)) \subseteq live(Rest(r))
  BY LiveOthers DEF Sysctl, Carriers
<1>2. live(Rest(r)) \subseteq OtherFindings(r)
  BY DEF live, Rest
<1>3. IsFiniteSet(OtherFindings(r))
  BY OthersWeighed DEF Weighed, Finite
<1> QED BY <1>1, <1>2, <1>3, FS_Subset

(* What makes a verdict critical. *)
LEMMA CriticalFacts ==
    ASSUME NEW S
    PROVE  has_critical(S) <=> \/ \E id \in CRITICAL_IDS : has(S, id)
                               \/ has(S, "SEC-005") \/ has(S, "SEC-012")
                               \/ Cardinality(Sysctl(S)) >= 3
BY DEF has_critical, CRITICAL_IDS, Sysctl, SYSCTL_CRITICAL_THRESHOLD

(* The class makes a verdict critical as soon as one entry leads to root. *)
LEMMA ClassShows ==
    ASSUME NEW r, Finite(r)
    PROVE  has(evaluate(r), "SEC-005") \/ has(evaluate(r), "SEC-012")
             <=> /\ "security" \notin r.failed_scanners
                 /\ r.sudo_nopasswd_entries # {} \/ prp_sec012(r)
<1>1. \A f \in live(evaluate(r)) : f.id \in Carriers => f \in live(Carrying(r))
  BY OthersWeighed, NotesFacts, EvaluateSplit DEF live, Rest, Weighed, Finite, Carriers
<1>2. live(Carrying(r)) \subseteq live(evaluate(r))
  BY EvaluateSplit DEF live
<1>3. SudoTier(r) \in Nat /\ RootTier(r) \in Nat /\ GroupTier(r) \in Nat
  BY ClassTiers
<1>4. /\ live(Carrying(r)) = IF "security" \in r.failed_scanners THEN {} ELSE live(ClassFindings(r))
      /\ live(ClassFindings(r)) =
           (Tier("SEC-005", SudoTier(r)) \cup Tier("SEC-012", RootTier(r)))
              \cup Tier("SEC-061", GroupTier(r))
  BY ClassTiers DEF live, Carrying
<1>5. /\ \A f \in Tier("SEC-005", SudoTier(r)) : f.id = "SEC-005"
      /\ \A f \in Tier("SEC-012", RootTier(r)) : f.id = "SEC-012"
      /\ \A f \in Tier("SEC-061", GroupTier(r)) : f.id = "SEC-061"
  BY <1>3, TierFacts
<1>6. /\ SudoTier(r) # 0 => Tier("SEC-005", SudoTier(r)) # {}
      /\ RootTier(r) # 0 => Tier("SEC-012", RootTier(r)) # {}
      /\ SudoTier(r) = 0 => Tier("SEC-005", SudoTier(r)) = {}
      /\ RootTier(r) = 0 => Tier("SEC-012", RootTier(r)) = {}
  BY DEF Tier, Sec
<1>7. (SudoTier(r) # 0 \/ RootTier(r) # 0) <=> (r.sudo_nopasswd_entries # {} \/ prp_sec012(r))
  BY DEF SudoTier, RootTier, prp_sec005
<1>8. (has(evaluate(r), "SEC-005") \/ has(evaluate(r), "SEC-012"))
        <=> /\ "security" \notin r.failed_scanners
            /\ Tier("SEC-005", SudoTier(r)) # {} \/ Tier("SEC-012", RootTier(r)) # {}
  BY <1>1, <1>2, <1>4, <1>5 DEF has, Carriers
<1> QED BY <1>6, <1>7, <1>8

(* With more in the lists and every scanner back, the verdict is no milder. *)
LEMMA VerdictMonotone ==
    ASSUME NEW r, NEW q, Worse(r, q), Finite(r), Finite(q), q.failed_scanners = {}
    PROVE  /\ compromised_host(evaluate(r)) => compromised_host(evaluate(q))
           /\ has_critical(evaluate(r)) => has_critical(evaluate(q))
<1>1. live(OtherFindings(q)) \subseteq live(evaluate(q))
  BY EvaluateSplit DEF live, Rest
<1>2. ASSUME NEW id, id \notin Carriers, id # "COV-001", has(evaluate(r), id)
      PROVE  has(evaluate(q), id)
  <2>1. PICK f \in live(evaluate(r)) : f.id = id
    BY <1>2 DEF has
  <2>2. f \in live(OtherFindings(r))
    BY <1>2, <2>1, LiveOthers
  <2>3. PICK g \in live(OtherFindings(q)) : g.id = f.id
    BY <2>2, HeavierRules DEF Heavier
  <2> QED BY <1>1, <2>1, <2>3 DEF has
<1>3. compromised_host(evaluate(r)) => compromised_host(evaluate(q))
  BY <1>2 DEF compromised_host, COMPROMISE_IDS, Carriers
<1>4. ASSUME NEW id \in CRITICAL_IDS, has(evaluate(r), id)
      PROVE  has(evaluate(q), id)
  BY <1>2, <1>4 DEF CRITICAL_IDS, Carriers
<1>5. ASSUME has(evaluate(r), "SEC-005") \/ has(evaluate(r), "SEC-012")
      PROVE  has(evaluate(q), "SEC-005") \/ has(evaluate(q), "SEC-012")
  <2>1. /\ r.sudo_nopasswd_entries \subseteq q.sudo_nopasswd_entries
        /\ r.sudoers_nopasswd_all \subseteq q.sudoers_nopasswd_all
    BY DEF Worse, ListFields
  <2>2. q.sudo_nopasswd_entries # {} \/ prp_sec012(q)
    BY <1>5, <2>1, ClassShows DEF prp_sec012
  <2> QED BY <2>2, ClassShows
<1>6. Cardinality(Sysctl(evaluate(r))) <= Cardinality(Sysctl(evaluate(q)))
  <2> DEFINE A == Sysctl(evaluate(r))
             B == Sysctl(evaluate(q))
             phi == [f \in A |-> CHOOSE g \in B : g.of = f.of]
  <2>1. \A f \in A : f \in live(OtherFindings(r)) /\ f.id = "SEC-007"
    BY LiveOthers DEF Sysctl, Carriers
  <2>2. ASSUME NEW f \in A
        PROVE  \E g \in B : g.of = f.of
    <3>1. PICK g \in live(OtherFindings(q)) : g.id = f.id /\ g.of = f.of
      BY <2>1, HeavierRules DEF Heavier
    <3>2. g \in B
      BY <1>1, <2>1, <3>1 DEF Sysctl, live
    <3> QED BY <3>1, <3>2
  <2>3. \A f \in A : phi[f] \in B /\ phi[f].of = f.of
    BY <2>2
  <2>4. phi \in [A -> B]
    BY <2>3
  <2>5. IsFiniteSet(B)
    BY SysctlFinite
  <2> HIDE DEF A, B, phi
  <2>6. \A x, y \in A : phi[x] = phi[y] => x = y
    BY <2>1, <2>3, KeyedRules
  <2>7. phi \in Injection(A, B)
    BY <2>4, <2>6 DEF Injection, IsInjective
  <2> QED BY <2>5, <2>7, FS_Injection DEF A, B
<1>7. /\ Cardinality(Sysctl(evaluate(r))) \in Nat
      /\ Cardinality(Sysctl(evaluate(q))) \in Nat
  BY SysctlFinite, FS_CardinalityType
<1>8. Cardinality(Sysctl(evaluate(r))) >= 3 => Cardinality(Sysctl(evaluate(q))) >= 3
  BY <1>6, <1>7
<1>9. has_critical(evaluate(r)) => has_critical(evaluate(q))
  BY <1>4, <1>5, <1>8, CriticalFacts
<1> QED BY <1>3, <1>9

-------------------------------------------------------------------------------
(* q is what a controller evaluates of the report r of a host, where nothing of its own
   vouches for a region of the report. *)
Elsewhere(r, q) ==
    /\ \A x \in Fields \cup {"firewall_bypass", "failed_scanners"} : q[x] = r[x]
    /\ r.at = OnHost /\ q.at.host = FALSE
    /\ \A f \in r.library_injections : ~Vouches(q.at, f)

DecisiveIds == CRITICAL_IDS \cup COMPROMISE_IDS \cup {"SEC-007"}
(* What decides the verdict is found again. *)
Found(D, E) == \A f \in D : f.id \in DecisiveIds => f \in E

(* What no process and no tree of the controller vouches for is as reputable as on the host,
   or less. *)
LEMMA UnvouchedLook ==
    ASSUME NEW f, NEW m, m.host = FALSE, ~Vouches(m, f), reputable_exe(f, m)
    PROVE  reputable_exe(f, OnHost)
<1>1. seen(f, OnHost) = f.look
  BY DEF seen, OnHost
<1>2. /\ ~seen(f, m).foreign
      /\ seen(f, m).root_owned => f.look.root_owned /\ ~f.look.foreign
      /\ seen(f, m).populated => f.look.populated /\ ~f.look.foreign
  <2>1. /\ seen(f, m).foreign <=> f.pid \in m.foreign
        /\ seen(f, m).root_owned <=> f.pid \in m.root
        /\ seen(f, m).populated <=> f.k \in m.trees
    BY DEF seen, Seen
  <2> QED BY <2>1 DEF Vouches
<1>3. ASSUME exe_provenance(f.exe, seen(f, m)) \in {"InstalledApp", "NestedUserInstall"}
      PROVE  exe_provenance(f.exe, f.look) \in {"InstalledApp", "NestedUserInstall"}
  <2> DEFINE look == seen(f, m)
  <2>1. ~look.foreign
    BY <1>2
  <2> HIDE DEF look
  <2>2. CASE f.exe = "system" /\ look.root_owned
    BY <1>2, <2>2 DEF exe_provenance, look
  <2>3. CASE f.exe = "managed"
    BY <2>3 DEF exe_provenance, is_standard_install_path
  <2>4. CASE f.exe \in {"opt", "install", "home"} /\ look.populated
    BY <1>2, <2>4 DEF exe_provenance, look
  <2> QED BY <1>3, <2>1, <2>2, <2>3, <2>4 DEF exe_provenance, look
<1> QED BY <1>1, <1>3 DEF reputable_exe

(* So no region falls into a milder bucket. *)
LEMMA BucketsElsewhere ==
    ASSUME NEW r, NEW q, Elsewhere(r, q), NEW f \in r.library_injections
    PROVE  /\ mem_bucket(f, r) = "Classic" => mem_bucket(f, q) = "Classic"
           /\ mem_bucket(f, r) = "DeepCritical" => mem_bucket(f, q) = "DeepCritical"
<1>1. reputable_exe(f, q.at) => reputable_exe(f, r.at)
  BY UnvouchedLook DEF Elsewhere
<1>2. process_behavior_clean(f.pid, r) <=> process_behavior_clean(f.pid, q)
  <2>1. q.listening_ports = r.listening_ports /\ q.library_injections = r.library_injections
    BY DEF Elsewhere, Fields, ListFields
  <2> QED BY <2>1 DEF process_behavior_clean
<1> HIDE DEF reputable_exe, process_behavior_clean, classify, unlink_bucket
<1> QED BY <1>1, <1>2 DEF mem_bucket

(* Evaluated elsewhere, every rule outside the class that found something still does. *)
LEMMA OthersElsewhere ==
    ASSUME NEW r, NEW q, Elsewhere(r, q)
    PROVE  Found(OtherFindings(r), OtherFindings(q))
<1>0. /\ q.attribution_degraded = r.attribution_degraded
      /\ q.authorized_keys_writable = r.authorized_keys_writable
      /\ q.backup_tools = r.backup_tools /\ q.capability_audit = r.capability_audit
      /\ q.complain_profiles = r.complain_profiles /\ q.containers = r.containers
      /\ q.core_pattern = r.core_pattern /\ q.cpu_vulnerabilities = r.cpu_vulnerabilities
      /\ q.critical_cron = r.critical_cron /\ q.duplicate_uid_zero = r.duplicate_uid_zero
      /\ q.ebpf_progs = r.ebpf_progs /\ q.empty_password_users = r.empty_password_users
      /\ q.exec_start = r.exec_start /\ q.failed_services = r.failed_services
      /\ q.file_capabilities = r.file_capabilities
      /\ q.file_permission_issues = r.file_permission_issues
      /\ q.firewall_active = r.firewall_active /\ q.firewall_bypass = r.firewall_bypass
      /\ q.ftrace_hooks = r.ftrace_hooks /\ q.generators = r.generators
      /\ q.ghost_pids = r.ghost_pids /\ q.hidden_modules = r.hidden_modules
      /\ q.kernel_taint = r.kernel_taint /\ q.keys = r.keys
      /\ q.kubelet = r.kubelet /\ q.ld_so_conf_injections = r.ld_so_conf_injections
      /\ q.library_injections = r.library_injections /\ q.listening_ports = r.listening_ports
      /\ q.live_tracer = r.live_tracer /\ q.lockdown_none = r.lockdown_none
      /\ q.mount_masking = r.mount_masking /\ q.ntp_synchronized = r.ntp_synchronized
      /\ q.oom_kills = r.oom_kills /\ q.pam_injections = r.pam_injections
      /\ q.password_auth = r.password_auth /\ q.preload_injections = r.preload_injections
      /\ q.provenance = r.provenance /\ q.reverse_shells = r.reverse_shells
      /\ q.root_dotfiles_readable = r.root_dotfiles_readable
      /\ q.root_equivalent_groups = r.root_equivalent_groups
      /\ q.root_login = r.root_login /\ q.runtime_active = r.runtime_active
      /\ q.secret_hygiene = r.secret_hygiene /\ q.security_updates = r.security_updates
      /\ q.selinux_permissive = r.selinux_permissive /\ q.setuid_files = r.setuid_files
      /\ q.ssh_private_key_readable = r.ssh_private_key_readable
      /\ q.sshd_directives = r.sshd_directives
      /\ q.ssl_certificates = r.ssl_certificates
      /\ q.sudo_nopasswd_entries = r.sudo_nopasswd_entries
      /\ q.sudoers_mode = r.sudoers_mode /\ q.sudoers_nopasswd_all = r.sudoers_nopasswd_all
      /\ q.suspicious_processes = r.suspicious_processes /\ q.sysctl_issues = r.sysctl_issues
      /\ q.system_accounts_with_shell = r.system_accounts_with_shell
      /\ q.systemd_hardening = r.systemd_hardening
      /\ q.weak_password_hashes = r.weak_password_hashes
  BY DEF Elsewhere, Fields, ListFields, DefaultScalars
<1> USE DEF Found
<1>1. SEC_001(q) = SEC_001(r)
  BY <1>0 DEF SEC_001
<1>2. SEC_002(q) = SEC_002(r)
  BY <1>0 DEF SEC_002
<1>3. SEC_003(q) = SEC_003(r)
  BY <1>0 DEF SEC_003
<1>4. SEC_004(q) = SEC_004(r)
  BY <1>0 DEF SEC_004
<1>5. SEC_006(q) = SEC_006(r)
  BY <1>0 DEF SEC_006
<1>6. SEC_007(q) = SEC_007(r)
  BY <1>0 DEF SEC_007
<1>7. SEC_008(q) = SEC_008(r)
  BY <1>0 DEF SEC_008
<1>8. SEC_009(q) = SEC_009(r)
  BY <1>0 DEF SEC_009
<1>9. SEC_011(q) = SEC_011(r)
  BY <1>0 DEF SEC_011
<1>10. SEC_062(q) = SEC_062(r)
  BY <1>0 DEF SEC_062
<1>11. SEC_063(q) = SEC_063(r)
  BY <1>0 DEF SEC_063
<1>12. Found(SEC_013_030_031(r), SEC_013_030_031(q))
  BY
    DEF SEC_013_030_031, When, Finding, Sec, Info, Listed, DecisiveIds, CRITICAL_IDS,
        COMPROMISE_IDS
<1>13. SEC_015(q) = SEC_015(r)
  BY <1>0 DEF SEC_015, critical_caps_of
<1>14. SEC_016(q) = SEC_016(r)
  BY <1>0 DEF SEC_016
<1>15. SEC_017(q) = SEC_017(r)
  BY <1>0 DEF SEC_017, fileless
<1>16. SEC_032(q) = SEC_032(r)
  BY <1>0 DEF SEC_032
<1>17. SEC_019(q) = SEC_019(r)
  BY <1>0 DEF SEC_019, critical_caps_of, fileless
<1>18. SEC_020(q) = SEC_020(r)
  BY <1>0 DEF SEC_020
<1>19. SEC_021(q) = SEC_021(r)
  BY <1>0 DEF SEC_021
<1>20. SEC_022(q) = SEC_022(r)
  BY <1>0 DEF SEC_022
<1>21. Found(SEC_023(r), SEC_023(q))
  BY <1>0, BucketsElsewhere DEF SEC_023, in_bucket, When
<1>22. Found(SEC_028(r), SEC_028(q))
  BY <1>0, BucketsElsewhere DEF SEC_028, in_bucket, When
<1>23. Found(SEC_026(r), SEC_026(q))
  BY DEF SEC_026, When, Finding, Sec, DecisiveIds, CRITICAL_IDS, COMPROMISE_IDS
<1>24. Found(SEC_029(r), SEC_029(q))
  BY DEF SEC_029, When, Finding, Info, Listed, DecisiveIds, CRITICAL_IDS, COMPROMISE_IDS
<1>25. Found(SEC_033(r), SEC_033(q))
  BY DEF SEC_033, When, Finding, Info, Listed, DecisiveIds, CRITICAL_IDS, COMPROMISE_IDS
<1>26. Found(SEC_027(r), SEC_027(q))
  BY DEF SEC_027, When, Finding, Info, Listed, DecisiveIds, CRITICAL_IDS, COMPROMISE_IDS
<1>27. SEC_024_025(q) = SEC_024_025(r)
  BY <1>0 DEF SEC_024_025
<1>28. SEC_014_059_058(q) = SEC_014_059_058(r)
  BY <1>0 DEF SEC_014_059_058
<1>29. CAP_001(q) = CAP_001(r)
  BY <1>0 DEF CAP_001
<1>30. CAP_002(q) = CAP_002(r)
  BY <1>0 DEF CAP_002
<1>31. SEC_034_036(q) = SEC_034_036(r)
  BY <1>0 DEF SEC_034_036, classify_cap_binary, attributable
<1>32. SEC_037(q) = SEC_037(r)
  BY <1>0 DEF SEC_037, classify_setuid, attributable
<1>33. SEC_035(q) = SEC_035(r)
  BY <1>0 DEF SEC_035
<1>34. SEC_038(q) = SEC_038(r)
  BY <1>0 DEF SEC_038
<1>35. SEC_060(q) = SEC_060(r)
  BY <1>0 DEF SEC_060
<1>36. SEC_039(q) = SEC_039(r)
  BY <1>0 DEF SEC_039
<1>37. SEC_040(q) = SEC_040(r)
  BY <1>0 DEF SEC_040
<1>38. SEC_041(q) = SEC_041(r)
  BY <1>0 DEF SEC_041
<1>39. SEC_042_049_050(q) = SEC_042_049_050(r)
  BY <1>0 DEF SEC_042_049_050, preload_id
<1>40. SEC_051(q) = SEC_051(r)
  BY <1>0 DEF SEC_051
<1>41. SEC_052_053_054(q) = SEC_052_053_054(r)
  BY <1>0 DEF SEC_052_053_054, classify_generator
<1>42. SEC_055_056_057(q) = SEC_055_056_057(r)
  BY <1>0 DEF SEC_055_056_057
<1>43. SEC_043(q) = SEC_043(r)
  BY <1>0 DEF SEC_043
<1>44. SEC_047(q) = SEC_047(r)
  BY <1>0 DEF SEC_047
<1>45. SEC_048(q) = SEC_048(r)
  BY <1>0 DEF SEC_048
<1>46. SEC_046(q) = SEC_046(r)
  BY <1>0 DEF SEC_046
<1>47. SEC_045(q) = SEC_045(r)
  BY <1>0 DEF SEC_045
<1>48. SEC_044(q) = SEC_044(r)
  BY <1>0 DEF SEC_044
<1>49. SEC_018(q) = SEC_018(r)
  BY <1>0 DEF SEC_018
<1>50. DOCK_001_004(q) = DOCK_001_004(r)
  BY <1>0 DEF DOCK_001_004
<1>51. DOCK_010(q) = DOCK_010(r)
  BY <1>0 DEF DOCK_010
<1>52. SEC_065_066(q) = SEC_065_066(r)
  BY <1>0 DEF SEC_065_066
<1>53. SEC_070(q) = SEC_070(r)
  BY <1>0 DEF SEC_070
<1>54. SEC_071(q) = SEC_071(r)
  BY <1>0 DEF SEC_071
<1>55. SEC_072(q) = SEC_072(r)
  BY <1>0 DEF SEC_072
<1>56. SEC_073(q) = SEC_073(r)
  BY <1>0 DEF SEC_073
<1>57. SEC_074_075_076(q) = SEC_074_075_076(r)
  BY <1>0 DEF SEC_074_075_076
<1>58. SEC_077(q) = SEC_077(r)
  BY <1>0 DEF SEC_077
<1>59. SEC_078(q) = SEC_078(r)
  BY <1>0 DEF SEC_078
<1>60. SEC_079(q) = SEC_079(r)
  BY <1>0 DEF SEC_079
<1>61. SEC_081(q) = SEC_081(r)
  BY <1>0 DEF SEC_081
<1>62. DOCK_005_006(q) = DOCK_005_006(r)
  BY <1>0 DEF DOCK_005_006
<1>63. DOCK_007_008_009(q) = DOCK_007_008_009(r)
  BY <1>0 DEF DOCK_007_008_009
<1>64. REL_001(q) = REL_001(r)
  BY <1>0 DEF REL_001
<1>65. REL_002(q) = REL_002(r)
  BY <1>0 DEF REL_002
<1>66. REL_003(q) = REL_003(r)
  BY <1>0 DEF REL_003
<1>67. HYG_001(q) = HYG_001(r)
  BY <1>0 DEF HYG_001
<1>68. Found(Rules1(r), Rules1(q))
  BY <1>1, <1>2, <1>3, <1>4, <1>5, <1>6, <1>7, <1>8, <1>9 DEF Rules1
<1>69. Found(Rules2(r), Rules2(q))
  BY <1>10, <1>11, <1>12, <1>13, <1>14, <1>15, <1>16, <1>17, <1>18 DEF Rules2
<1>70. Found(Rules3(r), Rules3(q))
  BY <1>19, <1>20, <1>21, <1>22, <1>23, <1>24, <1>25, <1>26, <1>27 DEF Rules3
<1>71. Found(Rules4(r), Rules4(q))
  BY <1>28, <1>29, <1>30, <1>31, <1>32, <1>33, <1>34, <1>35, <1>36 DEF Rules4
<1>72. Found(Rules5(r), Rules5(q))
  BY <1>37, <1>38, <1>39, <1>40, <1>41, <1>42, <1>43, <1>44, <1>45 DEF Rules5
<1>73. Found(Rules6(r), Rules6(q))
  BY <1>46, <1>47, <1>48, <1>49, <1>50, <1>51, <1>52, <1>53, <1>54 DEF Rules6
<1>74. Found(Rules7(r), Rules7(q))
  BY <1>55, <1>56, <1>57, <1>58, <1>59, <1>60, <1>61, <1>62, <1>63 DEF Rules7
<1>75. Found(Rules8(r), Rules8(q))
  BY <1>64, <1>65, <1>66, <1>67 DEF Rules8
<1> QED BY <1>68, <1>69, <1>70, <1>71, <1>72, <1>73, <1>74, <1>75 DEF OtherFindings

(* The class does not look at the machine that evaluates. *)
LEMMA ClassElsewhere ==
    ASSUME NEW r, NEW q, Elsewhere(r, q)
    PROVE  /\ q.sudo_nopasswd_entries = r.sudo_nopasswd_entries
           /\ prp_sec012(q) <=> prp_sec012(r)
           /\ q.failed_scanners = r.failed_scanners /\ q.sysctl_issues = r.sysctl_issues
<1>1. /\ q.sudo_nopasswd_entries = r.sudo_nopasswd_entries
      /\ q.sudoers_nopasswd_all = r.sudoers_nopasswd_all
      /\ q.failed_scanners = r.failed_scanners /\ q.sysctl_issues = r.sysctl_issues
  BY DEF Elsewhere, Fields, ListFields
<1> QED BY <1>1 DEF prp_sec012

(* Whoever evaluates the report reaches a verdict that is no milder. *)
LEMMA VerdictElsewhere ==
    ASSUME NEW r, NEW q, Elsewhere(r, q), Finite(r)
    PROVE  /\ compromised_host(evaluate(r)) => compromised_host(evaluate(q))
           /\ has_critical(evaluate(r)) => has_critical(evaluate(q))
<1>1. Finite(q)
  BY ClassElsewhere DEF Finite
<1>2. ASSUME NEW f \in live(evaluate(r)), f.id \in DecisiveIds
      PROVE  f \in live(evaluate(q))
  <2>1. f \in live(Rest(r)) /\ f \in OtherFindings(r)
    BY <1>2, LiveOthers DEF DecisiveIds, CRITICAL_IDS, COMPROMISE_IDS, Carriers, live
  <2>2. f \in OtherFindings(q)
    BY <1>2, <2>1, OthersElsewhere DEF Found
  <2>3. f.source \notin q.failed_scanners /\ f.suppressed = "none"
    BY <2>1, ClassElsewhere DEF live, Rest
  <2> QED BY <2>2, <2>3, EvaluateSplit DEF live, Rest
<1>3. \A id \in DecisiveIds : has(evaluate(r), id) => has(evaluate(q), id)
  BY <1>2 DEF has
<1>4. compromised_host(evaluate(r)) => compromised_host(evaluate(q))
  BY <1>3 DEF compromised_host, DecisiveIds
<1>5. (has(evaluate(r), "SEC-005") \/ has(evaluate(r), "SEC-012"))
        => (has(evaluate(q), "SEC-005") \/ has(evaluate(q), "SEC-012"))
  BY <1>1, ClassShows, ClassElsewhere
<1>6. Sysctl(evaluate(r)) \subseteq Sysctl(evaluate(q)) /\ IsFiniteSet(Sysctl(evaluate(q)))
  BY <1>1, <1>2, SysctlFinite DEF Sysctl, DecisiveIds
<1>7. /\ Cardinality(Sysctl(evaluate(r))) <= Cardinality(Sysctl(evaluate(q)))
      /\ Cardinality(Sysctl(evaluate(r))) \in Nat /\ Cardinality(Sysctl(evaluate(q))) \in Nat
  BY <1>6, FS_Subset, FS_CardinalityType
<1>8. has_critical(evaluate(r)) => has_critical(evaluate(q))
  <2>1. Cardinality(Sysctl(evaluate(r))) >= 3 => Cardinality(Sysctl(evaluate(q))) >= 3
    BY <1>7
  <2> QED BY <1>3, <1>5, <2>1, CriticalFacts DEF DecisiveIds
<1> QED BY <1>4, <1>8

-------------------------------------------------------------------------------
(* Facts of the kind the scanners write. *)
Sound(facts) ==
    /\ \A l \in ListFields : IsFiniteSet(facts[l]) /\ WellFormed(l, facts[l])
    /\ \A x \in Flags : facts[x] \in BOOLEAN

(* A report that a scan gives on the host itself. *)
GoodReport(r) ==
    /\ Sound(r) /\ IsFiniteSet(r.failed_scanners) /\ r.at = OnHost
    /\ r.firewall_bypass = detect_firewall_bypass(r.containers, r.firewall_active)

(* The inductive invariant. *)
HostInv ==
    /\ topic \in Topics
    /\ host = [x \in Fields |-> host[x]] /\ Sound(host)
    /\ IsFiniteSet(failed)
    /\ rules \in Seq(Rules) /\ loads(rules)
    /\ today \in Nat
    /\ now = scan(host, failed, rules, today)
    /\ base # NoSnapshot => GoodReport(base.report) /\ base.score = score(evaluate(base.report))

(* What report_of adds is apart from what the scanners own. *)
LEMMA FieldFacts ==
    /\ {"firewall_bypass", "failed_scanners", "at"} \cap Fields = {}
    /\ Flags \subseteq Fields /\ Flags \cap ListFields = {} /\ ListFields \subseteq Fields
    /\ \A x \in Flags : DefaultScalars[x] \in BOOLEAN
BY DEF Fields, ListFields, DefaultScalars, Flags

(* The report of a scan: the facts, but for the defaults a panicked scanner leaves. *)
AllFields == Fields \cup {"firewall_bypass", "failed_scanners", "at"}
Reports(r, facts, panicked) ==
    /\ r.failed_scanners = panicked /\ r.at = OnHost
    /\ \A x \in Fields :
        r[x] = IF x \in UNION {owned(s) : s \in panicked} THEN Default(x) ELSE facts[x]
    /\ r.firewall_bypass = detect_firewall_bypass(r.containers, r.firewall_active)
    /\ r = [x \in AllFields |-> r[x]]

(* report_of computes just that. *)
LEMMA ReportFacts ==
    ASSUME NEW facts, NEW panicked
    PROVE  Reports(report_of(facts, panicked), facts, panicked)
<1> DEFINE lost == UNION {owned(s) : s \in panicked}
           kept == [x \in Fields |-> IF x \in lost THEN Default(x) ELSE facts[x]]
           r == report_of(facts, panicked)
           value(x) ==
             CASE x = "firewall_bypass" -> detect_firewall_bypass(kept.containers, kept.firewall_active)
               [] x = "failed_scanners" -> panicked
               [] x = "at" -> OnHost
               [] OTHER -> kept[x]
<1>1. r = [x \in AllFields |-> value(x)]
  BY DEF report_of, AllFields
<1> HIDE DEF lost, r
<1>2. \A x \in Fields : r[x] = kept[x]
  BY <1>1, FieldFacts DEF AllFields
<1>3. /\ r.failed_scanners = panicked /\ r.at = OnHost
      /\ r.firewall_bypass = detect_firewall_bypass(kept.containers, kept.firewall_active)
  BY <1>1 DEF AllFields
<1>4. "containers" \in Fields /\ "firewall_active" \in Fields
  BY DEF Fields, ListFields, DefaultScalars
<1>5. kept.containers = r.containers /\ kept.firewall_active = r.firewall_active
  BY <1>2, <1>4
<1>6. r = [x \in AllFields |-> r[x]]
  <2> HIDE DEF value
  <2> QED BY <1>1
<1>7. Reports(r, facts, panicked)
  BY <1>2, <1>3, <1>5, <1>6 DEF Reports, lost
<1> QED BY <1>7 DEF r

(* The report of a sound host is a good one, whichever scanners panicked. *)
LEMMA ReportIsGood ==
    ASSUME NEW facts, NEW panicked, Sound(facts), IsFiniteSet(panicked)
    PROVE  GoodReport(report_of(facts, panicked))
<1> DEFINE r == report_of(facts, panicked)
<1>0. Reports(r, facts, panicked)
  BY ReportFacts
<1> HIDE DEF r
<1>1. ASSUME NEW x \in Fields PROVE r[x] \in {Default(x), facts[x]}
  BY <1>0 DEF Reports
<1>2. \A l : WellFormed(l, {})
  BY DEF WellFormed
<1>3. ASSUME NEW l \in ListFields PROVE IsFiniteSet(r[l]) /\ WellFormed(l, r[l])
  <2>1. r[l] \in {{}, facts[l]}
    BY <1>1, <1>3, FieldFacts DEF Default
  <2> QED BY <1>2, <2>1, FS_EmptySet DEF Sound
<1>4. ASSUME NEW x \in Flags PROVE r[x] \in BOOLEAN
  <2>1. r[x] \in {DefaultScalars[x], facts[x]}
    BY <1>1, FieldFacts DEF Default
  <2> QED BY <2>1, FieldFacts DEF Sound
<1>5. GoodReport(r)
  BY <1>0, <1>3, <1>4 DEF Sound, GoodReport, Reports
<1> QED BY <1>5 DEF r

(* A good report is one that the lemmas above are about. *)
LEMMA GoodIsFinite ==
    ASSUME NEW r, GoodReport(r)
    PROVE  Finite(r)
<1>1. "sysctl_issues" \in ListFields
  BY DEF ListFields
<1> QED BY <1>1 DEF GoodReport, Sound, Finite

(* A scan, field by field. *)
LEMMA ScanFacts ==
    ASSUME NEW facts, NEW panicked, NEW policy, NEW day
    PROVE  LET s == scan(facts, panicked, policy, day) IN
           /\ s.report = report_of(facts, panicked)
           /\ s.found = evaluate(report_of(facts, panicked))
           /\ s.score = score(evaluate(report_of(facts, panicked)))
           /\ s.hostname = IF "host" \in panicked THEN Unknown ELSE Hostname
           /\ s.shown = apply(policy, IF "host" \in panicked THEN Unknown ELSE Hostname, day,
                              evaluate(report_of(facts, panicked)))
BY DEF scan

(* A change of the host that keeps its facts sound. *)
LEMMA HostChanges ==
    ASSUME HostInv, NEW facts, facts = [x \in Fields |-> facts[x]], Sound(facts), HostBecomes(facts)
    PROVE  HostInv'
<1>1. /\ host' = facts /\ now' = scan(facts, {}, <<>>, today) /\ failed = {} /\ rules = <<>>
      /\ topic' = topic /\ failed' = failed /\ base' = base /\ rules' = rules /\ today' = today
  BY DEF HostBecomes
<1> QED BY <1>1 DEF HostInv

(* The facts stay sound and the report on show is always the one of a scan (every command
   of main.rs scans afresh): what the theorems below rest on. *)
THEOREM HostInvariance == Spec => []HostInv
<1>1. Init => HostInv
  <2> SUFFICES ASSUME Init PROVE HostInv
    OBVIOUS
  <2>1. Sound(host)
    BY FactsAssumption DEF Init, Sound
  <2>2. <<>> \in Seq(Rules) /\ loads(<<>>)
    BY DEF loads
  <2> QED BY <2>1, <2>2, FS_EmptySet, FactsAssumption DEF Init, HostInv
<1>2. HostInv /\ [Next]_vars => HostInv'
  <2> SUFFICES ASSUME HostInv, [Next]_vars PROVE HostInv'
    OBVIOUS
  <2>0. /\ topic \subseteq Fields /\ host = [x \in Fields |-> host[x]] /\ Sound(host)
        /\ \A l \in ListFields : WellFormed(l, Entries[l])
        /\ \A x \in Flags : Values[x] \subseteq BOOLEAN
    BY FactsAssumption DEF HostInv
  <2>1. ASSUME NEW l \in topic \cap ListFields, NEW e \in Entries[l], Appear(l, e)
        PROVE  HostInv'
    <3> DEFINE es == {x \in host[l] : x.k # e.k} \cup {e}
               facts == [host EXCEPT ![l] = es]
    <3>1. HostBecomes(facts)
      BY <2>1 DEF Appear
    <3>2. /\ facts = [x \in Fields |-> facts[x]] /\ facts[l] = es
          /\ \A x \in Fields \ {l} : facts[x] = host[x]
      BY <2>0, <2>1
    <3>3. IsFiniteSet(es)
      <4>1. IsFiniteSet({x \in host[l] : x.k # e.k})
        BY <2>0, FS_Subset DEF Sound
      <4> QED BY <4>1, FS_AddElement
    <3>4. WellFormed(l, es)
      <4>1. WellFormed(l, host[l]) /\ WellFormed(l, Entries[l])
        BY <2>0 DEF Sound
      <4>2. es \subseteq host[l] \cup Entries[l]
        BY <2>1
      <4> HIDE DEF es
      <4> QED BY <4>1, <4>2 DEF WellFormed
    <3> HIDE DEF es, facts
    <3>5. Sound(facts)
      BY <2>0, <2>1, <3>2, <3>3, <3>4, FieldFacts DEF Sound
    <3> QED BY <3>1, <3>2, <3>5, HostChanges
  <2>2. ASSUME NEW l \in topic \cap ListFields, NEW e \in Entries[l], Disappear(l, e)
        PROVE  HostInv'
    <3> DEFINE es == host[l] \ {e}
               facts == [host EXCEPT ![l] = es]
    <3>1. HostBecomes(facts)
      BY <2>2 DEF Disappear
    <3>2. /\ facts = [x \in Fields |-> facts[x]] /\ facts[l] = es
          /\ \A x \in Fields \ {l} : facts[x] = host[x]
      BY <2>0, <2>2
    <3>3. IsFiniteSet(es)
      BY <2>0, FS_Subset DEF Sound
    <3>4. WellFormed(l, es)
      <4>1. WellFormed(l, host[l]) /\ es \subseteq host[l]
        BY <2>0 DEF Sound
      <4> HIDE DEF es
      <4> QED BY <4>1 DEF WellFormed
    <3> HIDE DEF es, facts
    <3>5. Sound(facts)
      BY <2>0, <2>2, <3>2, <3>3, <3>4, FieldFacts DEF Sound
    <3> QED BY <3>1, <3>2, <3>5, HostChanges
  <2>3. ASSUME NEW x \in topic \ ListFields, NEW v \in Values[x], Turn(x, v)
        PROVE  HostInv'
    <3> DEFINE facts == [host EXCEPT ![x] = v]
    <3>1. HostBecomes(facts)
      BY <2>3 DEF Turn
    <3>2. /\ facts = [y \in Fields |-> facts[y]] /\ facts[x] = v
          /\ \A y \in Fields \ {x} : facts[y] = host[y]
      BY <2>0, <2>3
    <3> HIDE DEF facts
    <3>5. Sound(facts)
      BY <2>0, <2>3, <3>2, FieldFacts DEF Sound
    <3> QED BY <3>1, <3>2, <3>5, HostChanges
  <2>4. CASE Snapshot
    <3>1. /\ base' = snapshot(now) /\ failed' = {} /\ now' = scan(host, {}, rules, today)
          /\ topic' = topic /\ host' = host /\ rules' = rules /\ today' = today
      BY <2>4 DEF Snapshot
    <3>2. base'.report = now.report /\ base'.score = now.score
      BY <3>1 DEF snapshot
    <3>3. GoodReport(now.report) /\ now.score = score(evaluate(now.report))
      BY ReportIsGood, ScanFacts DEF HostInv
    <3>4. GoodReport(base'.report) /\ base'.score = score(evaluate(base'.report))
      BY <3>2, <3>3
    <3> QED BY <3>1, <3>4, FS_EmptySet DEF HostInv
  <2>5. ASSUME NEW s \in Scanner, ScannerPanics(s)
        PROVE  HostInv'
    BY <2>5, FS_AddElement DEF ScannerPanics, HostInv
  <2>6. ASSUME NEW rule \in Rules, Accept(rule)
        PROVE  HostInv'
    <3>1. /\ rules' = Append(rules, rule) /\ loads(rules')
          /\ now' = scan(host, failed, rules', today)
          /\ UNCHANGED <<topic, host, failed, base, today>>
      BY <2>6 DEF Accept
    <3>2. rules' \in Seq(Rules)
      BY <3>1 DEF HostInv
    <3> QED BY <3>1, <3>2 DEF HostInv
  <2>7. CASE DayPasses
    <3>1. /\ today' = today + 1 /\ now' = scan(host, failed, rules, today')
          /\ UNCHANGED <<topic, host, failed, base, rules>>
      BY <2>7 DEF DayPasses
    <3> QED BY <3>1 DEF HostInv
  <2>8. CASE UNCHANGED vars
    BY <2>8 DEF vars, HostInv
  <2> QED BY <2>1, <2>2, <2>3, <2>4, <2>5, <2>6, <2>7, <2>8 DEF Next
<1> QED BY <1>1, <1>2, PTL DEF Spec
-------------------------------------------------------------------------------
-------------------------------------------------------------------------------
(* Accepted risks: the first rule that matches. *)
LEMMA Earliest ==
    ASSUME NEW m \in SUBSET Nat, m # {}
    PROVE  Min(m) \in m
<1>1. \E x \in m : \A y \in m : x <= y
  BY LeastNumber
<1> QED BY <1>1 DEF Min

(* The first rule that matches decides, and one that has not expired tomorrow has not expired
   today. *)
LEMMA AcceptsLapses ==
    ASSUME NEW policy \in Seq(Rules), NEW h, NEW day \in Nat, NEW f,
           accepts(policy, h, day + 1, f)
    PROVE  accepts(policy, h, day, f)
<1> DEFINE m == matching(policy, h, f)
<1>1. m # {} /\ policy[Min(m)].expires >= day + 1
  BY DEF accepts
<1>2. m \subseteq DOMAIN policy /\ DOMAIN policy \subseteq Nat
  BY DEF matching
<1>3. Min(m) \in DOMAIN policy
  BY <1>1, <1>2, Earliest
<1>4. policy[Min(m)].expires \in Int
  BY <1>3, RulesAssumption
<1>5. policy[Min(m)].expires >= day
  BY <1>1, <1>4
<1> QED BY <1>1, <1>5 DEF accepts

(* What is live with the accepted risks laid over the findings. *)
LEMMA ShownFacts ==
    ASSUME NEW policy, NEW h, NEW day, NEW fs, \A f \in fs : "suppressed" \in DOMAIN f
    PROVE  live(apply(policy, h, day, fs)) = {f \in live(fs) : ~accepts(policy, h, day, f)}
<1> DEFINE hide(f) == [f EXCEPT !.suppressed = "accepted"]
           pick(f) == IF f.suppressed = "none" /\ accepts(policy, h, day, f) THEN hide(f) ELSE f
<1>1. apply(policy, h, day, fs) = {pick(f) : f \in fs}
  BY DEF apply
<1>2. \A f \in fs : hide(f).suppressed # "none"
  OBVIOUS
<1> HIDE DEF hide
<1> QED BY <1>1, <1>2 DEF live

(* A policy that loads accepts no finding of a compromise and no COV-001. *)
LEMMA NeverAccepted ==
    ASSUME NEW policy, NEW h, NEW day, NEW f, loads(policy), is_never_acceptable(f.id)
    PROVE  ~accepts(policy, h, day, f)
BY DEF loads, accepts, matching

(* The scan of a state of the invariant. *)
ScanName == IF "host" \in failed THEN Unknown ELSE Hostname

(* The scan of a state of the invariant. *)
LEMMA NowFacts ==
    ASSUME HostInv
    PROVE  /\ now.report = report_of(host, failed)
           /\ now.found = evaluate(now.report) /\ now.score = score(evaluate(now.report))
           /\ now.hostname = ScanName
           /\ now.shown = apply(rules, ScanName, today, now.found)
           /\ GoodReport(now.report) /\ Finite(now.report)
           /\ Reports(now.report, host, failed)
           /\ \A f \in now.found : "suppressed" \in DOMAIN f
<1>1. now = scan(host, failed, rules, today)
  BY DEF HostInv
<1>2. /\ now.report = report_of(host, failed)
      /\ now.found = evaluate(now.report) /\ now.score = score(evaluate(now.report))
      /\ now.hostname = ScanName
      /\ now.shown = apply(rules, ScanName, today, now.found)
  BY <1>1, ScanFacts DEF ScanName
<1>3. GoodReport(now.report) /\ Finite(now.report)
  BY <1>2, ReportIsGood, GoodIsFinite DEF HostInv
<1>4. Reports(now.report, host, failed)
  BY <1>2, ReportFacts
<1>5. \A f \in now.found : "suppressed" \in DOMAIN f
  BY <1>2, <1>3, FindingsShaped
<1> QED BY <1>2, <1>3, <1>4, <1>5

(* A day later nothing that was live is hidden: apply (acceptance.rs 152-187) lets an expired
   rule accept nothing, and a rule that has expired stays expired. *)
THEOREM AcceptancesLapse == Spec => LapsesReopen
<1> DEFINE Reopens == today' > today => live(now.shown) \subseteq live(now'.shown)
<1>1. ASSUME HostInv, HostInv', [Next]_vars, today' > today
      PROVE  live(now.shown) \subseteq live(now'.shown)
  <2>1. DayPasses
    <3>1. today \in Nat /\ today' # today
      BY <1>1 DEF HostInv
    <3>2. \A facts : ~HostBecomes(facts)
      BY <3>1 DEF HostBecomes
    <3>3. ~Snapshot /\ (\A s : ~ScannerPanics(s)) /\ (\A rule : ~Accept(rule)) /\ vars' # vars
      BY <3>1 DEF Snapshot, ScannerPanics, Accept, vars
    <3>4. \A l, e : ~Appear(l, e) /\ ~Disappear(l, e) /\ ~Turn(l, e)
      BY <3>2 DEF Appear, Disappear, Turn
    <3> QED BY <1>1, <3>3, <3>4 DEF Next
  <2>2. /\ today' = today + 1 /\ host' = host /\ failed' = failed /\ rules' = rules
    BY <2>1 DEF DayPasses
  <2>3. /\ now.shown = apply(rules, ScanName, today, now.found)
        /\ now.found = evaluate(report_of(host, failed))
        /\ \A f \in now.found : "suppressed" \in DOMAIN f
    BY <1>1, NowFacts
  <2>4. now' = scan(host', failed', rules', today')
    BY <1>1 DEF HostInv
  <2>5. now'.shown = apply(rules, ScanName, today + 1, now.found)
    BY <2>2, <2>3, <2>4, ScanFacts DEF ScanName
  <2>6. rules \in Seq(Rules) /\ today \in Nat
    BY <1>1 DEF HostInv
  <2>7. \A f : accepts(rules, ScanName, today + 1, f) => accepts(rules, ScanName, today, f)
    BY <2>6, AcceptsLapses
  <2>8. /\ live(now.shown) = {f \in live(now.found) : ~accepts(rules, ScanName, today, f)}
        /\ live(now'.shown) = {f \in live(now.found) : ~accepts(rules, ScanName, today + 1, f)}
    BY <2>3, <2>5, ShownFacts
  <2> QED BY <2>7, <2>8
<1>2. HostInv /\ HostInv' /\ [Next]_vars => [Reopens]_vars
  BY <1>1
<1> QED BY <1>2, HostInvariance, PTL DEF Spec, LapsesReopen

-------------------------------------------------------------------------------
-------------------------------------------------------------------------------
(* Score and verdict: one carrier of weight for the class, or none. *)
LEMMA ClassIsWeighedOnce ==
    ASSUME HostInv
    PROVE  ClassWeighedOnce
<1> DEFINE r == now.report
           carriers == {f \in live(now.found) : /\ f.id \in {"SEC-005", "SEC-012", "SEC-061"}
                                                /\ f.weight = RISK_PASSWORDLESS_ROOT}
<1> SUFFICES ASSUME "security" \notin failed
             PROVE  Cardinality(carriers) =
                      IF prp_sec012(r) \/ prp_sec005(r)
                            \/ (\E g \in r.root_equivalent_groups : g.bypasses_sudo)
                      THEN 1 ELSE 0
  BY DEF ClassWeighedOnce
<1>1. now.found = evaluate(r) /\ Finite(r) /\ r.failed_scanners = failed
  BY NowFacts DEF Reports
<1> HIDE DEF r
<1>2. \A f \in ClassFindings(r) : f.id \in Carriers /\ f.source = "security"
  BY ClassTiers
<1>3. \A f \in OtherFindings(r) : f.id \notin Carriers
  BY <1>1, OthersWeighed DEF Weighed, Finite
<1>4. \A f \in Notes(r) : f.id \notin Carriers
  BY <1>1, NotesFacts DEF Carriers
<1>5. carriers = {f \in live(ClassFindings(r)) : f.weight = RISK_PASSWORDLESS_ROOT}
  BY <1>1, <1>2, <1>3, <1>4, EvaluateSplit DEF live, Rest, Carrying, Carriers
<1> QED BY <1>5, ClassOnce DEF Bypass

(* Accepted risks leave the verdict Compromised and every COV-001 live. *)
LEMMA AcceptanceIsHonest ==
    ASSUME HostInv
    PROVE  AcceptanceNeverHidesCompromise
<1> DEFINE out(f) == accepts(rules, ScanName, today, f)
<1>1. live(now.shown) = {f \in live(now.found) : ~out(f)}
  BY NowFacts, ShownFacts
<1>2. \A f : is_never_acceptable(f.id) => ~out(f)
  BY NeverAccepted DEF HostInv
<1> HIDE DEF out
<1>3. \A id \in COMPROMISE_IDS : has(now.found, id) <=> has(now.shown, id)
  BY <1>1, <1>2 DEF has, is_never_acceptable
<1>4. compromised_host(now.found) = compromised_host(now.shown)
  BY <1>3 DEF compromised_host
<1>5. ASSUME NEW s \in failed
      PROVE  \E f \in live(now.shown) : f.id = "COV-001" /\ f.of = s
  <2>1. /\ now.found = evaluate(now.report) /\ Finite(now.report)
        /\ now.report.failed_scanners = failed
    BY NowFacts DEF Reports
  <2>2. PICK f \in Notes(now.report) : f.of = s
    BY <2>1, NotesFacts
  <2>3. f.id = "COV-001" /\ f.suppressed = "none" /\ f \in now.found
    BY <2>1, <2>2, NotesFacts, EvaluateSplit
  <2>4. f \in live(now.shown)
    BY <1>1, <1>2, <2>3 DEF live, is_never_acceptable, EXTRA_NEVER_ACCEPTABLE
  <2> QED BY <2>2, <2>3, <2>4
<1> QED BY <1>4, <1>5 DEF AcceptanceNeverHidesCompromise

(* Passwordless root is weighed once (R34-01), a compromised host scores 55 or more
   (scoring.rs 3415) and accept.json hides no compromise and no failed scanner (acceptance.rs
   34-50), for any facts, any policy that loads, any scanners that panic. *)
THEOREM WeightsSound == Spec => []WeightsAreSound
<1>1. HostInv => WeightsAreSound
  <2> SUFFICES ASSUME HostInv PROVE WeightsAreSound
    OBVIOUS
  <2>1. CompromiseShowsInScore
    <3>1. now.found = evaluate(now.report) /\ Finite(now.report)
          /\ now.score = score(evaluate(now.report))
      BY NowFacts
    <3> QED BY <3>1, CompromiseScores DEF CompromiseShowsInScore
  <2> QED BY <2>1, ClassIsWeighedOnce, AcceptanceIsHonest DEF WeightsAreSound
<1> QED BY <1>1, HostInvariance, PTL

(* The order of the verdicts. *)
LEMMA SeverityMonotone ==
    ASSUME NEW D, NEW E, compromised_host(D) => compromised_host(E),
           has_critical(D) => has_critical(E)
    PROVE  SeverityOf(verdict(E)) >= SeverityOf(verdict(D))
BY DEF SeverityOf, verdict, security_verdict_from_findings

(* A controller that evaluates a collected report again (main.rs 172) reaches a verdict no
   milder than the host's own, whatever is in the report, but for a region its own processes
   or trees vouch for. *)
THEOREM OnlyVouchersExcuse == Spec => []OnlyVouchingMakesMilder
<1>1. HostInv => OnlyVouchingMakesMilder
  <2> SUFFICES ASSUME HostInv, NEW m \in Controllers,
                      \A f \in now.report.library_injections : ~Vouches(m, f)
               PROVE  ~(SeverityOf(verdict(evaluate_on(m))) < SeverityOf(verdict(now.found)))
    BY DEF OnlyVouchingMakesMilder
  <2> DEFINE r == now.report
             q == [r EXCEPT !.at = m]
  <2>1. now.found = evaluate(r) /\ Finite(r) /\ r.at = OnHost /\ r = [x \in AllFields |-> r[x]]
    BY NowFacts DEF Reports
  <2>2. \A f \in r.library_injections : ~Vouches(m, f)
    OBVIOUS
  <2> HIDE DEF r
  <2>3. q.at = m /\ \A x \in AllFields \ {"at"} : q[x] = r[x]
    BY <2>1 DEF AllFields
  <2>4. Elsewhere(r, q)
    BY <2>1, <2>2, <2>3, FieldFacts, ControllersAssumption DEF Elsewhere, AllFields
  <2> HIDE DEF q
  <2>5. /\ SeverityOf(verdict(evaluate(q))) >= SeverityOf(verdict(evaluate(r)))
        /\ SeverityOf(verdict(evaluate(q))) \in Int /\ SeverityOf(verdict(evaluate(r))) \in Int
    <3>1. \A fs : SeverityOf(verdict(fs)) \in Int
      BY DEF SeverityOf, verdict, security_verdict_from_findings
    <3> QED BY <2>1, <2>4, <3>1, VerdictElsewhere, SeverityMonotone
  <2> QED BY <2>1, <2>5 DEF evaluate_on, q, r
<1> QED BY <1>1, HostInvariance, PTL

(* Published ports follow the containers. *)
LEMMA BypassGrows ==
    ASSUME NEW r, NEW q, GoodReport(r), GoodReport(q),
           r.containers \subseteq q.containers, r.firewall_active = q.firewall_active
    PROVE  r.firewall_bypass \subseteq q.firewall_bypass
<1>1. /\ r.firewall_bypass = detect_firewall_bypass(r.containers, r.firewall_active)
      /\ q.firewall_bypass = detect_firewall_bypass(q.containers, r.firewall_active)
  BY DEF GoodReport
<1> QED BY <1>1 DEF detect_firewall_bypass

(* Two good reports that differ only by more in their lists. *)
LEMMA GoodIsWorse ==
    ASSUME NEW r, NEW q, GoodReport(r), GoodReport(q),
           \A x \in ListFields \ {"backup_tools"} : r[x] \subseteq q[x],
           \A x \in (Fields \ ListFields) \cup {"backup_tools"} : r[x] = q[x]
    PROVE  Worse(r, q)
<1>1. r.containers \subseteq q.containers /\ r.firewall_active = q.firewall_active
  BY DEF Fields, ListFields, DefaultScalars
<1>2. r.at = q.at
  BY DEF GoodReport
<1> QED BY <1>1, <1>2, BypassGrows DEF Worse

(* One more entry in any list of evidence lowers neither the score, the base tier of SEC-005
   apart, nor the verdict (evaluate and from_findings, scoring.rs), for any host. *)
THEOREM EvidenceCounts == Spec => EvidenceNeverExcuses
<1> DEFINE Counts == \A l \in ListFields \ {"backup_tools"} : OneMoreEntry(l) =>
                        /\ now'.score + BaseTier(l) >= now.score
                        /\ SeverityOf(verdict(now'.found)) >= SeverityOf(verdict(now.found))
<1>1. ASSUME HostInv, HostInv', [Next]_vars, NEW l \in ListFields \ {"backup_tools"},
             OneMoreEntry(l)
      PROVE  /\ now'.score + BaseTier(l) >= now.score
             /\ SeverityOf(verdict(now'.found)) >= SeverityOf(verdict(now.found))
  <2> DEFINE r == now.report
             q == now'.report
  <2>1. host' # host
    BY <1>1 DEF OneMoreEntry
  <2>2. \E facts : HostBecomes(facts)
    <3>1. ~Snapshot /\ (\A s : ~ScannerPanics(s)) /\ (\A rule : ~Accept(rule)) /\ ~DayPasses
          /\ vars' # vars
      BY <2>1 DEF Snapshot, ScannerPanics, Accept, DayPasses, vars
    <3> QED BY <1>1, <3>1 DEF Next, Appear, Disappear, Turn
  <2>3. failed = {} /\ failed' = {}
    BY <2>2 DEF HostBecomes
  <2>4. /\ now.found = evaluate(r) /\ now.score = score(evaluate(r)) /\ Finite(r)
        /\ GoodReport(r) /\ Reports(r, host, {})
    BY <1>1, <2>3, NowFacts
  <2>5. /\ now'.found = evaluate(q) /\ now'.score = score(evaluate(q)) /\ Finite(q)
        /\ GoodReport(q) /\ Reports(q, host', {})
    <3>1. now' = scan(host', failed', rules', today') /\ Sound(host') /\ IsFiniteSet(failed')
      BY <1>1 DEF HostInv
    <3>2. /\ q = report_of(host', failed') /\ now'.found = evaluate(q)
          /\ now'.score = score(evaluate(q))
      BY <3>1, ScanFacts
    <3>3. GoodReport(q) /\ Reports(q, host', failed')
      BY <3>1, <3>2, ReportIsGood, ReportFacts
    <3> HIDE DEF q
    <3> QED BY <2>3, <3>2, <3>3, GoodIsFinite
  <2>6. /\ \A x \in Fields : r[x] = host[x] /\ q[x] = host'[x]
        /\ r.failed_scanners = {} /\ q.failed_scanners = {}
    BY <2>4, <2>5 DEF Reports
  <2>7. /\ host[l] \subseteq host'[l] /\ \A x \in Fields \ {l} : host[x] = host'[x]
        /\ l \in ListFields /\ l # "backup_tools"
    BY <1>1 DEF OneMoreEntry
  <2> HIDE DEF r, q
  <2>8. /\ \A x \in ListFields \ {"backup_tools"} : r[x] \subseteq q[x]
        /\ \A x \in (Fields \ ListFields) \cup {"backup_tools"} : r[x] = q[x]
    <3>1. "backup_tools" \in ListFields
      BY DEF ListFields
    <3> QED BY <2>6, <2>7, <3>1, FieldFacts
  <2>9. Worse(r, q)
    BY <2>4, <2>5, <2>8, GoodIsWorse
  <2>10. SeverityOf(verdict(now'.found)) >= SeverityOf(verdict(now.found))
    BY <2>4, <2>5, <2>6, <2>9, VerdictMonotone, SeverityMonotone
  <2>11. /\ score(evaluate(r)) \in Nat /\ score(evaluate(q)) \in Nat
         /\ score(evaluate(r)) <= score(evaluate(q)) + 5
         /\ r.sudo_nopasswd_entries = q.sudo_nopasswd_entries =>
              score(evaluate(r)) <= score(evaluate(q))
    BY <2>4, <2>5, <2>6, <2>9, ScoreMonotone, ScoreFacts
  <2>12. l # "sudo_nopasswd_entries" => r.sudo_nopasswd_entries = q.sudo_nopasswd_entries
    <3>1. "sudo_nopasswd_entries" \in Fields
      BY DEF Fields, ListFields
    <3> QED BY <2>6, <2>7, <3>1
  <2>13. now'.score + BaseTier(l) >= now.score
    BY <2>4, <2>5, <2>11, <2>12 DEF BaseTier
  <2> QED BY <2>10, <2>13
<1>2. HostInv /\ HostInv' /\ [Next]_vars => [Counts]_vars
  BY <1>1
<1> QED BY <1>2, HostInvariance, PTL DEF Spec, EvidenceNeverExcuses

-------------------------------------------------------------------------------
-------------------------------------------------------------------------------
(* Drift: the keys that appeared. *)
LEMMA AppearedFacts ==
    ASSUME NEW field, NEW b, NEW a, NEW sev, NEW c
    PROVE  c \in appeared(field, b, a, sev)
             <=> \E k \in keys_of(a) \ keys_of(b) :
                    c = [field |-> field, k |-> k, severity |-> sev]
BY DEF appeared, Change

(* The field and the severities of what diff_keys reports. *)
LEMMA DiffKeysFacts ==
    ASSUME NEW field, NEW b, NEW a, NEW new, NEW gone
    PROVE  \A c \in diff_keys(field, b, a, new, gone) :
             c.field = field /\ c.severity \in {new, gone}
BY AppearedFacts DEF diff_keys

(* The fields where something unread could pass for an improvement. *)
Guarded == {"shell_users", "containers.bounding", "listening_ports.exe_path"}
Apart(D) == \A c \in D : c.field \notin Guarded

(* A field that is compared as a plain value. *)
LEMMA PlainApart ==
    ASSUME NEW field, field \notin Guarded, NEW b, NEW a
    PROVE  Apart(plain(field, b, a))
BY DiffKeysFacts DEF plain, diff_str_set, Apart

(* Only three of the comparisons speak of a guarded field. *)
LEMMA OthersApart ==
    ASSUME NEW b, NEW a, NEW bscore, NEW ascore
    PROVE  \A c \in compare_reports(b, a, bscore, ascore) : c.field \in Guarded =>
             c \in exposure_drift(b, a) \cup shell_user_drift(b, a) \cup container_drift(b, a)
<1> USE DEF Apart, Guarded
<1>1. Apart(meta_drift(b, a))
  BY DEF meta_drift, When, Change
<1>2. Apart(risk_score_drift(b, a, bscore, ascore))
  BY DEF risk_score_drift, When, Change
<1>3. Apart(bool_drift(b, a))
  BY DEF bool_drift, compare_bool, When, Change
<1>4. Apart(cpu_drift(b, a))
  BY DEF cpu_drift, diff_entries, Change
<1>5. Apart(group_drift(b, a))
  BY DEF group_drift, When, Change
<1>6. Apart(installed_drift(b, a))
  BY DEF installed_drift, When, Change
<1>7. Apart(ssl_drift(b, a))
  BY DiffKeysFacts DEF ssl_drift, diff_entries, Change
<1>8. Apart(port_drift(b, a))
  BY DiffKeysFacts DEF port_drift, diff_entries, Change
<1>9. Apart(sshd_drift(b, a))
  <2> DEFINE at(r, v) == {d \in r.sshd_directives : d.value = v}
  <2>1. ASSUME NEW c \in sshd_drift(b, a)
        PROVE  \E v : c \in diff_str_set("sshd_directives", at(b, v), at(a, v))
    BY DEF sshd_drift
  <2>2. \A v : \A c \in diff_str_set("sshd_directives", at(b, v), at(a, v)) :
                 c.field = "sshd_directives"
    BY DiffKeysFacts DEF diff_str_set
  <2> HIDE DEF at
  <2> QED BY <2>1, <2>2
<1>10. Apart(netns_drift(b, a))
  BY DiffKeysFacts DEF netns_drift, diff_str_set, Change
<1>11. Apart(mount_ns_drift(b, a))
  BY DiffKeysFacts DEF mount_ns_drift, diff_str_set, Change
<1>12. Apart(update_drift(b, a))
  BY PlainApart DEF update_drift
<1>13. Apart(service_drift(b, a))
  BY PlainApart, DiffKeysFacts DEF service_drift
<1>14. Apart(setuid_drift(b, a))
  BY DiffKeysFacts DEF setuid_drift, diff_str_set, diff_entries, Change
<1>15. Apart(file_caps_drift(b, a))
  BY DiffKeysFacts DEF file_caps_drift, diff_str_set, diff_entries, Change
<1>16. Apart(sudoers_drift(b, a))
  BY PlainApart DEF sudoers_drift, When, Change
<1>17. Apart(ebpf_drift(b, a))
  BY PlainApart DEF ebpf_drift
<1>18. Apart(module_drift(b, a))
  BY PlainApart, AppearedFacts DEF module_drift
<1>19. Apart(taint_drift(b, a))
  BY DEF taint_drift, When, Change
<1>20. Apart(confinement_drift(b, a))
  BY PlainApart DEF confinement_drift, When, Change
<1>21. Apart(account_drift(b, a))
  BY PlainApart, DiffKeysFacts DEF account_drift
<1>22. Apart(credential_file_drift(b, a))
  BY PlainApart DEF credential_file_drift, diff_entries, Change
<1>23. Apart(hardening_drift(b, a))
  BY DiffKeysFacts DEF hardening_drift, diff_entries, Change
<1>24. Apart(tracing_drift(b, a))
  BY PlainApart DEF tracing_drift
<1>25. Apart(preload_drift(b, a))
  BY PlainApart DEF preload_drift
<1>26. Apart(generator_drift(b, a))
  BY DiffKeysFacts DEF generator_drift, diff_str_set, diff_entries, Change
<1>27. Apart(pam_drift(b, a))
  BY DiffKeysFacts DEF pam_drift, diff_str_set, diff_entries, Change
<1>28. Apart(core_pattern_drift(b, a))
  BY DEF core_pattern_drift, When, Change
<1>29. Apart(switch_drift(b, a))
  BY DiffKeysFacts DEF switch_drift, diff_entries, Change
<1>30. Apart(exec_start_drift(b, a))
  BY DiffKeysFacts DEF exec_start_drift, diff_str_set, diff_entries, Change
<1> QED BY <1>1, <1>2, <1>3, <1>4, <1>5, <1>6, <1>7, <1>8, <1>9, <1>10, <1>11, <1>12, <1>13,
           <1>14, <1>15, <1>16, <1>17, <1>18, <1>19, <1>20, <1>21, <1>22, <1>23, <1>24, <1>25,
           <1>26, <1>27, <1>28, <1>29, <1>30
    DEF compare_reports

(* An improvement in a guarded field is about something that was read again. *)
LEMMA GuardedChanges ==
    ASSUME NEW b, NEW a, NEW bscore, NEW ascore,
           NEW c \in compare_reports(b, a, bscore, ascore), c.severity = "Improved"
    PROVE  /\ c.field = "shell_users" => c.k \in keys_of(a.shell_users)
           /\ c.field = "containers.bounding" => entry(a.containers, c.k).bounding_read
           /\ c.field # "listening_ports.exe_path"
<1>1. CASE c \in exposure_drift(b, a)
  <2>1. \A p, q : observed(p, q, "Degraded") # "Improved"
    BY DEF observed
  <2> QED BY <1>1, <2>1 DEF exposure_drift, diff_entries, Change
<1>2. CASE c \in shell_user_drift(b, a)
  BY <1>2, AppearedFacts DEF shell_user_drift, diff_entries, Change, in_both
<1>3. CASE c \in container_drift(b, a)
  <2> DEFINE bc == b.containers
             ac == a.containers
             caps(k) == sets_drift("containers.cap_add", entry(bc, k).cap_add, entry(ac, k).cap_add)
             mounts(k) == sets_drift("containers.mounts", entry(bc, k).mounts, entry(ac, k).mounts)
             bounding == diff_entries("containers.bounding", bc, ac, bounding_severity)
             images == diff_entries("containers.image", bc, ac,
                           LAMBDA x, y : IF x.image = y.image THEN "none" ELSE "Degraded")
             ids == diff_entries("containers.image_id", bc, ac,
                        LAMBDA x, y : observed(x.image_id, y.image_id, "Degraded"))
             rights == diff_entries("containers.privileged", bc, ac,
                           LAMBDA x, y : flag_severity(x.privileged, y.privileged))
             keyed == diff_keys("containers", bc, ac, "Degraded", "Changed")
  <2>a. \A d \in keyed : d.field = "containers"
    BY DiffKeysFacts
  <2>b. /\ \A d \in images : d.field = "containers.image"
        /\ \A d \in ids : d.field = "containers.image_id"
        /\ \A d \in rights : d.field = "containers.privileged"
    BY DEF diff_entries, Change
  <2>c. \A k : /\ \A d \in caps(k) : d.field = "containers.cap_add"
               /\ \A d \in mounts(k) : d.field = "containers.mounts"
    BY DiffKeysFacts DEF sets_drift, diff_str_set
  <2>d. container_drift(b, a) = UNION {keyed, images, ids, rights,
                                       UNION {caps(k) \cup mounts(k) : k \in in_both(bc, ac)},
                                       bounding}
    BY DEF container_drift
  <2> HIDE DEF keyed, images, ids, rights, caps, mounts, bounding
  <2>1. CASE c \notin bounding
    BY <1>3, <2>1, <2>a, <2>b, <2>c, <2>d
  <2>2. CASE c \in bounding
    <3>1. c \in diff_entries("containers.bounding", b.containers, a.containers, bounding_severity)
      BY <2>2 DEF bounding
    <3>2. PICK k : c = [field |-> "containers.bounding", k |-> k,
                        severity |-> bounding_severity(entry(b.containers, k), entry(a.containers, k))]
      BY <3>1 DEF diff_entries, Change
    <3>3. \A x, y : bounding_severity(x, y) = "Improved" => y.bounding_read
      BY DEF bounding_severity
    <3> QED BY <3>2, <3>3
  <2> QED BY <2>1, <2>2
<1>4. CASE c.field \notin Guarded
  BY <1>4 DEF Guarded
<1> QED BY <1>1, <1>2, <1>3, <1>4, OthersApart

(* compare_reports (compare.rs, R28-21 and R28-02) reports nothing as improved that the later
   scan could not read, for any two reports. *)
THEOREM UnreadNotImproved == Spec => []UnreadIsNotImproved
<1>1. UnreadIsNotImproved
  BY GuardedChanges DEF UnreadIsNotImproved, changes
<1> QED BY <1>1, PTL

(* What improved in D is degraded in E. *)
Undone(D, E) ==
    \A c \in D : c.severity = "Improved" =>
        [field |-> c.field, k |-> c.k, severity |-> "Degraded"] \in E

(* Keys that appeared have disappeared the other way round. *)
LEMMA UndoneKeys ==
    ASSUME NEW field, NEW b, NEW a, NEW new, NEW gone,
           new = "Improved" => gone = "Degraded", gone = "Improved" => new = "Degraded"
    PROVE  Undone(diff_keys(field, b, a, new, gone), diff_keys(field, a, b, new, gone))
<1> SUFFICES ASSUME NEW c \in diff_keys(field, b, a, new, gone), c.severity = "Improved"
             PROVE  [field |-> c.field, k |-> c.k, severity |-> "Degraded"]
                        \in diff_keys(field, a, b, new, gone)
  BY DEF Undone
<1> DEFINE d == [field |-> field, k |-> c.k, severity |-> "Degraded"]
<1>1. CASE c \in appeared(field, b, a, new)
  <2>1. PICK k \in keys_of(a) \ keys_of(b) : c = [field |-> field, k |-> k, severity |-> new]
    BY <1>1, AppearedFacts
  <2>2. d \in appeared(field, b, a, gone)
    BY <2>1, AppearedFacts
  <2> QED BY <2>1, <2>2 DEF diff_keys
<1>2. CASE c \in appeared(field, a, b, gone)
  <2>1. PICK k \in keys_of(b) \ keys_of(a) : c = [field |-> field, k |-> k, severity |-> gone]
    BY <1>2, AppearedFacts
  <2>2. d \in appeared(field, a, b, new)
    BY <2>1, AppearedFacts
  <2> QED BY <2>1, <2>2 DEF diff_keys
<1> QED BY <1>1, <1>2 DEF diff_keys

(* A plain value is never an improvement. *)
LEMMA UndonePlain ==
    ASSUME NEW field, NEW b, NEW a
    PROVE  Undone(plain(field, b, a), plain(field, a, b))
BY UndoneKeys DEF plain, diff_str_set

(* Undone, comparison by comparison. *)
LEMMA UndoneUnion ==
    ASSUME NEW D, NEW E, NEW F, NEW G, Undone(D, E), Undone(F, G)
    PROVE  Undone(D \cup F, E \cup G)
BY DEF Undone

(* What compare_reports reads as a flag, a count or a value. *)
Comparable(r) ==
    /\ \A x \in Flags : r[x] \in BOOLEAN
    /\ \A e \in r.cpu_vulnerabilities : e.vulnerable \in BOOLEAN
    /\ \A e \in r.ssl_certificates : e.is_critical \in BOOLEAN /\ e.is_warning \in BOOLEAN
    /\ \A e \in r.containers : e.privileged \in BOOLEAN
    /\ \A e \in r.shell_users : e.keys \in Nat
    /\ \A e \in r.one_way_switches : e.value \in Nat \cup {Unreadable}
    /\ IsFiniteSet(r.sudo_nopasswd_entries)

(* The entry of a key that is there. *)
LEMMA EntryFacts ==
    ASSUME NEW es, NEW k \in keys_of(es)
    PROVE  entry(es, k) \in es /\ entry(es, k).k = k
BY DEF keys_of, entry

(* Each of the severities turns round with its arguments. *)
LEMMA SeveritiesTurn ==
    /\ \A p, q : set_severity(p, q) = "Improved" => set_severity(q, p) = "Degraded"
    /\ \A p, q \in BOOLEAN : flag_severity(p, q) = "Improved" => flag_severity(q, p) = "Degraded"
    /\ \A p, q \in Int : count_severity(p, q) = "Improved" => count_severity(q, p) = "Degraded"
    /\ \A p, q : observed(p, q, "Degraded") # "Improved"
<1>1. \A p, q : set_severity(p, q) = "Improved" => set_severity(q, p) = "Degraded"
  BY DEF set_severity, worse_if
<1>2. \A p, q \in BOOLEAN : flag_severity(p, q) = "Improved" => flag_severity(q, p) = "Degraded"
  BY DEF flag_severity, worse_if
<1>3. \A p, q \in Int : count_severity(p, q) = "Improved" => count_severity(q, p) = "Degraded"
  BY DEF count_severity, worse_if
<1>4. \A p, q : observed(p, q, "Degraded") # "Improved"
  BY DEF observed
<1> QED BY <1>1, <1>2, <1>3, <1>4

(* Every improvement that compare_reports gives is a degradation the other way round. *)
LEMMA ImprovedBack ==
    ASSUME NEW b, NEW a, NEW bscore \in Int, NEW ascore \in Int, Comparable(b), Comparable(a)
    PROVE  Undone(compare_reports(b, a, bscore, ascore), compare_reports(a, b, ascore, bscore))
<1> USE SeveritiesTurn
<1>1. Undone(meta_drift(b, a), meta_drift(a, b))
  BY DEF meta_drift, Undone, When, Change
<1>2. Undone(risk_score_drift(b, a, bscore, ascore), risk_score_drift(a, b, ascore, bscore))
  BY DEF risk_score_drift, worse_if, Undone, When, Change
<1>3. Undone(bool_drift(b, a), bool_drift(a, b))
  <2>1. ASSUME NEW x \in Flags, NEW dw \in BOOLEAN
        PROVE  Undone(compare_bool(x, b, a, dw), compare_bool(x, a, b, dw))
    <3>1. b[x] \in BOOLEAN /\ a[x] \in BOOLEAN
      BY DEF Comparable
    <3> QED BY <3>1 DEF worse_if, compare_bool, Undone, When, Change
  <2>2. /\ Undone(compare_bool("reboot_required", b, a, TRUE),
                  compare_bool("reboot_required", a, b, TRUE))
        /\ Undone(compare_bool("firewall_active", b, a, FALSE),
                  compare_bool("firewall_active", a, b, FALSE))
        /\ Undone(compare_bool("password_auth", b, a, TRUE),
                  compare_bool("password_auth", a, b, TRUE))
        /\ Undone(compare_bool("fail2ban_active", b, a, FALSE),
                  compare_bool("fail2ban_active", a, b, FALSE))
        /\ Undone(compare_bool("auditd_active", b, a, FALSE),
                  compare_bool("auditd_active", a, b, FALSE))
        /\ Undone(compare_bool("ntp_synchronized", b, a, FALSE),
                  compare_bool("ntp_synchronized", a, b, FALSE))
        /\ Undone(compare_bool("privileged", b, a, FALSE),
                  compare_bool("privileged", a, b, FALSE))
    BY <2>1 DEF Flags
  <2> DEFINE login(x, y) == When((x.root_login = "no") # (y.root_login = "no"),
                                 Change("root_login", "-", worse_if(y.root_login # "no")))
  <2>3. Undone(login(b, a), login(a, b))
    BY DEF Undone, When, Change, worse_if
  <2>4. bool_drift(b, a) =
          UNION {compare_bool("reboot_required", b, a, TRUE),
                 compare_bool("firewall_active", b, a, FALSE), login(b, a),
                 compare_bool("password_auth", b, a, TRUE),
                 compare_bool("fail2ban_active", b, a, FALSE),
                 compare_bool("auditd_active", b, a, FALSE),
                 compare_bool("ntp_synchronized", b, a, FALSE),
                 compare_bool("privileged", b, a, FALSE)}
    BY DEF bool_drift
  <2>5. bool_drift(a, b) =
          UNION {compare_bool("reboot_required", a, b, TRUE),
                 compare_bool("firewall_active", a, b, FALSE), login(a, b),
                 compare_bool("password_auth", a, b, TRUE),
                 compare_bool("fail2ban_active", a, b, FALSE),
                 compare_bool("auditd_active", a, b, FALSE),
                 compare_bool("ntp_synchronized", a, b, FALSE),
                 compare_bool("privileged", a, b, FALSE)}
    BY DEF bool_drift
  <2> HIDE DEF login
  <2> QED BY <2>2, <2>3, <2>4, <2>5 DEF Undone
<1>4. Undone(cpu_drift(b, a), cpu_drift(a, b))
  <2>1. \A k \in in_both(b.cpu_vulnerabilities, a.cpu_vulnerabilities) :
          /\ entry(b.cpu_vulnerabilities, k).vulnerable \in BOOLEAN
          /\ entry(a.cpu_vulnerabilities, k).vulnerable \in BOOLEAN
     BY EntryFacts DEF in_both, Comparable
  <2> QED BY <2>1 DEF cpu_drift, diff_entries, Undone, Change, in_both
<1>5. Undone(group_drift(b, a), group_drift(a, b))
  BY DEF group_drift, Undone, When, Change
<1>6. Undone(installed_drift(b, a), installed_drift(a, b))
  BY DEF installed_drift, Undone, When, Change
<1>7. Undone(ssl_drift(b, a), ssl_drift(a, b))
  <2>1. \A k \in in_both(b.ssl_certificates, a.ssl_certificates) :
          /\ entry(b.ssl_certificates, k).is_critical \in BOOLEAN
          /\ entry(a.ssl_certificates, k).is_critical \in BOOLEAN
          /\ entry(b.ssl_certificates, k).is_warning \in BOOLEAN
          /\ entry(a.ssl_certificates, k).is_warning \in BOOLEAN
     BY EntryFacts DEF in_both, Comparable
  <2> QED BY <2>1, UndoneKeys DEF ssl_drift, diff_entries, Undone, Change, in_both
<1>8. Undone(port_drift(b, a), port_drift(a, b))
  BY UndoneKeys DEF port_drift, diff_entries, Undone, Change
<1>9. Undone(sshd_drift(b, a), sshd_drift(a, b))
  <2> DEFINE at(r, v) == {d \in r.sshd_directives : d.value = v}
  <2>1. ASSUME NEW c \in sshd_drift(b, a)
        PROVE  \E v \in {d.value : d \in b.sshd_directives \cup a.sshd_directives} :
                  c \in diff_str_set("sshd_directives", at(b, v), at(a, v))
    BY DEF sshd_drift
  <2>2. ASSUME NEW v \in {d.value : d \in b.sshd_directives \cup a.sshd_directives}
        PROVE  diff_str_set("sshd_directives", at(a, v), at(b, v)) \subseteq sshd_drift(a, b)
    BY DEF sshd_drift
  <2>3. \A v : Undone(diff_str_set("sshd_directives", at(b, v), at(a, v)),
                      diff_str_set("sshd_directives", at(a, v), at(b, v)))
    BY UndoneKeys DEF diff_str_set
  <2> HIDE DEF at
  <2> QED BY <2>1, <2>2, <2>3 DEF Undone
<1>10. Undone(netns_drift(b, a), netns_drift(a, b))
  BY UndoneKeys DEF netns_drift
<1>11. Undone(mount_ns_drift(b, a), mount_ns_drift(a, b))
  BY UndoneKeys DEF mount_ns_drift
<1>12. Undone(update_drift(b, a), update_drift(a, b))
  BY UndonePlain DEF update_drift
<1>13. Undone(service_drift(b, a), service_drift(a, b))
  BY UndonePlain, UndoneKeys DEF service_drift, Undone
<1>14. Undone(setuid_drift(b, a), setuid_drift(a, b))
  BY UndoneKeys DEF setuid_drift, diff_str_set, diff_entries, Change, Undone, in_both
<1>15. Undone(file_caps_drift(b, a), file_caps_drift(a, b))
  BY UndoneKeys DEF file_caps_drift, diff_str_set, diff_entries, Change, Undone, in_both
<1>16. Undone(sudoers_drift(b, a), sudoers_drift(a, b))
  <2>1. /\ Cardinality(b.sudo_nopasswd_entries) \in Nat
        /\ Cardinality(a.sudo_nopasswd_entries) \in Nat
    BY FS_CardinalityType DEF Comparable
  <2> QED BY <2>1, UndonePlain DEF sudoers_drift, When, Change, worse_if, Undone
<1>17. Undone(ebpf_drift(b, a), ebpf_drift(a, b))
  BY UndonePlain DEF ebpf_drift
<1>18. Undone(module_drift(b, a), module_drift(a, b))
  BY UndonePlain, AppearedFacts DEF module_drift, Undone
<1>19. Undone(taint_drift(b, a), taint_drift(a, b))
  BY DEF taint_drift, Undone, When, Change
<1>20. Undone(confinement_drift(b, a), confinement_drift(a, b))
  BY UndonePlain DEF confinement_drift, Undone, When, Change
<1>21. Undone(account_drift(b, a), account_drift(a, b))
  BY UndonePlain, UndoneKeys DEF account_drift, Undone
<1>22. Undone(credential_file_drift(b, a), credential_file_drift(a, b))
  BY UndonePlain DEF credential_file_drift, diff_entries, Change, Undone
<1>23. Undone(hardening_drift(b, a), hardening_drift(a, b))
  BY UndoneKeys DEF hardening_drift, diff_entries, Change, Undone, in_both
<1>24. Undone(tracing_drift(b, a), tracing_drift(a, b))
  BY UndonePlain DEF tracing_drift
<1>25. Undone(preload_drift(b, a), preload_drift(a, b))
  BY UndonePlain DEF preload_drift, Undone
<1>26. Undone(generator_drift(b, a), generator_drift(a, b))
  BY UndoneKeys DEF generator_drift, diff_str_set, diff_entries, Change, Undone
<1>27. Undone(pam_drift(b, a), pam_drift(a, b))
  BY UndoneKeys DEF pam_drift, diff_str_set, diff_entries, Change, Undone
<1>28. Undone(core_pattern_drift(b, a), core_pattern_drift(a, b))
  BY DEF core_pattern_drift, Undone, When, Change
<1>29. Undone(switch_drift(b, a), switch_drift(a, b))
  <2>1. ASSUME NEW k \in in_both(b.one_way_switches, a.one_way_switches),
               switch_severity(entry(b.one_way_switches, k), entry(a.one_way_switches, k)) = "Improved"
        PROVE  switch_severity(entry(a.one_way_switches, k), entry(b.one_way_switches, k)) = "Degraded"
    <3>1. /\ entry(b.one_way_switches, k).value \in Nat \cup {Unreadable}
          /\ entry(a.one_way_switches, k).value \in Nat \cup {Unreadable}
      BY EntryFacts DEF in_both, Comparable
    <3> QED BY <2>1, <3>1 DEF switch_severity, Unreadable, worse_if
  <2> QED BY <2>1, UndoneKeys DEF switch_drift, diff_entries, Change, Undone, in_both
<1>30. Undone(exec_start_drift(b, a), exec_start_drift(a, b))
  BY UndoneKeys DEF exec_start_drift, diff_str_set, diff_entries, Change, Undone
<1>31. Undone(exposure_drift(b, a), exposure_drift(a, b))
  BY DEF exposure_drift, diff_entries, Change, Undone
<1>32. Undone(shell_user_drift(b, a), shell_user_drift(a, b))
  <2>1. \A k \in in_both(b.shell_users, a.shell_users) :
          entry(b.shell_users, k).keys \in Int /\ entry(a.shell_users, k).keys \in Int
     BY EntryFacts DEF in_both, Comparable
  <2> QED BY <2>1, AppearedFacts DEF shell_user_drift, diff_entries, Change, Undone, in_both
<1>33. Undone(container_drift(b, a), container_drift(a, b))
  <2> DEFINE bc == b.containers
             ac == a.containers
             sets(x, y, k) == sets_drift("containers.cap_add", entry(x, k).cap_add, entry(y, k).cap_add)
                               \cup sets_drift("containers.mounts", entry(x, k).mounts, entry(y, k).mounts)
  <2>1. Undone(diff_keys("containers", bc, ac, "Degraded", "Changed"),
               diff_keys("containers", ac, bc, "Degraded", "Changed"))
    BY UndoneKeys
  <2>2. Undone(diff_entries("containers.image", bc, ac,
                   LAMBDA x, y : IF x.image = y.image THEN "none" ELSE "Degraded"), {})
    BY DEF diff_entries, Undone, Change
  <2>3. Undone(diff_entries("containers.image_id", bc, ac,
                   LAMBDA x, y : observed(x.image_id, y.image_id, "Degraded")), {})
    BY DEF diff_entries, Undone, Change
  <2>4. Undone(diff_entries("containers.privileged", bc, ac,
                   LAMBDA x, y : flag_severity(x.privileged, y.privileged)),
               diff_entries("containers.privileged", ac, bc,
                   LAMBDA x, y : flag_severity(x.privileged, y.privileged)))
    <3>1. \A k \in in_both(bc, ac) :
             entry(bc, k).privileged \in BOOLEAN /\ entry(ac, k).privileged \in BOOLEAN
      BY EntryFacts DEF in_both, Comparable
    <3> QED BY <3>1 DEF diff_entries, Undone, Change, in_both
  <2>5. \A k : Undone(sets(bc, ac, k), sets(ac, bc, k))
    BY UndoneKeys, UndoneUnion DEF sets_drift, diff_str_set
  <2>6. Undone(UNION {sets(bc, ac, k) : k \in in_both(bc, ac)},
               UNION {sets(ac, bc, k) : k \in in_both(ac, bc)})
    <3> HIDE DEF sets
    <3> QED BY <2>5 DEF Undone, in_both
  <2>7. Undone(diff_entries("containers.bounding", bc, ac, bounding_severity),
               diff_entries("containers.bounding", ac, bc, bounding_severity))
    <3>1. \A x, y : bounding_severity(x, y) = "Improved" => bounding_severity(y, x) = "Degraded"
      BY DEF bounding_severity
    <3> QED BY <3>1 DEF diff_entries, Undone, Change, in_both
  <2> QED BY <2>1, <2>2, <2>3, <2>4, <2>6, <2>7 DEF container_drift, Undone
<1> QED BY <1>1, <1>2, <1>3, <1>4, <1>5, <1>6, <1>7, <1>8, <1>9, <1>10, <1>11, <1>12, <1>13,
           <1>14, <1>15, <1>16, <1>17, <1>18, <1>19, <1>20, <1>21, <1>22, <1>23, <1>24, <1>25,
           <1>26, <1>27, <1>28, <1>29, <1>30, <1>31, <1>32, <1>33 DEF compare_reports, Undone

(* A good report is one compare_reports reads. *)
LEMMA GoodIsComparable ==
    ASSUME NEW r, GoodReport(r)
    PROVE  Comparable(r)
<1>1. {"cpu_vulnerabilities", "ssl_certificates", "containers", "shell_users",
       "one_way_switches", "sudo_nopasswd_entries"} \subseteq ListFields
  BY DEF ListFields
<1>2. /\ WellFormed("cpu_vulnerabilities", r.cpu_vulnerabilities)
      /\ WellFormed("ssl_certificates", r.ssl_certificates)
      /\ WellFormed("containers", r.containers)
      /\ WellFormed("shell_users", r.shell_users)
      /\ WellFormed("one_way_switches", r.one_way_switches)
      /\ IsFiniteSet(r.sudo_nopasswd_entries)
  BY <1>1 DEF GoodReport, Sound
<1>3. \A x \in Flags : r[x] \in BOOLEAN
  BY DEF GoodReport, Sound
<1> QED BY <1>2, <1>3 DEF WellFormed, Comparable

(* First part of DriftIsHonest. *)
LEMMA ImprovementsTurn ==
    ASSUME HostInv
    PROVE  ImprovedBackIsDegraded
<1> SUFFICES ASSUME base # NoSnapshot, NEW c \in changes, c.severity = "Improved"
             PROVE  \E d \in compare_reports(now.report, base.report, now.score, base.score) :
                       d.field = c.field /\ d.k = c.k /\ d.severity = "Degraded"
  BY DEF ImprovedBackIsDegraded
<1>1. /\ GoodReport(base.report) /\ GoodReport(now.report)
      /\ base.score = score(evaluate(base.report)) /\ now.score = score(evaluate(now.report))
  BY NowFacts DEF HostInv
<1>2. base.score \in Int /\ now.score \in Int
  BY <1>1, GoodIsFinite, ScoreFacts
<1>3. Undone(changes, compare_reports(now.report, base.report, now.score, base.score))
  BY <1>1, <1>2, GoodIsComparable, ImprovedBack DEF changes
<1> DEFINE d == [field |-> c.field, k |-> c.k, severity |-> "Degraded"]
<1>4. d \in compare_reports(now.report, base.report, now.score, base.score)
  BY <1>3 DEF Undone
<1>5. d.field = c.field /\ d.k = c.k /\ d.severity = "Degraded"
  OBVIOUS
<1> QED BY <1>4, <1>5

(* Second part: the new compromise raises the score, and a higher score is a degradation. *)
LEMMA NewCompromiseIsDrift ==
    ASSUME HostInv
    PROVE  CompromiseIsDrift
<1> SUFFICES ASSUME base # NoSnapshot, failed = {}, OnlyWorse,
                    ~compromised_host(evaluate(base.report)),
                    security(evaluate(base.report)) < 60, compromised_host(now.found)
             PROVE  exit_single(changes) = EXIT_CRITICAL
  BY DEF CompromiseIsDrift
<1> DEFINE r == base.report
           q == now.report
<1>1. /\ GoodReport(r) /\ GoodReport(q) /\ q.failed_scanners = {} /\ now.found = evaluate(q)
      /\ base.score = score(evaluate(r)) /\ now.score = score(evaluate(q))
  BY NowFacts DEF HostInv, Reports
<1>2. /\ \A x \in ListFields \ {"backup_tools"} : r[x] \subseteq q[x]
      /\ \A x \in (Fields \ ListFields) \cup {"backup_tools"} : r[x] = q[x]
  <2>1. "backup_tools" \in Fields
    BY DEF Fields, ListFields
  <2> QED BY <2>1, FieldFacts DEF OnlyWorse
<1>3. r.scoring_version = q.scoring_version
  BY <1>2 DEF Fields, ListFields, DefaultScalars
<1>4. ~compromised_host(evaluate(r)) /\ security(evaluate(r)) < 60
  OBVIOUS
<1> HIDE DEF r, q
<1>5. Worse(r, q) /\ Finite(r) /\ Finite(q)
  BY <1>1, <1>2, GoodIsWorse, GoodIsFinite
<1>6. score(evaluate(r)) < score(evaluate(q))
  BY <1>1, <1>4, <1>5, CompromiseRaises
<1>7. score(evaluate(r)) \in Nat /\ score(evaluate(q)) \in Nat
  BY <1>5, ScoreFacts
<1> DEFINE c == [field |-> "risk_score", k |-> "-", severity |-> "Degraded"]
<1>8. c \in risk_score_drift(r, q, base.score, now.score)
  BY <1>1, <1>3, <1>6, <1>7 DEF risk_score_drift, When, Change, worse_if
<1>9. c \in changes /\ c.severity = "Degraded"
  BY <1>8 DEF changes, compare_reports, r, q
<1> QED BY <1>9 DEF exit_single, degraded

(* A fleet of one pairs by its name. *)
LEMMA OneNamed ==
    ASSUME NEW s
    PROVE  hostnames(<<s>>) = {s.hostname} /\ named(<<s>>, s.hostname) = s
<1>1. DOMAIN <<s>> = {1} /\ <<s>>[1] = s
  OBVIOUS
<1>2. {i \in DOMAIN <<s>> : <<s>>[i].hostname = s.hostname} = {1}
  BY <1>1
<1>3. Max({1}) = 1
  BY MaxFacts
<1>4. named(<<s>>, s.hostname) = <<s>>[Max({1})]
  BY <1>2 DEF named
<1> QED BY <1>1, <1>3, <1>4 DEF hostnames

(* Third part: a host is paired with itself, or reported as gone and as new, which is
   drift as well. *)
LEMMA PairingIsHonest == PairingHidesNothing
<1> SUFFICES exit_single(changes) <= exit_multi(compare_multi(<<base>>, <<snapshot(now)>>))
  BY DEF PairingHidesNothing
<1> DEFINE s == snapshot(now)
           D == compare_multi(<<base>>, <<s>>)
<1>1. s.hostname = now.hostname /\ s.report = now.report /\ s.score = now.score
  BY DEF snapshot
<1>2. exit_single(changes) \in {0, 1} /\ (exit_single(changes) = 1 => degraded(changes))
  BY DEF exit_single, EXIT_CRITICAL
<1>3. exit_multi(D) \in {0, 1}
  BY DEF exit_multi, EXIT_CRITICAL
<1> HIDE DEF s
<1>4. /\ hostnames(<<base>>) = {base.hostname} /\ hostnames(<<s>>) = {s.hostname}
      /\ named(<<base>>, base.hostname) = base /\ named(<<s>>, s.hostname) = s
  BY OneNamed
<1>5. /\ base.hostname \in DOMAIN D
      /\ D[base.hostname] = IF base.hostname # s.hostname
                            THEN Change("host.removed", "-", removed_severity)
                            ELSE compare_reports(base.report, s.report, base.score, s.score)
  BY <1>4 DEF compare_multi
<1>6. degraded(Change("host.removed", "-", removed_severity))
  BY DEF degraded, Change, removed_severity
<1>7. degraded(changes) => degraded(D[base.hostname])
  BY <1>1, <1>5, <1>6 DEF changes
<1>8. degraded(changes) => exit_multi(D) = 1
  BY <1>5, <1>7 DEF exit_multi, EXIT_CRITICAL
<1> QED BY <1>2, <1>3, <1>8 DEF s

(* compare --fail-on-drift may be relied on: an improvement undone is a degradation, a new
   compromise is drift, and pairing by host name hides none of it (compare.rs, main.rs). *)
THEOREM DriftHonest == Spec => []DriftIsHonest
<1>1. HostInv => DriftIsHonest
  BY ImprovementsTurn, NewCompromiseIsDrift, PairingIsHonest DEF DriftIsHonest
<1> QED BY <1>1, HostInvariance, PTL
===============================================================================
