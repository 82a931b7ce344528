------------------------- MODULE OperatorPartsProofs -------------------------
(***************************************************************************)
(* The theorems about the shared parts hold of the composition that TLC    *)
(* checks, and a security scan is graded by what its report says, for      *)
(* reports of every length.                                                *)
(***************************************************************************)
EXTENDS MCParts, Sequences, FiniteSetTheorems, TLAPS

-----------------------------------------------------------------------------
(* The loop of grade.  It is the only definition of ScanGrading that       *)
(* repeats, and all its counts are kept up to date as it goes.             *)

Findings == [vulnerability : Gradings!Vulnerabilities, waived : BOOLEAN]

Reports == [findings : Seq(Findings), total : Nat, waived : Nat, highest : Gradings!Levels,
            counts : [Gradings!Levels -> Nat]]

LEMMA NothingType == Gradings!Nothing \in Reports
  <1>1. Gradings!Unknown \in Gradings!Levels
    BY DEF Gradings!Levels
  <1>2. <<>> \in Seq(Findings)
    OBVIOUS
  <1> QED BY <1>1, <1>2 DEF Reports, Gradings!Nothing

LEMMA WithFindingType ==
  ASSUME NEW r \in Reports, NEW v \in Gradings!Vulnerabilities
  PROVE  Gradings!withFinding(r, v) \in Reports
  <1>1. v.level \in Gradings!Levels
    BY DEF Gradings!Vulnerabilities
  <1>2. \A b \in BOOLEAN : Append(r.findings, [vulnerability |-> v, waived |-> b]) \in Seq(Findings)
    <2>1. \A b \in BOOLEAN : [vulnerability |-> v, waived |-> b] \in Findings
      BY DEF Findings
    <2>2. r.findings \in Seq(Findings)
      BY DEF Reports
    <2> QED BY <2>1, <2>2
  <1>3. Gradings!waivedOff(r, v) \in Reports
    <2>1. r.waived + 1 \in Nat
      BY DEF Reports
    <2>2. Append(r.findings, [vulnerability |-> v, waived |-> TRUE]) \in Seq(Findings)
      BY <1>2
    <2> QED BY <2>1, <2>2 DEF Reports, Gradings!waivedOff
  <1>4. Gradings!counted(r, v) \in Reports
    <2>1. r.total + 1 \in Nat /\ [r.counts EXCEPT ![v.level] = @ + 1] \in [Gradings!Levels -> Nat]
      BY <1>1 DEF Reports
    <2>2. (IF v.level > r.highest THEN v.level ELSE r.highest) \in Gradings!Levels
      BY <1>1 DEF Reports
    <2> QED BY <1>2, <2>1, <2>2 DEF Reports, Gradings!counted
  <1> QED BY <1>3, <1>4 DEF Gradings!withFinding

\* The loop runs once for each of the findings.
LEMMA GradingLoop ==
  ASSUME found \in Seq(Gradings!Vulnerabilities)
  PROVE  /\ Gradings!grading[0] = Gradings!Nothing
         /\ \A k \in 1..Len(found) :
              Gradings!grading[k] = Gradings!withFinding(Gradings!grading[k - 1], found[k])
  <1> DEFINE n == Len(found)
             turn == [x \in Nat \X Reports |->
                        IF x[1] < n THEN Gradings!withFinding(x[2], found[x[1] + 1]) ELSE x[2]]
             body(g) == [k \in 0..n |-> IF k = 0 THEN Gradings!Nothing
                                        ELSE Gradings!withFinding(g[k - 1], found[k])]
  <1>0. n \in Nat /\ \A k \in 1..n : found[k] \in Gradings!Vulnerabilities
    OBVIOUS
  <1>1. turn \in [Nat \X Reports -> Reports]
    <2>1. ASSUME NEW x \in Nat \X Reports
          PROVE  (IF x[1] < n THEN Gradings!withFinding(x[2], found[x[1] + 1]) ELSE x[2]) \in Reports
      <3>1. x[1] \in Nat /\ x[2] \in Reports
        OBVIOUS
      <3>2. CASE x[1] < n
        <4>1. found[x[1] + 1] \in Gradings!Vulnerabilities
          BY <1>0, <3>1, <3>2
        <4> QED BY <3>1, <3>2, <4>1, WithFindingType
      <3>3. CASE ~(x[1] < n)
        BY <3>1, <3>3
      <3> QED BY <3>2, <3>3
    <2> QED BY <2>1
  <1>2. PICK f : Trackers!Iterates(f, Reports, Gradings!Nothing, turn)
    <2> HIDE DEF turn
    <2> QED BY <1>1, NothingType, Trackers!Iteration
  <1>3. /\ f \in [Nat -> Reports] /\ f[0] = Gradings!Nothing
        /\ \A k \in Nat : f[k + 1] = turn[<<k, f[k]>>]
    BY <1>2 DEF Trackers!Iterates
  <1> DEFINE h == [k \in 0..n |-> f[k]]
  <1>4. h = body(h)
    <2>1. ASSUME NEW k \in 0..n
          PROVE  h[k] = IF k = 0 THEN Gradings!Nothing
                        ELSE Gradings!withFinding(h[k - 1], found[k])
      <3>1. CASE k # 0
        <4>1. k - 1 \in Nat /\ k - 1 \in 0..n /\ (k - 1) + 1 = k /\ k - 1 < n
          BY <1>0, <3>1
        <4>2. f[k] = turn[<<k - 1, f[k - 1]>>] /\ <<k - 1, f[k - 1]>> \in Nat \X Reports
          BY <1>3, <4>1
        <4>3. f[k] = Gradings!withFinding(f[k - 1], found[k])
          BY <4>1, <4>2
        <4> QED BY <3>1, <4>1, <4>3
      <3> QED BY <1>0, <1>3, <3>1
    <2> QED BY <2>1
  <1>5. Gradings!grading = body(Gradings!grading)
    <2>1. Gradings!grading = CHOOSE g : g = body(g)
      BY DEF Gradings!grading
    <2> HIDE DEF body, h
    <2> QED BY <1>4, <2>1
  <1>6. \A k \in 0..n : Gradings!grading[k] = IF k = 0 THEN Gradings!Nothing
                          ELSE Gradings!withFinding(Gradings!grading[k - 1], found[k])
    BY <1>5
  <1> QED BY <1>0, <1>6

\* No earlier finding has its id and extension.
First(j) == \A m \in 1..j-1 : Gradings!key(found[m]) # Gradings!key(found[j])

KeysTo(k) == {Gradings!key(found[j]) : j \in 1..k}
KeysOf(fs) == {Gradings!key(fs[i].vulnerability) : i \in DOMAIN fs}
AtLevel(fs, l) == {i \in Gradings!unwaived(fs) : Gradings!level(fs[i]) = l}

\* The findings of the report so far are the first ones of each id and
\* extension, waived as the snapshot says.
FindingsUpTo(k, fs) ==
  /\ \A i \in DOMAIN fs :
       /\ fs[i].waived <=> fs[i].vulnerability.id \in waivers
       /\ \E j \in 1..k : First(j) /\ fs[i].vulnerability = found[j]
  /\ \A j \in 1..k : First(j) => \E i \in DOMAIN fs : fs[i].vulnerability = found[j]
  /\ KeysOf(fs) = KeysTo(k)

CountsOf(r) ==
  /\ r.total = Cardinality(Gradings!unwaived(r.findings))
  /\ r.waived = Cardinality(DOMAIN r.findings \ Gradings!unwaived(r.findings))
  /\ \A l \in Gradings!Levels : r.counts[l] = Cardinality(AtLevel(r.findings, l))

HighestOf(r) ==
  \A l \in Ranks :
    r.highest >= l <=> \E i \in Gradings!unwaived(r.findings) : Gradings!level(r.findings[i]) >= l

GradedUpTo(k, r) ==
  /\ r \in Reports
  /\ FindingsUpTo(k, r.findings) /\ CountsOf(r) /\ HighestOf(r)
  /\ IsFiniteSet(KeysTo(k)) /\ r.total + r.waived = Cardinality(KeysTo(k))

LEMMA Appended ==
  ASSUME NEW fs \in Seq(Findings), NEW f \in Findings
  PROVE  LET n == Len(fs) + 1
             gs == Append(fs, f)
             un == Gradings!unwaived(fs)
         IN  /\ DOMAIN gs = DOMAIN fs \cup {n} /\ n \notin DOMAIN fs
             /\ \A i \in DOMAIN fs : gs[i] = fs[i]
             /\ gs[n] = f
             /\ Gradings!unwaived(gs) = IF f.waived THEN un ELSE un \cup {n}
             /\ DOMAIN gs \ Gradings!unwaived(gs) = IF f.waived THEN (DOMAIN fs \ un) \cup {n}
                                                    ELSE DOMAIN fs \ un
             /\ KeysOf(gs) = KeysOf(fs) \cup {Gradings!key(f.vulnerability)}
             /\ \A l : AtLevel(gs, l) = IF ~f.waived /\ Gradings!level(f) = l
                                        THEN AtLevel(fs, l) \cup {n} ELSE AtLevel(fs, l)
  <1> DEFINE n == Len(fs) + 1
             gs == Append(fs, f)
  <1>1. /\ DOMAIN gs = DOMAIN fs \cup {n} /\ n \notin DOMAIN fs
        /\ \A i \in DOMAIN fs : gs[i] = fs[i]
        /\ gs[n] = f
    OBVIOUS
  <1>2. f.waived \in BOOLEAN /\ \A i \in DOMAIN fs : fs[i].waived \in BOOLEAN
    <2>1. \A g \in Findings : g.waived \in BOOLEAN
      BY DEF Findings
    <2>2. \A i \in DOMAIN fs : fs[i] \in Findings
      OBVIOUS
    <2> QED BY <2>1, <2>2
  <1> HIDE DEF n, gs
  <1>3. Gradings!unwaived(gs) = IF f.waived THEN Gradings!unwaived(fs) ELSE Gradings!unwaived(fs) \cup {n}
    BY <1>1, <1>2 DEF Gradings!unwaived
  <1>4. DOMAIN gs \ Gradings!unwaived(gs) =
          IF f.waived THEN (DOMAIN fs \ Gradings!unwaived(fs)) \cup {n}
          ELSE DOMAIN fs \ Gradings!unwaived(fs)
    <2>1. Gradings!unwaived(fs) \subseteq DOMAIN fs
      BY DEF Gradings!unwaived
    <2> QED BY <1>1, <1>2, <1>3, <2>1
  <1>5. KeysOf(gs) = KeysOf(fs) \cup {Gradings!key(f.vulnerability)}
    BY <1>1 DEF KeysOf
  <1>6. ASSUME NEW l
        PROVE  AtLevel(gs, l) = IF ~f.waived /\ Gradings!level(f) = l
                                THEN AtLevel(fs, l) \cup {n} ELSE AtLevel(fs, l)
    <2>1. \A i \in Gradings!unwaived(fs) : gs[i] = fs[i]
      BY <1>1 DEF Gradings!unwaived
    <2> QED BY <1>1, <1>2, <1>3, <2>1 DEF AtLevel
  <1> QED BY <1>1, <1>3, <1>4, <1>5, <1>6 DEF n, gs

LEMMA FiniteFindings ==
  ASSUME NEW fs \in Seq(Findings)
  PROVE  /\ IsFiniteSet(Gradings!unwaived(fs)) /\ IsFiniteSet(DOMAIN fs \ Gradings!unwaived(fs))
         /\ \A l : IsFiniteSet(AtLevel(fs, l))
         /\ Gradings!unwaived(fs) \subseteq DOMAIN fs
         /\ \A l : AtLevel(fs, l) \subseteq DOMAIN fs
  <1>1. IsFiniteSet(DOMAIN fs)
    <2>1. DOMAIN fs = 1..Len(fs) /\ Len(fs) \in Int
      OBVIOUS
    <2> QED BY <2>1, FS_Interval
  <1>2. Gradings!unwaived(fs) \in SUBSET (DOMAIN fs)
    BY DEF Gradings!unwaived
  <1>3. \A l : AtLevel(fs, l) \in SUBSET (DOMAIN fs)
    BY <1>2 DEF AtLevel
  <1> QED BY <1>1, <1>2, <1>3, FS_Subset

\* Where the loop continues with another finding, it is the first of its key
\* exactly when none of the findings so far has it.
LEMMA SeenIsNotFirst ==
  ASSUME found \in Seq(Gradings!Vulnerabilities), NEW k \in 1..Len(found), NEW fs,
         KeysOf(fs) = KeysTo(k - 1)
  PROVE  /\ Gradings!seen(fs, found[k]) <=> Gradings!key(found[k]) \in KeysTo(k - 1)
         /\ Gradings!seen(fs, found[k]) <=> ~First(k)
         /\ KeysTo(k) = KeysTo(k - 1) \cup {Gradings!key(found[k])}
  <1>1. k \in Nat /\ 1..k = (1..(k - 1)) \cup {k}
    OBVIOUS
  <1>2. Gradings!seen(fs, found[k]) <=> Gradings!key(found[k]) \in KeysOf(fs)
    BY DEF Gradings!seen, KeysOf
  <1>3. Gradings!key(found[k]) \in KeysTo(k - 1) <=> ~First(k)
    BY <1>1 DEF KeysTo, First
  <1>4. KeysTo(k) = KeysTo(k - 1) \cup {Gradings!key(found[k])}
    BY <1>1 DEF KeysTo
  <1> QED BY <1>2, <1>3, <1>4

\* One more finding: it is dropped, waived, or counted.
LEMMA GradingStep ==
  ASSUME found \in Seq(Gradings!Vulnerabilities), Gradings!ConstantsOK,
         NEW k \in 1..Len(found), NEW r, GradedUpTo(k - 1, r)
  PROVE  GradedUpTo(k, Gradings!withFinding(r, found[k]))
  <1> DEFINE v == found[k]
             f == [vulnerability |-> v, waived |-> v.id \in waivers]
             fs == r.findings
             gs == Append(fs, f)
             n == Len(fs) + 1
             q == Gradings!withFinding(r, v)
             un == Gradings!unwaived(fs)
  <1>1. /\ v \in Gradings!Vulnerabilities /\ r \in Reports /\ fs \in Seq(Findings) /\ f \in Findings
        /\ f.vulnerability = v /\ (f.waived <=> v.id \in waivers)
        /\ q \in Reports
    <2>1. v \in Gradings!Vulnerabilities /\ r \in Reports
      BY DEF GradedUpTo
    <2>2. fs \in Seq(Findings) /\ f \in Findings
      BY <2>1 DEF Reports, Findings
    <2> QED BY <2>1, <2>2, WithFindingType
  <1>2. KeysOf(fs) = KeysTo(k - 1) /\ FindingsUpTo(k - 1, fs)
    BY DEF GradedUpTo, FindingsUpTo
  <1>3. 1..k = (1..(k - 1)) \cup {k} /\ k \in 1..k
    OBVIOUS
  <1>4. /\ Gradings!seen(fs, v) <=> ~First(k)
        /\ Gradings!seen(fs, v) <=> Gradings!key(v) \in KeysTo(k - 1)
        /\ KeysTo(k) = KeysTo(k - 1) \cup {Gradings!key(v)}
    BY <1>2, SeenIsNotFirst
  <1>5. CASE Gradings!seen(fs, v)
    <2>1. q = r
      BY <1>5 DEF Gradings!withFinding
    <2>2. KeysTo(k) = KeysTo(k - 1) /\ ~First(k)
      BY <1>4, <1>5
    <2>3. FindingsUpTo(k, fs)
      BY <1>2, <1>3, <2>2 DEF FindingsUpTo
    <2>4. GradedUpTo(k, r)
      BY <2>2, <2>3 DEF GradedUpTo
    <2> QED BY <2>1, <2>4
  <1>6. CASE ~Gradings!seen(fs, v)
    <2> DEFINE isAt(l) == ~f.waived /\ Gradings!level(f) = l
    <2>1. /\ DOMAIN gs = DOMAIN fs \cup {n} /\ n \notin DOMAIN fs
          /\ \A i \in DOMAIN fs : gs[i] = fs[i]
          /\ gs[n] = f
          /\ Gradings!unwaived(gs) = IF f.waived THEN un ELSE un \cup {n}
          /\ DOMAIN gs \ Gradings!unwaived(gs) = IF f.waived THEN (DOMAIN fs \ un) \cup {n}
                                                 ELSE DOMAIN fs \ un
          /\ KeysOf(gs) = KeysOf(fs) \cup {Gradings!key(f.vulnerability)}
          /\ \A l : AtLevel(gs, l) = IF isAt(l) THEN AtLevel(fs, l) \cup {n} ELSE AtLevel(fs, l)
      BY <1>1, Appended
    <2>2. Gradings!level(f) = v.level /\ v.level \in Gradings!Levels
      BY <1>1 DEF Gradings!level, Gradings!Vulnerabilities
    <2>3. /\ q.findings = gs
          /\ q.waived = (IF f.waived THEN r.waived + 1 ELSE r.waived)
          /\ q.total = (IF f.waived THEN r.total ELSE r.total + 1)
          /\ \A l \in Gradings!Levels : q.counts[l] = IF isAt(l) THEN r.counts[l] + 1 ELSE r.counts[l]
          /\ q.highest = (IF ~f.waived /\ v.level > r.highest THEN v.level ELSE r.highest)
      <3>1. CASE v.id \in waivers
        <4>1. q = Gradings!waivedOff(r, v) /\ f = [vulnerability |-> v, waived |-> TRUE]
          BY <1>6, <3>1 DEF Gradings!withFinding
        <4> HIDE DEF f, q
        <4> QED BY <1>1, <3>1, <4>1 DEF Gradings!waivedOff, Reports
      <3>2. CASE v.id \notin waivers
        <4>1. q = Gradings!counted(r, v) /\ f = [vulnerability |-> v, waived |-> FALSE]
          <5>1. q = Gradings!counted(r, v)
            BY <1>6, <3>2 DEF Gradings!withFinding
          <5>2. (v.id \in waivers) = FALSE
            BY <3>2
          <5> QED BY <5>1, <5>2
        <4> HIDE DEF f, q
        <4> QED BY <1>1, <2>2, <3>2, <4>1 DEF Gradings!counted, Reports
      <3> QED BY <3>1, <3>2
    <2>4. /\ IsFiniteSet(un) /\ IsFiniteSet(DOMAIN fs \ un) /\ \A l : IsFiniteSet(AtLevel(fs, l))
          /\ un \subseteq DOMAIN fs /\ \A l : AtLevel(fs, l) \subseteq DOMAIN fs
      BY <1>1, FiniteFindings
    <2> HIDE DEF v, f, gs, n, q, isAt
    <2>5. FindingsUpTo(k, gs)
      <3>1. First(k) /\ v = found[k]
        BY <1>4, <1>6 DEF v
      <3>2. ASSUME NEW i \in DOMAIN gs
            PROVE  /\ gs[i].waived <=> gs[i].vulnerability.id \in waivers
                   /\ \E j \in 1..k : First(j) /\ gs[i].vulnerability = found[j]
        <4>1. CASE i = n
          BY <1>1, <1>3, <2>1, <3>1, <4>1
        <4>2. CASE i \in DOMAIN fs
          BY <1>2, <1>3, <2>1, <4>2 DEF FindingsUpTo
        <4> QED BY <2>1, <4>1, <4>2
      <3>3. ASSUME NEW j \in 1..k, First(j)
            PROVE  \E i \in DOMAIN gs : gs[i].vulnerability = found[j]
        <4>1. CASE j = k
          BY <1>1, <2>1, <3>1, <4>1
        <4>2. CASE j \in 1..(k - 1)
          BY <1>2, <2>1, <3>3, <4>2 DEF FindingsUpTo
        <4> QED BY <1>3, <4>1, <4>2
      <3>4. KeysOf(gs) = KeysTo(k)
        BY <1>1, <1>2, <1>4, <2>1
      <3> QED BY <3>2, <3>3, <3>4 DEF FindingsUpTo
    <2>6. CountsOf(q)
      <3>1. q.total = Cardinality(Gradings!unwaived(gs))
        <4>1. r.total = Cardinality(un)
          BY DEF GradedUpTo, CountsOf
        <4>2. Cardinality(un \cup {n}) = Cardinality(un) + 1
          BY <2>1, <2>4, FS_AddElement
        <4> QED BY <2>1, <2>3, <4>1, <4>2
      <3>2. q.waived = Cardinality(DOMAIN gs \ Gradings!unwaived(gs))
        <4>1. r.waived = Cardinality(DOMAIN fs \ un)
          BY DEF GradedUpTo, CountsOf
        <4>2. Cardinality((DOMAIN fs \ un) \cup {n}) = Cardinality(DOMAIN fs \ un) + 1
          BY <2>1, <2>4, FS_AddElement
        <4> QED BY <2>1, <2>3, <4>1, <4>2
      <3>3. ASSUME NEW l \in Gradings!Levels PROVE q.counts[l] = Cardinality(AtLevel(gs, l))
        <4>1. r.counts[l] = Cardinality(AtLevel(fs, l))
          BY DEF GradedUpTo, CountsOf
        <4>2. Cardinality(AtLevel(fs, l) \cup {n}) = Cardinality(AtLevel(fs, l)) + 1
          <5>1. n \notin AtLevel(fs, l) /\ IsFiniteSet(AtLevel(fs, l))
            BY <2>1, <2>4
          <5> QED BY <5>1, FS_AddElement
        <4> QED BY <2>1, <2>3, <4>1, <4>2
      <3> QED BY <2>3, <3>1, <3>2, <3>3 DEF CountsOf
    <2>7. HighestOf(q)
      <3> SUFFICES ASSUME NEW l \in Ranks
                   PROVE  q.highest >= l <=>
                            \E i \in Gradings!unwaived(gs) : Gradings!level(gs[i]) >= l
        BY <2>3 DEF HighestOf
      <3>1. r.highest >= l <=> \E i \in un : Gradings!level(fs[i]) >= l
        BY DEF GradedUpTo, HighestOf
      <3>2. l \in Int /\ r.highest \in Int /\ v.level \in Int
        BY <1>1, <2>2 DEF Gradings!ConstantsOK, Gradings!Levels, Gradings!Unknown, Reports
      <3>3. (\E i \in un : Gradings!level(gs[i]) >= l) <=> \E i \in un : Gradings!level(fs[i]) >= l
        BY <2>1, <2>4
      <3>4. CASE f.waived
        BY <2>1, <2>3, <3>1, <3>3, <3>4
      <3>5. CASE ~f.waived
        <4>1. (\E i \in un \cup {n} : Gradings!level(gs[i]) >= l) <=> r.highest >= l \/ v.level >= l
          BY <2>1, <2>2, <3>1, <3>3
        <4> QED BY <2>1, <2>3, <3>2, <3>5, <4>1
      <3> QED BY <3>4, <3>5
    <2>8. IsFiniteSet(KeysTo(k)) /\ q.total + q.waived = Cardinality(KeysTo(k))
      <3>1. IsFiniteSet(KeysTo(k - 1)) /\ r.total + r.waived = Cardinality(KeysTo(k - 1))
        BY DEF GradedUpTo
      <3>2. /\ IsFiniteSet(KeysTo(k))
            /\ Cardinality(KeysTo(k)) = Cardinality(KeysTo(k - 1)) + 1
        BY <1>4, <1>6, <3>1, FS_AddElement
      <3>3. r.total \in Nat /\ r.waived \in Nat
        BY <1>1 DEF Reports
      <3>4. q.total + q.waived = (r.total + r.waived) + 1
        <4>1. CASE f.waived
          BY <2>3, <3>3, <4>1
        <4>2. CASE ~f.waived
          BY <2>3, <3>3, <4>2
        <4> QED BY <4>1, <4>2
      <3> QED BY <3>1, <3>2, <3>4
    <2> QED BY <1>1, <2>3, <2>5, <2>6, <2>7, <2>8 DEF GradedUpTo, v, q
  <1> QED BY <1>5, <1>6

LEMMA GradedAll ==
  ASSUME found \in Seq(Gradings!Vulnerabilities), Gradings!ConstantsOK
  PROVE  GradedUpTo(Len(found), Gradings!grade)
  <1> DEFINE good(k) == GradedUpTo(k, Gradings!grading[k])
             bad == {k \in 0..Len(found) : ~good(k)}
  <1>0. Len(found) \in Nat
    OBVIOUS
  <1>1. good(0)
    <2> DEFINE r == Gradings!Nothing
    <2>1. Gradings!grading[0] = r /\ r \in Reports
      BY GradingLoop, NothingType
    <2>2. /\ r.findings = <<>> /\ r.total = 0 /\ r.waived = 0 /\ r.highest = -1
          /\ \A l \in Gradings!Levels : r.counts[l] = 0
      BY DEF Gradings!Nothing, Gradings!Unknown
    <2>3. /\ DOMAIN <<>> = {} /\ Gradings!unwaived(<<>>) = {} /\ KeysOf(<<>>) = {} /\ KeysTo(0) = {}
          /\ \A l : AtLevel(<<>>, l) = {}
      BY DEF Gradings!unwaived, KeysOf, KeysTo, AtLevel
    <2> HIDE DEF r
    <2>4. FindingsUpTo(0, r.findings)
      <3>1. 1..0 = {}
        OBVIOUS
      <3>2. FindingsUpTo(0, <<>>)
        BY <2>3, <3>1 DEF FindingsUpTo
      <3> QED BY <2>2, <3>2
    <2>5. CountsOf(r)
      BY <2>2, <2>3, FS_EmptySet DEF CountsOf
    <2>6. HighestOf(r)
      BY <2>2, <2>3 DEF HighestOf, Gradings!ConstantsOK
    <2>7. IsFiniteSet(KeysTo(0)) /\ r.total + r.waived = Cardinality(KeysTo(0))
      <3>1. KeysTo(0) = {}
        BY <2>3
      <3>2. r.total + r.waived = 0
        BY <2>2
      <3>3. IsFiniteSet({}) /\ Cardinality({}) = 0
        BY FS_EmptySet
      <3> HIDE DEF KeysTo
      <3> QED BY <3>1, <3>2, <3>3
    <2>8. GradedUpTo(0, r)
      BY <2>1, <2>4, <2>5, <2>6, <2>7 DEF GradedUpTo
    <2> QED BY <2>1, <2>8
  <1>2. ASSUME NEW k \in 1..Len(found), good(k - 1) PROVE good(k)
    BY <1>2, GradingLoop, GradingStep
  <1> HIDE DEF good
  <1>3. ASSUME bad # {} PROVE FALSE
    <2>1. PICK m \in bad : \A y \in bad : m <= y
      <3>1. bad \in SUBSET Nat
        BY <1>0
      <3> HIDE DEF bad
      <3> QED BY <1>3, <3>1, Trackers!Least
    <2>2. m # 0
      BY <1>1, <2>1
    <2>3. m \in 1..Len(found) /\ m - 1 \in 0..Len(found) /\ m - 1 \notin bad
      BY <1>0, <2>1, <2>2
    <2> QED BY <1>2, <2>1, <2>3
  <1>4. Len(found) \in 0..Len(found)
    BY <1>0
  <1> QED BY <1>3, <1>4 DEF good, Gradings!grade

-----------------------------------------------------------------------------
(* The verdict.                                                            *)

GradingInv ==
  /\ found \in Seq(Gradings!Vulnerabilities) /\ failOn \in Ranks \cup {Gradings!NoFailOn}
  /\ graded # Gradings!NotGraded =>
       graded = [findings |-> Gradings!grade.findings, summary |-> Gradings!summary(Gradings!grade),
                 compliant |-> Gradings!verdictOf(Gradings!grade.findings)]

LEMMA GradingInit == Gradings!Init => GradingInv
  BY DEF Gradings!Init, GradingInv, Gradings!BoundedSeq, Gradings!SeqOf

LEMMA GradingInvStep == GradingInv /\ [Gradings!Next]_(Gradings!vars) => GradingInv'
  <1> SUFFICES ASSUME GradingInv, [Gradings!Next]_(Gradings!vars) PROVE GradingInv'
    OBVIOUS
  <1>1. UNCHANGED <<found, waivers, failOn>>
    BY DEF Gradings!Next, Gradings!Grade, Gradings!vars
  <1>2. /\ Gradings!grade' = Gradings!grade
        /\ Gradings!summary(Gradings!grade)' = Gradings!summary(Gradings!grade)
        /\ Gradings!verdictOf(Gradings!grade.findings)' = Gradings!verdictOf(Gradings!grade.findings)
    BY <1>1 DEF Gradings!grade, Gradings!grading, Gradings!withFinding, Gradings!summary,
                Gradings!verdictOf, Gradings!violations
  <1>3. CASE Gradings!Next
    BY <1>1, <1>2, <1>3 DEF GradingInv, Gradings!Next, Gradings!Grade
  <1>4. CASE UNCHANGED Gradings!vars
    BY <1>1, <1>2, <1>4 DEF GradingInv, Gradings!vars
  <1> QED BY <1>3, <1>4

\* A finding of the report is at failOn or above exactly when one the CLI named
\* first is.
LEMMA VerdictFollows ==
  GradingInv /\ Gradings!ConstantsOK => Gradings!VerdictIsOfTheReport
  <1> SUFFICES ASSUME GradingInv, Gradings!ConstantsOK,
                      graded # Gradings!NotGraded, failOn # Gradings!NoFailOn
               PROVE  graded.compliant = "False" <=>
                        \E j \in DOMAIN found :
                          /\ found[j].level >= failOn /\ found[j].id \notin waivers
                          /\ First(j)
    BY DEF Gradings!VerdictIsOfTheReport, First
  <1> DEFINE fs == Gradings!grade.findings
  <1>1. FindingsUpTo(Len(found), fs) /\ DOMAIN found = 1..Len(found)
    BY GradedAll DEF GradingInv, GradedUpTo
  <1>2. graded.compliant = Gradings!verdictOf(fs)
    BY DEF GradingInv
  <1> HIDE DEF fs
  <1>3. graded.compliant = "False" <=> Gradings!violations(fs) # {}
    BY <1>2 DEF Gradings!verdictOf
  <1>4. Gradings!violations(fs) =
          {i \in DOMAIN fs : ~fs[i].waived /\ fs[i].vulnerability.level >= failOn}
    BY DEF Gradings!violations, Gradings!unwaived, Gradings!level
  <1>5. ASSUME NEW i \in DOMAIN fs, ~fs[i].waived, fs[i].vulnerability.level >= failOn
        PROVE  \E j \in DOMAIN found : found[j].level >= failOn /\ found[j].id \notin waivers /\ First(j)
    BY <1>1, <1>5 DEF FindingsUpTo
  <1>6. ASSUME NEW j \in DOMAIN found, found[j].level >= failOn, found[j].id \notin waivers, First(j)
        PROVE  Gradings!violations(fs) # {}
    BY <1>1, <1>4, <1>6 DEF FindingsUpTo
  <1> QED BY <1>3, <1>4, <1>5, <1>6

LEMMA SameCardinality == \A S : Gradings!Cardinality(S) = Cardinality(S)
  BY DEF Gradings!Cardinality, Cardinality

LEMMA SummaryFollows ==
  GradingInv /\ Gradings!ConstantsOK => Gradings!SummaryIsComplete
  <1> SUFFICES ASSUME GradingInv, Gradings!ConstantsOK, graded # Gradings!NotGraded
               PROVE  /\ graded.summary.total + graded.summary.waived =
                           Cardinality({Gradings!key(found[i]) : i \in DOMAIN found})
                      /\ graded.summary.total = Cardinality(Gradings!unwaived(graded.findings))
                      /\ graded.summary.waived =
                           Cardinality(DOMAIN graded.findings \ Gradings!unwaived(graded.findings))
                      /\ \A l \in Ranks : graded.summary.levels[l] =
                           Cardinality({i \in Gradings!unwaived(graded.findings) :
                                          Gradings!level(graded.findings[i]) = l})
                      /\ failOn # Gradings!NoFailOn =>
                           (graded.compliant = "False" <=> graded.summary.highest >= failOn)
    BY SameCardinality DEF Gradings!SummaryIsComplete
  <1> DEFINE r == Gradings!grade
  <1>1. GradedUpTo(Len(found), r) /\ DOMAIN found = 1..Len(found)
    BY GradedAll DEF GradingInv
  <1>2. /\ graded.findings = r.findings /\ graded.summary = Gradings!summary(r)
        /\ graded.compliant = Gradings!verdictOf(r.findings)
    BY DEF GradingInv
  <1> HIDE DEF r
  <1>3. /\ graded.summary.total = r.total /\ graded.summary.waived = r.waived
        /\ graded.summary.highest = r.highest
        /\ \A l \in Ranks : graded.summary.levels[l] = r.counts[l]
    BY <1>2 DEF Gradings!summary
  <1>4. r.total + r.waived = Cardinality({Gradings!key(found[i]) : i \in DOMAIN found})
    BY <1>1 DEF GradedUpTo, KeysTo
  <1>5. /\ r.total = Cardinality(Gradings!unwaived(r.findings))
        /\ r.waived = Cardinality(DOMAIN r.findings \ Gradings!unwaived(r.findings))
        /\ \A l \in Ranks : r.counts[l] = Cardinality(
             {i \in Gradings!unwaived(r.findings) : Gradings!level(r.findings[i]) = l})
    BY <1>1 DEF GradedUpTo, CountsOf, AtLevel, Gradings!Levels
  <1>6. ASSUME failOn # Gradings!NoFailOn
        PROVE  graded.compliant = "False" <=> r.highest >= failOn
    <2>1. failOn \in Ranks
      BY <1>6 DEF GradingInv
    <2>2. graded.compliant = "False" <=> Gradings!violations(r.findings) # {}
      BY <1>2, <1>6 DEF Gradings!verdictOf
    <2>3. r.highest >= failOn <=>
            \E i \in Gradings!unwaived(r.findings) : Gradings!level(r.findings[i]) >= failOn
      BY <1>1, <2>1 DEF GradedUpTo, HighestOf
    <2> QED BY <2>2, <2>3 DEF Gradings!violations
  <1>7. graded.summary.total + graded.summary.waived =
          Cardinality({Gradings!key(found[i]) : i \in DOMAIN found})
    BY <1>3, <1>4
  <1> DEFINE fs == graded.findings
  <1>8. /\ graded.summary.total = Cardinality(Gradings!unwaived(fs))
        /\ graded.summary.waived = Cardinality(DOMAIN fs \ Gradings!unwaived(fs))
        /\ \A l \in Ranks : graded.summary.levels[l] =
             Cardinality({i \in Gradings!unwaived(fs) : Gradings!level(fs[i]) = l})
    BY <1>2, <1>3, <1>5
  <1> QED BY <1>3, <1>6, <1>7, <1>8

-----------------------------------------------------------------------------
(* The watcher, for every number of objects, resources, changes and        *)
(* restarts: what a registration may lose, and nothing else.               *)

\* The types of what the workers and the informers share.  A worker that
\* registers has read an object.
WatcherTypeInv ==
  /\ watched \in [Objects -> SUBSET Dependents]
  /\ version \in [Objects -> Nat]
  /\ ref \in [Dependents -> Objects]
  /\ awaits \subseteq Dependents /\ raced \subseteq Dependents
  /\ at \in [Dependents -> {"idle", "run", "append"}]
  /\ seen \in [Dependents -> Watchers!Sights]
  /\ existing \in [Dependents -> SUBSET Dependents]
  /\ \A d \in Dependents : at[d] # "idle" => seen[d].object \in Objects

LEMMA WatcherTypeInit == Watchers!Init => WatcherTypeInv
  BY DEF Watchers!Init, WatcherTypeInv, Watchers!Sights

LEMMA HandleEventType ==
  ASSUME WatcherTypeInv, NEW o \in Objects
  PROVE  Watchers!handleEvent(o) \subseteq Dependents /\ awaits \subseteq Watchers!handleEvent(o)
  BY DEF WatcherTypeInv, Watchers!handleEvent

LEMMA WatcherTypeStep == WatcherTypeInv /\ [Watchers!Next]_(Watchers!vars) => WatcherTypeInv'
  <1> SUFFICES ASSUME WatcherTypeInv, [Watchers!Next]_(Watchers!vars) PROVE WatcherTypeInv'
    OBVIOUS
  <1>1. ASSUME NEW d \in Dependents, Watchers!ReadRef(d) PROVE WatcherTypeInv'
    <2>1. [object |-> ref[d], version |-> version[ref[d]]] \in Watchers!Sights /\ ref[d] \in Objects
      BY DEF WatcherTypeInv, Watchers!Sights
    <2>2. seen' \in [Dependents -> Watchers!Sights] /\ at' \in [Dependents -> {"idle", "run", "append"}]
      BY <1>1, <2>1 DEF WatcherTypeInv, Watchers!ReadRef
    <2>3. \A e \in Dependents : at'[e] # "idle" => seen'[e].object \in Objects
      BY <1>1, <2>1 DEF WatcherTypeInv, Watchers!ReadRef
    <2> QED BY <1>1, <2>2, <2>3 DEF WatcherTypeInv, Watchers!ReadRef
  <1>2. ASSUME NEW d \in Dependents, Watchers!BeginWatch(d) PROVE WatcherTypeInv'
    <2>1. at[d] = "run" /\ seen[d].object \in Objects
      BY <1>2 DEF WatcherTypeInv, Watchers!BeginWatch
    <2>2. watched[seen[d].object] \subseteq Dependents
      BY <2>1 DEF WatcherTypeInv
    <2>3. existing' \in [Dependents -> SUBSET Dependents] /\ raced' \subseteq Dependents
      BY <1>2, <2>2 DEF WatcherTypeInv, Watchers!BeginWatch
    <2>4. at' \in [Dependents -> {"idle", "run", "append"}]
      BY <1>2 DEF WatcherTypeInv, Watchers!BeginWatch
    <2>5. \A e \in Dependents : at'[e] # "idle" => seen'[e].object \in Objects
      BY <1>2, <2>1 DEF WatcherTypeInv, Watchers!BeginWatch
    <2> QED BY <1>2, <2>3, <2>4, <2>5 DEF WatcherTypeInv, Watchers!BeginWatch
  <1>3. ASSUME NEW d \in Dependents, Watchers!EndWatch(d) PROVE WatcherTypeInv'
    <2>1. seen[d].object \in Objects /\ existing[d] \cup {d} \subseteq Dependents
      BY <1>3 DEF WatcherTypeInv, Watchers!EndWatch
    <2>2. watched' \in [Objects -> SUBSET Dependents]
      BY <1>3, <2>1 DEF WatcherTypeInv, Watchers!EndWatch
    <2>3. raced' \subseteq Dependents
      BY <1>3, <2>1 DEF WatcherTypeInv, Watchers!EndWatch, Watchers!Appending
    <2>4. at' \in [Dependents -> {"idle", "run", "append"}]
      BY <1>3 DEF WatcherTypeInv, Watchers!EndWatch
    <2>5. \A e \in Dependents : at'[e] # "idle" => seen'[e].object \in Objects
      BY <1>3 DEF WatcherTypeInv, Watchers!EndWatch
    <2> QED BY <1>3, <2>2, <2>3, <2>4, <2>5 DEF WatcherTypeInv, Watchers!EndWatch
  <1>4. ASSUME NEW d \in Dependents, Watchers!RefEdited(d) PROVE WatcherTypeInv'
    BY <1>4 DEF WatcherTypeInv, Watchers!RefEdited
  <1>5. ASSUME NEW o \in Objects, Watchers!ObjectChanges(o) PROVE WatcherTypeInv'
    <2>1. version' \in [Objects -> Nat]
      BY <1>5 DEF WatcherTypeInv, Watchers!ObjectChanges
    <2> QED BY <1>5, <2>1, HandleEventType DEF WatcherTypeInv, Watchers!ObjectChanges
  <1>6. ASSUME Watchers!Resync PROVE WatcherTypeInv'
    <2>1. awaits' \subseteq Dependents
      BY <1>6, HandleEventType DEF Watchers!Resync
    <2> QED BY <1>6, <2>1 DEF WatcherTypeInv, Watchers!Resync
  <1>7. ASSUME Watchers!OperatorRestarts PROVE WatcherTypeInv'
    BY <1>7 DEF WatcherTypeInv, Watchers!OperatorRestarts
  <1>8. ASSUME UNCHANGED Watchers!vars PROVE WatcherTypeInv'
    BY <1>8 DEF WatcherTypeInv, Watchers!vars
  <1> QED BY <1>1, <1>2, <1>3, <1>4, <1>5, <1>6, <1>7, <1>8 DEF Watchers!Next, Watchers!Worker

LEMMA RegisteredInit == Watchers!Init => Watchers!RegisteredAtRest
  BY DEF Watchers!Init, Watchers!RegisteredAtRest

\* What a registration drops it had not read, and those it drops have raced.
LEMMA RegistrationKeeps ==
  ASSUME WatcherTypeInv, NEW d \in Dependents, Watchers!EndWatch(d),
         NEW e \in Dependents, e # d, NEW o \in Objects, e \in watched[o], e \notin raced'
  PROVE  e \in watched'[o] /\ e \notin raced
  <1> DEFINE object == seen[d].object
             written == [watched EXCEPT ![object] = existing[d] \cup {d}]
  <1>1. object \in Objects /\ watched \in [Objects -> SUBSET Dependents]
    BY DEF WatcherTypeInv, Watchers!EndWatch
  <1>2. e \notin raced
    BY DEF Watchers!EndWatch
  <1>3. o = object => e \in existing[d]
    BY DEF Watchers!EndWatch
  <1>4. e \in written[o]
    BY <1>1, <1>3
  <1>5. watched' \in {written, watched}
    BY DEF Watchers!EndWatch
  <1> QED BY <1>2, <1>4, <1>5

LEMMA RegisteredStep ==
  WatcherTypeInv /\ Watchers!RegisteredAtRest /\ [Watchers!Next]_(Watchers!vars)
    => Watchers!RegisteredAtRest'
  <1> SUFFICES ASSUME WatcherTypeInv, Watchers!RegisteredAtRest, [Watchers!Next]_(Watchers!vars),
                      NEW e \in Dependents, at'[e] = "idle", e \notin awaits' \cup raced',
                      seen'[e].object \in Objects \ Unwatched
               PROVE  e \in watched'[seen'[e].object]
    BY DEF Watchers!RegisteredAtRest
  \* The resource was at rest before, and the step left its registration alone.
  <1> DEFINE Kept == /\ at[e] = "idle" /\ e \notin awaits \cup raced /\ seen[e] = seen'[e]
                     /\ e \in watched[seen[e].object] => e \in watched'[seen[e].object]
  <1>0. ASSUME Kept PROVE e \in watched'[seen'[e].object]
    BY <1>0 DEF Watchers!RegisteredAtRest
  <1>1. ASSUME NEW d \in Dependents, Watchers!ReadRef(d) PROVE Kept
    BY <1>1 DEF Watchers!ReadRef, WatcherTypeInv
  <1>2. ASSUME NEW d \in Dependents, Watchers!BeginWatch(d) PROVE e \in watched'[seen'[e].object]
    <2>1. CASE e = d
      BY <1>2, <2>1 DEF Watchers!BeginWatch, WatcherTypeInv
    <2>2. CASE e # d
      <3>1. Kept
        BY <1>2, <2>2 DEF Watchers!BeginWatch, WatcherTypeInv
      <3> QED BY <1>0, <3>1
    <2> QED BY <2>1, <2>2
  <1>3. ASSUME NEW d \in Dependents, Watchers!EndWatch(d) PROVE e \in watched'[seen'[e].object]
    <2>1. CASE e = d
      <3>1. Watchers!Appending(d) = {}
        BY <1>3, <2>1 DEF Watchers!EndWatch
      <3>2. watched' = [watched EXCEPT ![seen[d].object] = existing[d] \cup {d}] /\ seen' = seen
        BY <1>3, <3>1 DEF Watchers!EndWatch
      <3> QED BY <2>1, <3>2 DEF WatcherTypeInv
    <2>2. CASE e # d
      <3>1. seen' = seen /\ awaits' = awaits /\ at[e] = "idle" /\ e \notin raced
        BY <1>3, <2>2 DEF Watchers!EndWatch, WatcherTypeInv
      <3>2. e \in watched[seen[e].object]
        BY <3>1 DEF Watchers!RegisteredAtRest
      <3> QED BY <1>3, <2>2, <3>1, <3>2, RegistrationKeeps
    <2> QED BY <2>1, <2>2
  <1>4. ASSUME NEW d \in Dependents, Watchers!RefEdited(d) PROVE Kept
    BY <1>4 DEF Watchers!RefEdited
  <1>5. ASSUME NEW o \in Objects, Watchers!ObjectChanges(o) PROVE Kept
    BY <1>5, HandleEventType DEF Watchers!ObjectChanges
  <1>6. ASSUME Watchers!Resync PROVE Kept
    <2>1. Objects # {}
      OBVIOUS
    <2>2. e \notin awaits
      BY <1>6, <2>1, HandleEventType DEF Watchers!Resync
    <2> QED BY <1>6, <2>2 DEF Watchers!Resync
  <1>7. ASSUME Watchers!OperatorRestarts PROVE FALSE
    BY <1>7 DEF Watchers!OperatorRestarts
  <1>8. ASSUME UNCHANGED Watchers!vars PROVE Kept
    BY <1>8 DEF Watchers!vars
  <1> QED BY <1>0, <1>1, <1>2, <1>3, <1>4, <1>5, <1>6, <1>7, <1>8 DEF Watchers!Next, Watchers!Worker

-----------------------------------------------------------------------------
(* Composition.  A behaviour stays with the part it starts with, and is    *)
(* one of that part: every step is one of its steps or leaves its          *)
(* variables alone.                                                        *)

Runs(p) == part = p

LEMMA DevDBRuns ==
  [Next]_vars /\ Runs("dev database") => Runs("dev database")' /\ [DevDBs!Next]_(DevDBs!vars)
  BY DEF Runs, Next, vars, devDBVars, DevDBs!vars, DevDBs!kubernetes, DevDBs!resources,
         DevDBs!workers, DevDBs!devHistory

LEMMA WatcherRuns ==
  [Next]_vars /\ Runs("watcher") => Runs("watcher")' /\ [Watchers!Next]_(Watchers!vars)
  BY DEF Runs, Next, vars, watcherVars, Watchers!vars

LEMMA TrackerRuns ==
  [Next]_vars /\ Runs("tracker") => Runs("tracker")' /\ [Trackers!Next]_(Trackers!vars)
  BY DEF Runs, Next, vars, trackerVars, Trackers!vars

LEMMA GradingRuns ==
  [Next]_vars /\ Runs("grading") => Runs("grading")' /\ [Gradings!Next]_(Gradings!vars)
  BY DEF Runs, Next, vars, gradingVars, Gradings!vars

LEMMA MergeRuns ==
  [Next]_vars /\ Runs("merge") => Runs("merge")' /\ [Merges!Next]_(Merges!vars)
  BY DEF Runs, Next, vars, mergeVars, Merges!vars

LEMMA PartStays == ASSUME NEW p PROVE [Next]_vars /\ ~Runs(p) => ~Runs(p)'
  BY DEF Runs, Next, vars

\* In every behaviour of the composition a dev database that no resource uses
\* has no running pod, however cleanUp and create interleave.
THEOREM DevDBStops == Spec => []NothingLeftRunning
  <1> DEFINE on == Runs("dev database")
  <1>1. Init => ~on \/ DevDBs!Init
    BY DEF Init, Runs
  <1>2. [Next]_vars /\ on => on' /\ [DevDBs!Next]_(DevDBs!vars)
    BY DevDBRuns
  <1>3. [Next]_vars /\ ~on => ~on'
    BY PartStays
  <1>4. DevDBs!Init /\ [][DevDBs!Next]_(DevDBs!vars) => []DevDBs!NothingLeftRunning
    BY DevDBs!NothingRuns DEF DevDBs!Spec
  <1>5. ~on \/ DevDBs!NothingLeftRunning => NothingLeftRunning
    BY DEF NothingLeftRunning, Runs
  <1> HIDE DEF on
  <1> QED BY <1>1, <1>2, <1>3, <1>4, <1>5, PTL DEF Spec

\* In every behaviour of the composition the watcher's registration of a
\* resource at rest is of the object that its last reconcile read (watchRefs at
\* the end of Reconcile), unless its registration met another one in the
\* unguarded map.
THEOREM WatcherRegisters == Spec => []RegisteredAtRest
  <1> DEFINE on == Runs("watcher")
             inv == WatcherTypeInv /\ Watchers!RegisteredAtRest
  <1>1. Init => ~on \/ inv
    BY WatcherTypeInit, RegisteredInit DEF Init, Runs
  <1>2. [Next]_vars /\ on => on' /\ [Watchers!Next]_(Watchers!vars)
    BY WatcherRuns
  <1>3. [Next]_vars /\ ~on => ~on'
    BY PartStays
  <1>4. inv /\ [Watchers!Next]_(Watchers!vars) => inv'
    BY WatcherTypeStep, RegisteredStep
  <1>5. ~on \/ inv => RegisteredAtRest
    BY DEF RegisteredAtRest, Runs
  <1> HIDE DEF on, inv
  <1> QED BY <1>1, <1>2, <1>3, <1>4, <1>5, PTL DEF Spec

\* In every behaviour of the composition an approved plan is picked up within
\* the longest delay of requeueDelay, and what runs that did not see it add to that;
\* or the operator gave up on the resource: the plans could not be listed, or more
\* runs failed than spec.backoffLimit allows.
THEOREM PlanIsPickedUp == Spec => []PickedUpInTime
  <1> DEFINE on == Runs("tracker")
  <1>1. Init => ~on \/ Trackers!Init
    BY DEF Init, Runs
  <1>2. [Next]_vars /\ on => on' /\ [Trackers!Next]_(Trackers!vars)
    BY TrackerRuns
  <1>3. [Next]_vars /\ ~on => ~on'
    BY PartStays
  <1>4. Trackers!Init /\ [][Trackers!Next]_(Trackers!vars) => []Trackers!PickedUpInTime
    BY PartsConstants, Trackers!PickedUp DEF Trackers!Spec
  <1>5. ~on \/ Trackers!PickedUpInTime => PickedUpInTime
    BY DEF PickedUpInTime, Runs
  <1> HIDE DEF on
  <1> QED BY <1>1, <1>2, <1>3, <1>4, <1>5, PTL DEF Spec

\* In every behaviour of the composition the polls of an undecided plan get as
\* rare as requeueDelay makes them.
THEOREM PollsGetRarer == Spec => []PollsAreFew
  <1> DEFINE on == Runs("tracker")
  <1>1. Init => ~on \/ Trackers!Init
    BY DEF Init, Runs
  <1>2. [Next]_vars /\ on => on' /\ [Trackers!Next]_(Trackers!vars)
    BY TrackerRuns
  <1>3. [Next]_vars /\ ~on => ~on'
    BY PartStays
  <1>4. Trackers!Init /\ [][Trackers!Next]_(Trackers!vars) => []Trackers!PollsAreFew
    BY PartsConstants, Trackers!FewPolls DEF Trackers!Spec
  <1>5. ~on \/ Trackers!PollsAreFew => PollsAreFew
    BY DEF PollsAreFew, Runs
  <1> HIDE DEF on
  <1> QED BY <1>1, <1>2, <1>3, <1>4, <1>5, PTL DEF Spec

LEMMA Graded == Spec => [](Runs("grading") => GradingInv)
  <1> DEFINE on == Runs("grading")
  <1>1. Init => ~on \/ GradingInv
    BY GradingInit DEF Init, Runs
  <1>2. [Next]_vars /\ on => on' /\ [Gradings!Next]_(Gradings!vars)
    BY GradingRuns
  <1>3. [Next]_vars /\ ~on => ~on'
    BY PartStays
  <1>4. GradingInv /\ [Gradings!Next]_(Gradings!vars) => GradingInv'
    BY GradingInvStep
  <1> HIDE DEF on
  <1>5. (on => GradingInv) /\ [Next]_vars => (on => GradingInv)'
    BY <1>2, <1>3, <1>4
  <1>6. Spec => [](on => GradingInv)
    BY <1>1, <1>5, PTL DEF Spec
  <1> QED BY <1>6 DEF on

\* For a report of every length: Compliant is False exactly when the CLI named
\* a finding at failOn or above that is not waived and that is the first of its
\* id and extension, though grade compares levels of its own list only.
THEOREM VerdictIsRight == Spec => []VerdictIsOfTheReport
  <1>1. (Runs("grading") => GradingInv) => VerdictIsOfTheReport
    BY PartsConstants, VerdictFollows DEF Runs, VerdictIsOfTheReport
  <1> QED BY Graded, <1>1, PTL

\* For a report of every length: the counts that grade keeps, one finding after
\* the other, are those of the different findings of the report, and its highest
\* level tells the verdict.
THEOREM SummaryIsRight == Spec => []SummaryIsComplete
  <1>1. (Runs("grading") => GradingInv) => SummaryIsComplete
    BY PartsConstants, SummaryFollows DEF Runs, SummaryIsComplete
  <1> QED BY Graded, <1>1, PTL

\* In every behaviour of the composition, and for every custom configuration, of
\* any number of blocks: one that checkPolicy lets pass decides nothing of what
\* the scan reports, after its blocks are relabelled and merged.
THEOREM ScanIsTheResources == Spec => []PolicyIsTheResources
  <1> DEFINE on == Runs("merge")
  <1>1. Init => ~on \/ Merges!Init
    BY DEF Init, Runs
  <1>2. [Next]_vars /\ on => on' /\ [Merges!Next]_(Merges!vars)
    BY MergeRuns
  <1>3. [Next]_vars /\ ~on => ~on'
    BY PartStays
  <1>4. Merges!Init /\ [][Merges!Next]_(Merges!vars) => []Merges!PolicyIsTheResources
    BY PartsConstants, Merges!ScanPolicy DEF Merges!Spec
  <1>5. ~on \/ Merges!PolicyIsTheResources => PolicyIsTheResources
    BY DEF PolicyIsTheResources, Runs
  <1> HIDE DEF on
  <1> QED BY <1>1, <1>2, <1>3, <1>4, <1>5, PTL DEF Spec

\* In every behaviour of the composition, and for every custom configuration that
\* is well ordered and has one env block that may run: hasDevURL, hasTargets and
\* targetURL, asked before or after the relabelling, are right about the file.
THEOREM HelpersAreRight == Spec => []HelpersSeeTheFile
  <1> DEFINE on == Runs("merge")
  <1>1. Init => ~on \/ Merges!Init
    BY DEF Init, Runs
  <1>2. [Next]_vars /\ on => on' /\ [Merges!Next]_(Merges!vars)
    BY MergeRuns
  <1>3. [Next]_vars /\ ~on => ~on'
    BY PartStays
  <1>4. Merges!Init /\ [][Merges!Next]_(Merges!vars) => []Merges!HelpersSeeTheFile
    BY PartsConstants, Merges!HelpersSee DEF Merges!Spec
  <1>5. ~on \/ Merges!HelpersSeeTheFile => HelpersSeeTheFile
    BY DEF HelpersSeeTheFile, Runs
  <1> HIDE DEF on
  <1> QED BY <1>1, <1>2, <1>3, <1>4, <1>5, PTL DEF Spec

\* In every behaviour of the composition, and for every such configuration: the
\* file of a connected resource has a review policy and a value for
\* destructive.error, where editAtlasHCL fills in what neither side gives.
THEOREM ConnectedRunsReviewed == Spec => []ConnectedIsReviewed
  <1> DEFINE on == Runs("merge")
  <1>1. Init => ~on \/ Merges!Init
    BY DEF Init, Runs
  <1>2. [Next]_vars /\ on => on' /\ [Merges!Next]_(Merges!vars)
    BY MergeRuns
  <1>3. [Next]_vars /\ ~on => ~on'
    BY PartStays
  <1>4. Merges!Init /\ [][Merges!Next]_(Merges!vars) => []Merges!ConnectedIsReviewed
    BY PartsConstants, Merges!Connected DEF Merges!Spec
  <1>5. ~on \/ Merges!ConnectedIsReviewed => ConnectedIsReviewed
    BY DEF ConnectedIsReviewed, Runs
  <1> HIDE DEF on
  <1> QED BY <1>1, <1>2, <1>3, <1>4, <1>5, PTL DEF Spec

-----------------------------------------------------------------------------
(* The refinement, of the composition.                                     *)

db == IF part = "dev database" THEN [replicas |-> deployment.replicas, pod |-> pod]
      ELSE [replicas |-> -1, pod |-> "none"]

LEMMA OneCall ==
  Runs("dev database") /\ Runs("dev database")' /\ [DevDBs!Service!Next]_(DevDBs!database)
    => [Service!Next]_db
  <1> SUFFICES ASSUME Runs("dev database"), Runs("dev database")',
                      [DevDBs!Service!Next]_(DevDBs!database)
               PROVE  [Service!Next]_db
    OBVIOUS
  <1>1. /\ db = DevDBs!database /\ db = [replicas |-> deployment.replicas, pod |-> pod]
        /\ db' = DevDBs!database' /\ db' = [replicas |-> deployment.replicas, pod |-> pod]'
    BY DEF db, Runs, DevDBs!database
  <1>2. CASE DevDBs!Service!Next
    BY <1>1, <1>2 DEF db, DevDBs!database,
       DevDBs!Service!Next, DevDBs!Service!Asked, DevDBs!Service!devURL, DevDBs!Service!CleanedUp,
       DevDBs!Service!cleanUp, DevDBs!Service!Started, DevDBs!Service!PodReady,
       DevDBs!Service!Collected, DevDBs!Service!NoDeployment,
       Service!Next, Service!Asked, Service!devURL, Service!CleanedUp, Service!cleanUp,
       Service!Started, Service!PodReady, Service!Collected, Service!NoDeployment
  <1>3. CASE UNCHANGED DevDBs!database
    BY <1>1, <1>3
  <1> QED BY <1>2, <1>3

\* The refinement mapping that TLC evaluates is correct for all owners, faults
\* and bounds: the requests of the dev database controller, on copies that may
\* be outdated, amount to the atomic calls of DevDBService.
THEOREM PartsImplementService == Spec => ImplementsService
  <1> DEFINE on == Runs("dev database")
  <1>1. Init => ~on \/ DevDBs!Init
    BY DEF Init, Runs
  <1>2. [Next]_vars /\ on => on' /\ [DevDBs!Next]_(DevDBs!vars)
    BY DevDBRuns
  <1>3. [Next]_vars /\ ~on => ~on'
    BY PartStays
  <1>4. DevDBs!Init /\ [][DevDBs!Next]_(DevDBs!vars)
          => DevDBs!Service!Init /\ [][DevDBs!Service!Next]_(DevDBs!database)
    BY DevDBs!RefinesService DEF DevDBs!Spec, DevDBs!ImplementsService, DevDBs!Service!Spec,
       DevDBs!database
  <1>5. ~on \/ DevDBs!Service!Init => Service!Init
    BY DEF Runs, DevDBs!Service!Init, DevDBs!Service!NoDeployment, DevDBs!database,
           Service!Init, Service!NoDeployment
  <1>6. on /\ on' /\ [DevDBs!Service!Next]_(DevDBs!database) => [Service!Next]_db
    BY OneCall
  <1>7. ~on /\ ~on' => [Service!Next]_db
    BY DEF Runs, db
  <1> HIDE DEF on
  <1> QED BY <1>1, <1>2, <1>3, <1>4, <1>5, <1>6, <1>7, PTL DEF Spec, ImplementsService, Service!Spec, db
=============================================================================
