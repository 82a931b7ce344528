--------------------------- MODULE HclMergeProofs ---------------------------
(***************************************************************************)
(* What the rendered file has of a custom configuration, for all           *)
(* configurations: any number of blocks, of any types and labels, with any *)
(* attributes.                                                             *)
(***************************************************************************)
EXTENDS HclMerge, WellFoundedInduction, TLAPS

-----------------------------------------------------------------------------
(* Loops.                                                                  *)

LEMMA Least ==
  ASSUME NEW s \in SUBSET Nat, s # {}
  PROVE  \E m \in s : \A y \in s : m <= y
  <1>1. PICK m \in s : \A y \in s : ~ (<<y, m>> \in OpToRel(<, Nat))
    BY NatLessThanWellFounded, WFMin
  <1>2. ASSUME NEW y \in s PROVE ~ (y < m)
    BY <1>1, <1>2 DEF OpToRel
  <1> QED BY <1>2

\* What a turn of a loop keeps holds at its end.
LEMMA Kept ==
  ASSUME NEW n \in Nat, NEW good, 0 \in good,
         \A k \in 1..n : k - 1 \in good => k \in good
  PROVE  \A k \in 0..n : k \in good
  <1> DEFINE bad == {k \in 0..n : k \notin good}
  <1>1. ASSUME bad # {} PROVE FALSE
    <2>1. PICK m \in bad : \A y \in bad : m <= y
      <3>1. bad \in SUBSET Nat
        OBVIOUS
      <3> HIDE DEF bad
      <3> QED BY <1>1, <3>1, Least
    <2>2. m # 0
      BY <2>1
    <2>3. m \in 1..n /\ m - 1 \in 0..n /\ m - 1 \notin bad
      BY <2>1, <2>2
    <2> QED BY <2>1, <2>3
  <1> QED BY <1>1

LEMMA SameEnd ==
  ASSUME NEW n \in Nat, NEW f, NEW h, f[0] = h[0], \A k \in 1..n : f[k - 1] = h[k - 1] => f[k] = h[k]
  PROVE  f[n] = h[n]
  <1> DEFINE good == {k \in 0..n : f[k] = h[k]}
  <1>1. 0 \in good
    OBVIOUS
  <1>2. ASSUME NEW k \in 1..n, k - 1 \in good PROVE k \in good
    BY <1>2
  <1> HIDE DEF good
  <1>3. n \in good
    BY <1>1, <1>2, Kept
  <1> QED BY <1>3 DEF good

\* A loop of n turns on the values of S.
Run(S, n, start, turn, h) ==
  /\ h \in [0..n -> S] /\ h[0] = start
  /\ \A k \in 1..n : h[k] = turn[<<k, h[k - 1]>>]

LEMMA Loop ==
  ASSUME NEW S, NEW n \in Nat, NEW start \in S, NEW turn,
         \A k \in 1..n, d \in S : turn[<<k, d>>] \in S
  PROVE  \E h : Run(S, n, start, turn, h)
  <1> DEFINE Prefix(m, h) == Run(S, m, start, turn, h)
             good == {m \in 0..n : \E h : Prefix(m, h)}
  <1>1. 0 \in good
    <2>1. Prefix(0, [k \in 0..0 |-> start])
      BY DEF Run
    <2>2. 0 \in 0..n
      OBVIOUS
    <2> HIDE DEF Prefix
    <2> QED BY <2>1, <2>2
  <1>2. ASSUME NEW m \in 1..n, m - 1 \in good PROVE m \in good
    <2>1. PICK h : Prefix(m - 1, h)
      BY <1>2
    <2> DEFINE g == [k \in 0..m |-> IF k = m THEN turn[<<m, h[m - 1]>>] ELSE h[k]]
    <2>2. m \in Nat /\ m - 1 \in Nat /\ m - 1 \in 0..m-1 /\ 0 # m /\ m - 1 # m
      OBVIOUS
    <2>3. h[m - 1] \in S /\ <<m, h[m - 1]>> \in (1..n) \X S
      BY <2>1, <2>2 DEF Run
    <2>4. g \in [0..m -> S] /\ g[0] = start
      BY <2>1, <2>2, <2>3 DEF Run
    <2>5. ASSUME NEW k \in 1..m PROVE g[k] = turn[<<k, g[k - 1]>>]
      <3>1. CASE k = m
        BY <2>2, <3>1
      <3>2. CASE k # m
        <4>1. k \in 1..m-1 /\ k - 1 \in 0..m /\ k - 1 # m /\ k \in 0..m
          BY <2>2, <3>2
        <4>2. g[k] = h[k] /\ g[k - 1] = h[k - 1]
          BY <3>2, <4>1
        <4>3. h[k] = turn[<<k, h[k - 1]>>]
          BY <2>1, <4>1 DEF Run
        <4> HIDE DEF g
        <4> QED BY <4>2, <4>3
      <3> QED BY <3>1, <3>2
    <2>6. Prefix(m, g)
      <3> HIDE DEF g
      <3> QED BY <2>4, <2>5 DEF Run
    <2>7. m \in 0..n
      BY <2>2
    <2> QED BY <2>6, <2>7
  <1> HIDE DEF good
  <1>3. n \in good
    BY <1>1, <1>2, Kept
  <1> QED BY <1>3 DEF good

-----------------------------------------------------------------------------
(* The search.                                                             *)

\* STRING, with the strings of the model: the provers do not know that a string
\* is a member of it.
Words == STRING \cup {"", "run", "file", "env", "schema", "lint", "destructive",
                      "url", "spec", "dev", "managed", "src", "desired", "review",
                      "ALWAYS", "ERROR", "error", "true", "false", "unset", "none"}

Attrs == UNION {[s -> Words] : s \in SUBSET Words}

Shape(Bodies) == [type : Words, label : Words, attrs : Attrs, blocks : Bodies]

\* Blocks whose blocks are of a set.
Of(Inside) == Shape(Seq(Inside))

Kind(b, type, label) == b.type = type /\ b.label = label

Has(d, type, label)   == \E i \in DOMAIN d.blocks : Kind(d.blocks[i], type, label)
Lacks(d, type, label) == ~Has(d, type, label)

\* x is the only block of its type and label.
HasAt(d, type, label, i) ==
  i \in DOMAIN d.blocks /\ \A j \in DOMAIN d.blocks : Kind(d.blocks[j], type, label) <=> j = i
HasOnly(d, type, label, x) == \E i \in DOMAIN d.blocks : HasAt(d, type, label, i) /\ d.blocks[i] = x

\* The first one of a type and label, and of an env block otherwise one without.
LEMMA Search ==
  ASSUME NEW In, NEW d \in Of(In), NEW type, NEW label
  PROVE  LET i == searchBlock(d, type, label)
         IN  /\ i = 0 => Lacks(d, type, label) /\ (type = "env" => Lacks(d, "env", NoLabel))
             /\ i # 0 => /\ i \in DOMAIN d.blocks /\ d.blocks[i].type = type
                         /\ \/ d.blocks[i].label = label
                            \/ Lacks(d, type, label) /\ type = "env" /\ d.blocks[i].label = NoLabel
  <1> DEFINE s == d.blocks
             at(l) == {i \in DOMAIN s : Kind(s[i], type, l)}
             look(l) == first(s, LAMBDA b : b.type = type /\ b.label = l)
  <1>1. s \in Seq(In) /\ DOMAIN s = 1..Len(s) /\ Len(s) \in Nat
    BY DEF Of, Shape
  <1>2. ASSUME NEW l
        PROVE  (look(l) = 0 /\ at(l) = {}) \/ look(l) \in at(l)
    <2>1. CASE at(l) = {}
      BY <2>1 DEF first, Kind
    <2>2. CASE at(l) # {}
      <3>1. PICK m \in at(l) : \A y \in at(l) : m <= y
        <4>1. at(l) \in SUBSET Nat
          BY <1>1
        <4> HIDE DEF at
        <4> QED BY <2>2, <4>1, Least
      <3>2. \A j \in 1..m-1 : j \in DOMAIN s /\ ~ (m <= j)
        BY <1>1, <3>1
      <3>3. \A j \in 1..m-1 : ~ (s[j].type = type /\ s[j].label = l)
        BY <3>1, <3>2 DEF Kind
      <3>4. m \in DOMAIN s /\ s[m].type = type /\ s[m].label = l
        BY <3>1 DEF Kind
      <3>5. look(l) = CHOOSE i \in DOMAIN s : /\ s[i].type = type /\ s[i].label = l
                                              /\ \A j \in 1..i-1 : ~ (s[j].type = type /\ s[j].label = l)
        BY <3>4 DEF first
      <3> HIDE DEF look
      <3> QED BY <3>3, <3>4, <3>5 DEF Kind
    <2> QED BY <2>1, <2>2
  <1>3. searchBlock(d, type, label) =
          IF look(label) = 0 /\ type = "env" THEN look(NoLabel) ELSE look(label)
    BY DEF searchBlock
  <1>4. \A l : at(l) = {} <=> Lacks(d, type, l)
    BY DEF Lacks, Has
  <1>5. \A l : 0 \notin at(l)
    BY <1>1
  <1>6. \A l : \A i \in at(l) : i \in DOMAIN d.blocks /\ d.blocks[i].type = type /\ d.blocks[i].label = l
    BY DEF Kind
  <1> HIDE DEF s, at, look
  <1>7. CASE look(label) = 0 /\ type = "env"
    BY <1>2, <1>3, <1>4, <1>5, <1>6, <1>7
  <1>8. CASE ~ (look(label) = 0 /\ type = "env")
    BY <1>2, <1>3, <1>4, <1>5, <1>6, <1>8
  <1> QED BY <1>7, <1>8

LEMMA FoundOnly ==
  ASSUME NEW In, NEW d \in Of(In), NEW type, NEW label, NEW x, HasOnly(d, type, label, x)
  PROVE  /\ found(d, type, label) /\ get(d, type, label) = x
         /\ HasAt(d, type, label, searchBlock(d, type, label))
  <1> DEFINE i == searchBlock(d, type, label)
  <1>1. PICK p : HasAt(d, type, label, p) /\ d.blocks[p] = x
    BY DEF HasOnly
  <1>2. p \in DOMAIN d.blocks /\ Kind(d.blocks[p], type, label)
    BY <1>1 DEF HasAt
  <1>3. ~Lacks(d, type, label)
    BY <1>2 DEF Lacks, Has
  <1>4. i # 0 /\ i \in DOMAIN d.blocks /\ Kind(d.blocks[i], type, label)
    BY <1>3, Search DEF Kind
  <1>5. i = p
    BY <1>1, <1>4 DEF HasAt
  <1> QED BY <1>1, <1>4, <1>5 DEF found, get

LEMMA NotFound ==
  ASSUME NEW In, NEW d \in Of(In), NEW type, NEW label, Lacks(d, type, label), type # "env"
  PROVE  ~found(d, type, label)
  <1> DEFINE i == searchBlock(d, type, label)
  <1>1. i # 0 => i \in DOMAIN d.blocks /\ d.blocks[i].type = type /\ d.blocks[i].label = label
    BY Search
  <1> QED BY <1>1 DEF found, Lacks, Has, Kind

LEMMA FoundIff ==
  ASSUME NEW In, NEW d \in Of(In), NEW type, NEW label, type # "env"
  PROVE  found(d, type, label) <=> Has(d, type, label)
  <1> DEFINE i == searchBlock(d, type, label)
  <1>1. /\ i = 0 => Lacks(d, type, label)
        /\ i # 0 => i \in DOMAIN d.blocks /\ d.blocks[i].type = type /\ d.blocks[i].label = label
    BY Search
  <1> QED BY <1>1 DEF found, Lacks, Has, Kind

-----------------------------------------------------------------------------
(* One turn of the loop of mergeBlocks.                                    *)

\* The block that b is merged into, and the body once it has become j.
hit(d, b) == d.blocks[searchBlock(d, b.type, b.label)]

Put(d, b, j) ==
  LET i == searchBlock(d, b.type, b.label)
  IN  IF i = 0 THEN [d EXCEPT !.blocks = Append(@, b)] ELSE [d EXCEPT !.blocks[i] = j]

LEMMA AttrsType == \A x, y \in Attrs : overriding(x, y) \in Attrs
  <1> SUFFICES ASSUME NEW s \in SUBSET Words, NEW u \in SUBSET Words,
                      NEW x \in [s -> Words], NEW y \in [u -> Words]
               PROVE  overriding(x, y) \in Attrs
    BY DEF Attrs
  <1>1. overriding(x, y) \in [s \cup u -> Words]
    BY DEF overriding
  <1> QED BY <1>1 DEF Attrs

LEMMA PutIs ==
  ASSUME NEW In, NEW d \in Of(In), NEW b \in In, NEW j,
         b.type \in Words, b.label \in Words,
         searchBlock(d, b.type, b.label) # 0 => j \in In
  PROVE  LET i == searchBlock(d, b.type, b.label)
             r == Put(d, b, j)
             n == Len(d.blocks)
         IN  /\ r \in Of(In) /\ r.type = d.type /\ r.label = d.label /\ r.attrs = d.attrs
             /\ i = 0 => /\ DOMAIN r.blocks = DOMAIN d.blocks \cup {n + 1}
                         /\ n + 1 \notin DOMAIN d.blocks /\ r.blocks[n + 1] = b
                         /\ \A k \in DOMAIN d.blocks : r.blocks[k] = d.blocks[k]
             /\ i # 0 => /\ i \in DOMAIN d.blocks /\ DOMAIN r.blocks = DOMAIN d.blocks
                         /\ r.blocks[i] = j
                         /\ \A k \in DOMAIN d.blocks \ {i} : r.blocks[k] = d.blocks[k]
  <1> DEFINE i == searchBlock(d, b.type, b.label)
             r == Put(d, b, j)
             n == Len(d.blocks)
             s == d.blocks
  <1>1. s \in Seq(In) /\ n \in Nat /\ DOMAIN s = 1..n
    BY DEF Of, Shape
  <1>2. i # 0 => i \in DOMAIN s
    BY Search
  <1>3. CASE i = 0
    <2>1. r = [d EXCEPT !.blocks = Append(s, b)]
      BY <1>3 DEF Put
    <2>2. Append(s, b) \in Seq(In) /\ DOMAIN Append(s, b) = DOMAIN s \cup {n + 1}
          /\ n + 1 \notin DOMAIN s /\ Append(s, b)[n + 1] = b
          /\ \A k \in DOMAIN s : Append(s, b)[k] = s[k]
      BY <1>1
    <2>3. r.blocks = Append(s, b) /\ r \in Of(In) /\ r.type = d.type /\ r.label = d.label /\ r.attrs = d.attrs
      BY <2>1, <2>2 DEF Of, Shape
    <2> HIDE DEF s, n, r, i
    <2> QED BY <1>3, <2>2, <2>3 DEF s, n, r, i
  <1>4. CASE i # 0
    <2>1. r = [d EXCEPT !.blocks = [s EXCEPT ![i] = j]]
      BY <1>4 DEF Put
    <2> DEFINE q == [s EXCEPT ![i] = j]
    <2>2. q \in Seq(In) /\ DOMAIN q = DOMAIN s /\ q[i] = j /\ \A k \in DOMAIN s \ {i} : q[k] = s[k]
      BY <1>1, <1>2, <1>4
    <2> HIDE DEF q
    <2>3. r.blocks = q /\ r \in Of(In) /\ r.type = d.type /\ r.label = d.label /\ r.attrs = d.attrs
      BY <2>1, <2>2 DEF Of, Shape, q
    <2> HIDE DEF s, n, r, i
    <2> QED BY <1>2, <1>4, <2>2, <2>3 DEF s, n, r, i
  <1> QED BY <1>3, <1>4

\* A block keeps its type and label.
Stays(d, b, j) ==
  LET i == searchBlock(d, b.type, b.label)
  IN  i # 0 => j.type = d.blocks[i].type /\ j.label = d.blocks[i].label

Turn(In, d, b, j) ==
  /\ d \in Of(In) /\ b \in In /\ b.type \in Words /\ b.label \in Words
  /\ searchBlock(d, b.type, b.label) # 0 => j \in In
  /\ Stays(d, b, j)

\* Blocks keep their places and kinds; one may be added at the end.
LEMMA PutKinds ==
  ASSUME NEW In, NEW d, NEW b, NEW j, Turn(In, d, b, j)
  PROVE  LET i == searchBlock(d, b.type, b.label)
             r == Put(d, b, j)
         IN  /\ \A k \in DOMAIN d.blocks : /\ k \in DOMAIN r.blocks
                                           /\ r.blocks[k].type = d.blocks[k].type
                                           /\ r.blocks[k].label = d.blocks[k].label
                                           /\ k # i => r.blocks[k] = d.blocks[k]
             /\ \A k \in DOMAIN r.blocks \ DOMAIN d.blocks : i = 0 /\ r.blocks[k] = b
             /\ i = 0 => \E k \in DOMAIN r.blocks \ DOMAIN d.blocks :
                           \A m \in DOMAIN r.blocks \ DOMAIN d.blocks : m = k
             /\ i # 0 => i \in DOMAIN d.blocks /\ r.blocks[i] = j
  <1> DEFINE i == searchBlock(d, b.type, b.label)
             r == Put(d, b, j)
             n == Len(d.blocks)
  <1>1. /\ i = 0 => /\ DOMAIN r.blocks = DOMAIN d.blocks \cup {n + 1}
                    /\ n + 1 \notin DOMAIN d.blocks /\ r.blocks[n + 1] = b
                    /\ \A k \in DOMAIN d.blocks : r.blocks[k] = d.blocks[k]
        /\ i # 0 => /\ i \in DOMAIN d.blocks /\ DOMAIN r.blocks = DOMAIN d.blocks
                    /\ r.blocks[i] = j
                    /\ \A k \in DOMAIN d.blocks \ {i} : r.blocks[k] = d.blocks[k]
    BY PutIs DEF Turn
  <1>2. i # 0 => j.type = d.blocks[i].type /\ j.label = d.blocks[i].label
    BY DEF Turn, Stays
  <1>3. /\ \A k \in DOMAIN d.blocks : /\ k \in DOMAIN r.blocks
                                      /\ r.blocks[k].type = d.blocks[k].type
                                      /\ r.blocks[k].label = d.blocks[k].label
                                      /\ k # i => r.blocks[k] = d.blocks[k]
        /\ \A k \in DOMAIN r.blocks \ DOMAIN d.blocks : i = 0 /\ r.blocks[k] = b
        /\ i = 0 => \E k \in DOMAIN r.blocks \ DOMAIN d.blocks :
                      \A m \in DOMAIN r.blocks \ DOMAIN d.blocks : m = k
        /\ i # 0 => i \in DOMAIN d.blocks /\ r.blocks[i] = j
    <2> HIDE DEF i, r, n
    <2>1. CASE i = 0
      BY <1>1, <2>1
    <2>2. CASE i # 0
      <3>1. ASSUME NEW k \in DOMAIN d.blocks
            PROVE  /\ k \in DOMAIN r.blocks
                   /\ r.blocks[k].type = d.blocks[k].type /\ r.blocks[k].label = d.blocks[k].label
                   /\ k # i => r.blocks[k] = d.blocks[k]
        BY <1>1, <1>2, <2>2
      <3> QED BY <1>1, <2>2, <3>1
    <2> QED BY <2>1, <2>2
  <1> QED BY <1>3

LEMMA PutKeeps ==
  ASSUME NEW In, NEW d, NEW b, NEW j, Turn(In, d, b, j), NEW type, NEW label, Has(d, type, label)
  PROVE  Has(Put(d, b, j), type, label)
  BY PutKinds DEF Has, Kind

\* A block of another kind changes none of this kind.
LEMMA PutOther ==
  ASSUME NEW In, NEW d, NEW b, NEW j, Turn(In, d, b, j), NEW type, NEW label,
         ~Kind(b, type, label), type = "env" => label # NoLabel
  PROVE  /\ Lacks(d, type, label) => Lacks(Put(d, b, j), type, label)
         /\ \A x : HasOnly(d, type, label, x) => HasOnly(Put(d, b, j), type, label, x)
  <1> DEFINE i == searchBlock(d, b.type, b.label)
             r == Put(d, b, j)
  <1>1. i # 0 => ~Kind(d.blocks[i], type, label)
    <2>1. i # 0 => /\ d.blocks[i].type = b.type
                   /\ d.blocks[i].label = b.label \/ (b.type = "env" /\ d.blocks[i].label = NoLabel)
      BY Search DEF Turn
    <2> QED BY <2>1 DEF Kind
  <1>2. \A k \in DOMAIN r.blocks :
          IF k \in DOMAIN d.blocks
          THEN /\ Kind(r.blocks[k], type, label) <=> Kind(d.blocks[k], type, label)
               /\ Kind(r.blocks[k], type, label) => r.blocks[k] = d.blocks[k]
          ELSE ~Kind(r.blocks[k], type, label)
    <2> HIDE DEF i, r
    <2>1. /\ \A k \in DOMAIN d.blocks : /\ k \in DOMAIN r.blocks
                                        /\ r.blocks[k].type = d.blocks[k].type
                                        /\ r.blocks[k].label = d.blocks[k].label
                                        /\ k # i => r.blocks[k] = d.blocks[k]
          /\ \A k \in DOMAIN r.blocks \ DOMAIN d.blocks : i = 0 /\ r.blocks[k] = b
          /\ i # 0 => i \in DOMAIN d.blocks
      BY PutKinds DEF i, r
    <2>2. ASSUME NEW k \in DOMAIN d.blocks
          PROVE  /\ Kind(r.blocks[k], type, label) <=> Kind(d.blocks[k], type, label)
                 /\ Kind(r.blocks[k], type, label) => r.blocks[k] = d.blocks[k]
      <3>0. 0 \notin DOMAIN d.blocks
        BY DEF Turn, Of, Shape
      <3>1. CASE k = i
        BY <1>1, <2>1, <3>0, <3>1 DEF Kind
      <3>2. CASE k # i
        BY <2>1, <3>2
      <3> QED BY <3>1, <3>2
    <2>3. ASSUME NEW k \in DOMAIN r.blocks \ DOMAIN d.blocks PROVE ~Kind(r.blocks[k], type, label)
      BY <2>1
    <2> QED BY <2>2, <2>3
  <1>3. DOMAIN d.blocks \subseteq DOMAIN r.blocks
    BY PutKinds
  <1> HIDE DEF i, r
  <1>4. Lacks(d, type, label) => Lacks(r, type, label)
    BY <1>2 DEF Lacks, Has
  <1>5. ASSUME NEW x, HasOnly(d, type, label, x) PROVE HasOnly(r, type, label, x)
    <2>1. PICK p \in DOMAIN d.blocks :
            d.blocks[p] = x /\ \A k \in DOMAIN d.blocks : Kind(d.blocks[k], type, label) <=> k = p
      BY <1>5 DEF HasOnly, HasAt
    <2>2. r.blocks[p] = x /\ p \in DOMAIN r.blocks
      BY <1>2, <1>3, <2>1
    <2>3. \A k \in DOMAIN r.blocks : Kind(r.blocks[k], type, label) <=> k = p
      BY <1>2, <2>1
    <2> QED BY <2>2, <2>3 DEF HasOnly, HasAt
  <1> QED BY <1>4, <1>5 DEF r

\* A block of the kind is merged into the one that is there, or is added.
LEMMA PutSame ==
  ASSUME NEW In, NEW d, NEW b, NEW j, Turn(In, d, b, j), NEW type, NEW label,
         Kind(b, type, label)
  PROVE  /\ \A x : HasOnly(d, type, label, x) =>
                     /\ HasOnly(Put(d, b, j), type, label, j)
                     /\ searchBlock(d, b.type, b.label) # 0
                     /\ hit(d, b) = x
         /\ Lacks(d, type, label) /\ type # "env" => HasOnly(Put(d, b, j), type, label, b)
  <1> DEFINE i == searchBlock(d, b.type, b.label)
             r == Put(d, b, j)
  <1>0. b.type = type /\ b.label = label /\ d \in Of(In)
    BY DEF Kind, Turn
  <1>1. /\ \A k \in DOMAIN d.blocks : /\ k \in DOMAIN r.blocks
                                      /\ r.blocks[k].type = d.blocks[k].type
                                      /\ r.blocks[k].label = d.blocks[k].label
                                      /\ k # i => r.blocks[k] = d.blocks[k]
        /\ \A k \in DOMAIN r.blocks \ DOMAIN d.blocks : i = 0 /\ r.blocks[k] = b
        /\ i = 0 => \E k \in DOMAIN r.blocks \ DOMAIN d.blocks :
                      \A m \in DOMAIN r.blocks \ DOMAIN d.blocks : m = k
        /\ i # 0 => i \in DOMAIN d.blocks /\ r.blocks[i] = j
    BY PutKinds
  <1>2. ASSUME NEW x, HasOnly(d, type, label, x)
        PROVE  HasOnly(r, type, label, j) /\ i # 0 /\ hit(d, b) = x
    <2>1. /\ found(d, type, label) /\ get(d, type, label) = x /\ HasAt(d, type, label, i)
      BY <1>0, <1>2, FoundOnly
    <2>2. i # 0 /\ d.blocks[i] = x
      BY <1>0, <2>1 DEF found, get
    <2>3. hit(d, b) = x
      BY <1>0, <2>2 DEF hit
    <2> HIDE DEF i, r
    <2>4. /\ i \in DOMAIN d.blocks
          /\ \A k \in DOMAIN d.blocks : Kind(d.blocks[k], type, label) <=> k = i
      BY <2>1 DEF HasAt
    <2>5. DOMAIN r.blocks = DOMAIN d.blocks
      BY <1>1, <2>2
    <2>6. \A k \in DOMAIN r.blocks : Kind(r.blocks[k], type, label) <=> k = i
      BY <1>1, <2>4, <2>5 DEF Kind
    <2>7. r.blocks[i] = j
      BY <1>1, <2>2
    <2> QED BY <2>2, <2>3, <2>4, <2>5, <2>6, <2>7 DEF HasOnly, HasAt
  <1>3. ASSUME Lacks(d, type, label), type # "env" PROVE HasOnly(r, type, label, b)
    <2>1. i = 0
      BY <1>0, <1>3, NotFound DEF found
    <2> HIDE DEF i, r
    <2>2. PICK p \in DOMAIN r.blocks \ DOMAIN d.blocks :
            \A m \in DOMAIN r.blocks \ DOMAIN d.blocks : m = p
      BY <1>1, <2>1
    <2>3. r.blocks[p] = b
      BY <1>1, <2>2
    <2>4. \A k \in DOMAIN r.blocks : Kind(r.blocks[k], type, label) <=> k = p
      <3>1. \A k \in DOMAIN d.blocks : ~Kind(r.blocks[k], type, label)
        BY <1>1, <1>3 DEF Lacks, Has, Kind
      <3> QED BY <2>2, <2>3, <3>1
    <2> QED BY <2>2, <2>3, <2>4 DEF HasOnly, HasAt
  <1> QED BY <1>2, <1>3

-----------------------------------------------------------------------------
(* The loop, where J is what becomes of a block of the first set that one  *)
(* of the second is merged into.                                           *)

Turns(In, J, dst, src, h) ==
  /\ h \in [0..Len(src.blocks) -> Of(In)] /\ h[0] = dst
  /\ \A k \in 1..Len(src.blocks) :
       LET b == src.blocks[k]
           j == J[<<hit(h[k - 1], b), b>>]
       IN  Turn(In, h[k - 1], b, j) /\ h[k] = Put(h[k - 1], b, j)

\* Env blocks without a label aside, for which others look.
Exact(type, label) == type = "env" => label # NoLabel

\* What the loop makes of dst, by type and label.
Merged(In, J, dst, src, r) ==
  /\ r \in Of(In) /\ r.type = dst.type /\ r.label = dst.label /\ r.attrs = dst.attrs
  /\ \A type, label : Has(dst, type, label) => Has(r, type, label)
  /\ \A type, label : Exact(type, label) /\ Lacks(src, type, label) =>
       /\ Lacks(dst, type, label) => Lacks(r, type, label)
       /\ \A x : HasOnly(dst, type, label, x) => HasOnly(r, type, label, x)
  /\ \A type, label, y : Exact(type, label) /\ HasOnly(src, type, label, y) =>
       /\ \A x : HasOnly(dst, type, label, x) => HasOnly(r, type, label, J[<<x, y>>])
       /\ Lacks(dst, type, label) /\ type # "env" => HasOnly(r, type, label, y)

Joins(In, J) ==
  /\ J \in [In \X In -> In]
  /\ \A b \in In : b.type \in Words /\ b.label \in Words
  /\ \A x, y \in In : J[<<x, y>>].type = x.type /\ J[<<x, y>>].label = x.label

\* The search for the kind of y may end at x.
Meet(x, y) == x.type = y.type /\ (x.label = y.label \/ x.label = NoLabel)

LEMMA TurnIs ==
  ASSUME NEW In, NEW J, Joins(In, J), NEW d \in Of(In), NEW b \in In
  PROVE  /\ Turn(In, d, b, J[<<hit(d, b), b>>])
         /\ Put(d, b, J[<<hit(d, b), b>>]) \in Of(In)
         /\ searchBlock(d, b.type, b.label) # 0 => hit(d, b) \in In /\ Meet(hit(d, b), b)
  <1> DEFINE i == searchBlock(d, b.type, b.label)
             j == J[<<hit(d, b), b>>]
  <1>1. b.type \in Words /\ b.label \in Words
    BY DEF Joins
  <1>2. i # 0 => i \in DOMAIN d.blocks /\ Meet(d.blocks[i], b)
    BY Search DEF Meet
  <1>3. \A k \in DOMAIN d.blocks : d.blocks[k] \in In
    BY DEF Of, Shape
  <1>4. i # 0 => hit(d, b) \in In /\ Meet(hit(d, b), b)
    BY <1>2, <1>3 DEF hit
  <1>5. i # 0 => j \in In /\ j.type = d.blocks[i].type /\ j.label = d.blocks[i].label
    <2>1. hit(d, b) = d.blocks[i]
      BY DEF hit
    <2> HIDE DEF i
    <2> QED BY <1>4, <2>1 DEF Joins
  <1>6. Turn(In, d, b, j)
    BY <1>1, <1>5 DEF Turn, Stays
  <1>7. Put(d, b, j) \in Of(In)
    BY <1>1, <1>5, PutIs
  <1> QED BY <1>4, <1>6, <1>7

LEMMA TurnsExist ==
  ASSUME NEW In, NEW J, Joins(In, J), NEW dst \in Of(In), NEW src \in Of(In)
  PROVE  \E h : Turns(In, J, dst, src, h)
  <1> DEFINE n == Len(src.blocks)
             turn == [x \in (1..n) \X Of(In) |->
                        LET b == src.blocks[x[1]] IN Put(x[2], b, J[<<hit(x[2], b), b>>])]
  <1>1. n \in Nat /\ \A k \in 1..n : src.blocks[k] \in In
    BY DEF Of, Shape
  <1>2. turn \in [(1..n) \X Of(In) -> Of(In)]
    <2>1. ASSUME NEW k \in 1..n, NEW d \in Of(In)
          PROVE  LET b == src.blocks[k] IN Put(d, b, J[<<hit(d, b), b>>]) \in Of(In)
      BY <1>1, TurnIs
    <2> QED BY <2>1
  <1>3. PICK h : Run(Of(In), n, dst, turn, h)
    <2> HIDE DEF turn, n
    <2> QED BY <1>1, <1>2, Loop
  <1>4. ASSUME NEW k \in 1..n
        PROVE  LET b == src.blocks[k]
                   j == J[<<hit(h[k - 1], b), b>>]
               IN  Turn(In, h[k - 1], b, j) /\ h[k] = Put(h[k - 1], b, j)
    <2>1. k - 1 \in 0..n /\ h[k - 1] \in Of(In) /\ src.blocks[k] \in In
      BY <1>1, <1>3 DEF Run
    <2>2. h[k] = turn[<<k, h[k - 1]>>] /\ <<k, h[k - 1]>> \in (1..n) \X Of(In)
      BY <1>3, <2>1 DEF Run
    <2> QED BY <2>1, <2>2, TurnIs
  <1> QED BY <1>3, <1>4 DEF Turns, Run

LEMMA TurnsMerge ==
  ASSUME NEW In, NEW J, Joins(In, J), NEW dst \in Of(In), NEW src \in Of(In),
         NEW h, Turns(In, J, dst, src, h)
  PROVE  Merged(In, J, dst, src, h[Len(src.blocks)])
  <1> DEFINE n == Len(src.blocks)
             b(k) == src.blocks[k]
             j(k) == J[<<hit(h[k - 1], b(k)), b(k)>>]
  <1>1. n \in Nat /\ DOMAIN src.blocks = 1..n /\ n \in 0..n
    BY DEF Of, Shape
  <1>2. /\ h \in [0..n -> Of(In)] /\ h[0] = dst
        /\ \A k \in 1..n : Turn(In, h[k - 1], b(k), j(k)) /\ h[k] = Put(h[k - 1], b(k), j(k))
    BY DEF Turns
  <1> HIDE DEF n, b, j
  <1>3. h[n].type = dst.type /\ h[n].label = dst.label /\ h[n].attrs = dst.attrs
    <2> DEFINE good == {k \in 0..n : h[k].type = dst.type /\ h[k].label = dst.label /\ h[k].attrs = dst.attrs}
    <2>1. 0 \in good
      BY <1>1, <1>2
    <2>2. ASSUME NEW k \in 1..n, k - 1 \in good PROVE k \in good
      <3>1. Turn(In, h[k - 1], b(k), j(k)) /\ h[k] = Put(h[k - 1], b(k), j(k))
        BY <1>2
      <3>2. h[k].type = h[k - 1].type /\ h[k].label = h[k - 1].label /\ h[k].attrs = h[k - 1].attrs
        BY <3>1, PutIs DEF Turn
      <3> QED BY <1>1, <2>2, <3>2
    <2> HIDE DEF good
    <2>3. n \in good
      BY <1>1, <2>1, <2>2, Kept
    <2> QED BY <2>3 DEF good
  <1>4. ASSUME NEW type, NEW label, Has(dst, type, label) PROVE Has(h[n], type, label)
    <2> DEFINE good == {k \in 0..n : Has(h[k], type, label)}
    <2>1. 0 \in good
      BY <1>1, <1>2, <1>4
    <2>2. ASSUME NEW k \in 1..n, k - 1 \in good PROVE k \in good
      BY <1>1, <1>2, <2>2, PutKeeps
    <2> HIDE DEF good
    <2>3. n \in good
      BY <1>1, <2>1, <2>2, Kept
    <2> QED BY <2>3 DEF good
  \* From k on there is no other block of the kind.
  <1>5. ASSUME NEW type, NEW label, Exact(type, label), NEW from \in 0..n,
               \A k \in (from + 1)..n : ~Kind(b(k), type, label)
        PROVE  /\ Lacks(h[from], type, label) => Lacks(h[n], type, label)
               /\ \A x : HasOnly(h[from], type, label, x) => HasOnly(h[n], type, label, x)
    <2> DEFINE good == {k \in 0..n : k >= from =>
                          /\ Lacks(h[from], type, label) => Lacks(h[k], type, label)
                          /\ \A x : HasOnly(h[from], type, label, x) => HasOnly(h[k], type, label, x)}
    <2>1. 0 \in good
      <3>1. 0 >= from => from = 0
        BY <1>1
      <3>2. 0 \in 0..n
        BY <1>1
      <3> QED BY <3>1, <3>2
    <2>2. ASSUME NEW k \in 1..n, k - 1 \in good PROVE k \in good
      <3>1. CASE k = from
        BY <1>1, <3>1
      <3>2. CASE k < from
        BY <1>1, <3>2
      <3>3. CASE k > from
        <4>1. k - 1 >= from /\ k \in (from + 1)..n /\ k \in 0..n
          BY <1>1, <3>3
        <4>2. ~Kind(b(k), type, label) /\ Turn(In, h[k - 1], b(k), j(k)) /\ h[k] = Put(h[k - 1], b(k), j(k))
          BY <1>2, <1>5, <4>1
        <4>3. /\ Lacks(h[k - 1], type, label) => Lacks(h[k], type, label)
              /\ \A x : HasOnly(h[k - 1], type, label, x) => HasOnly(h[k], type, label, x)
          BY <1>5, <4>2, PutOther DEF Exact
        <4> QED BY <2>2, <4>1, <4>3
      <3> QED BY <1>1, <3>1, <3>2, <3>3
    <2> HIDE DEF good
    <2>3. n \in good
      BY <1>1, <2>1, <2>2, Kept
    <2>4. n >= from
      BY <1>1
    <2> QED BY <2>3, <2>4 DEF good
  <1>6. ASSUME NEW type, NEW label, Exact(type, label), Lacks(src, type, label)
        PROVE  /\ Lacks(dst, type, label) => Lacks(h[n], type, label)
               /\ \A x : HasOnly(dst, type, label, x) => HasOnly(h[n], type, label, x)
    <2>1. \A k \in (0 + 1)..n : ~Kind(b(k), type, label)
      BY <1>1, <1>6 DEF Lacks, Has, b
    <2>2. 0 \in 0..n
      BY <1>1
    <2> QED BY <1>2, <1>5, <1>6, <2>1, <2>2
  <1>7. ASSUME NEW type, NEW label, NEW y, Exact(type, label), HasOnly(src, type, label, y)
        PROVE  /\ \A x : HasOnly(dst, type, label, x) => HasOnly(h[n], type, label, J[<<x, y>>])
               /\ Lacks(dst, type, label) /\ type # "env" => HasOnly(h[n], type, label, y)
    <2>1. PICK p \in 1..n : b(p) = y /\ \A k \in 1..n : Kind(b(k), type, label) <=> k = p
      BY <1>1, <1>7 DEF HasOnly, HasAt, b
    <2>2. p - 1 \in 0..n /\ p \in 0..n /\ Kind(b(p), type, label)
      BY <1>1, <2>1
    \* Up to p.
    <2>3. /\ Lacks(dst, type, label) => Lacks(h[p - 1], type, label)
          /\ \A x : HasOnly(dst, type, label, x) => HasOnly(h[p - 1], type, label, x)
      <3> DEFINE good == {k \in 0..n : k <= p - 1 =>
                            /\ Lacks(dst, type, label) => Lacks(h[k], type, label)
                            /\ \A x : HasOnly(dst, type, label, x) => HasOnly(h[k], type, label, x)}
      <3>1. 0 \in good
        BY <1>1, <1>2
      <3>2. ASSUME NEW k \in 1..n, k - 1 \in good PROVE k \in good
        <4>1. CASE k <= p - 1
          <5>1. ~Kind(b(k), type, label) /\ k - 1 <= p - 1 /\ k \in 0..n
            BY <1>1, <2>1, <4>1
          <5>2. Turn(In, h[k - 1], b(k), j(k)) /\ h[k] = Put(h[k - 1], b(k), j(k))
            BY <1>2
          <5>3. /\ Lacks(h[k - 1], type, label) => Lacks(h[k], type, label)
                /\ \A x : HasOnly(h[k - 1], type, label, x) => HasOnly(h[k], type, label, x)
            BY <1>7, <5>1, <5>2, PutOther DEF Exact
          <5> QED BY <3>2, <5>1, <5>3
        <4>2. CASE ~(k <= p - 1)
          BY <1>1, <4>2
        <4> QED BY <4>1, <4>2
      <3> HIDE DEF good
      <3>3. \A k \in 0..n : k \in good
        BY <1>1, <3>1, <3>2, Kept
      <3>4. p - 1 \in good /\ p - 1 <= p - 1
        BY <2>2, <3>3
      <3> QED BY <3>4 DEF good
    <2>4. Turn(In, h[p - 1], b(p), j(p)) /\ h[p] = Put(h[p - 1], b(p), j(p))
      BY <1>2
    <2>5. \A k \in (p + 1)..n : ~Kind(b(k), type, label)
      <3>1. \A k \in (p + 1)..n : k \in 1..n /\ k # p
        BY <1>1
      <3> QED BY <2>1, <3>1
    <2>6. ASSUME NEW x, HasOnly(dst, type, label, x) PROVE HasOnly(h[n], type, label, J[<<x, y>>])
      <3>1. HasOnly(h[p], type, label, j(p)) /\ hit(h[p - 1], b(p)) = x
        BY <2>2, <2>3, <2>4, <2>6, PutSame
      <3>2. j(p) = J[<<x, y>>]
        BY <2>1, <3>1 DEF j
      <3> QED BY <1>5, <1>7, <2>2, <2>5, <3>1, <3>2
    <2>7. ASSUME Lacks(dst, type, label), type # "env" PROVE HasOnly(h[n], type, label, y)
      <3>1. HasOnly(h[p], type, label, b(p))
        BY <2>2, <2>3, <2>4, <2>7, PutSame
      <3> QED BY <1>5, <1>7, <2>1, <2>2, <2>5, <3>1
    <2> QED BY <2>6, <2>7
  <1> QED BY <1>1, <1>2, <1>3, <1>4, <1>6, <1>7 DEF Merged, n

-----------------------------------------------------------------------------
(* The three levels of a file, innermost first: what a block becomes when  *)
(* another is merged into it.                                              *)

JoinInnermost(In) == [x \in In \X In |->
  IF Meet(x[1], x[2]) THEN mergeInnermost(taking(x[1], x[2]), x[2]) ELSE x[1]]
JoinInLint(In) == [x \in In \X In |->
  IF Meet(x[1], x[2]) THEN mergeInLint(taking(x[1], x[2]), x[2]) ELSE x[1]]
JoinInEnv(In) == [x \in In \X In |->
  IF Meet(x[1], x[2]) THEN mergeInEnv(taking(x[1], x[2]), x[2]) ELSE x[1]]

LEMMA InLintMerges ==
  ASSUME NEW In, Joins(In, JoinInnermost(In)), NEW dst \in Of(In), NEW src \in Of(In)
  PROVE  Merged(In, JoinInnermost(In), dst, src, mergeInLint(dst, src))
  <1> DEFINE J == JoinInnermost(In)
             n == Len(src.blocks)
             body(g) == [k \in 0..n |-> IF k = 0 THEN dst ELSE placed(mergeInnermost, g[k - 1], src.blocks[k])]
             f == CHOOSE g : g = body(g)
  <1>1. n \in Nat /\ \A k \in 1..n : src.blocks[k] \in In
    BY DEF Of, Shape
  <1>2. PICK h : Turns(In, J, dst, src, h)
    BY TurnsExist
  <1>3. ASSUME NEW d \in Of(In), NEW b \in In
        PROVE  placed(mergeInnermost, d, b) = Put(d, b, J[<<hit(d, b), b>>])
    <2>1. searchBlock(d, b.type, b.label) # 0 => <<hit(d, b), b>> \in In \X In /\ Meet(hit(d, b), b)
      BY TurnIs
    <2>2. searchBlock(d, b.type, b.label) # 0 =>
            J[<<hit(d, b), b>>] = mergeInnermost(taking(hit(d, b), b), b)
      BY <2>1 DEF JoinInnermost
    <2> HIDE DEF J
    <2>3. CASE searchBlock(d, b.type, b.label) = 0
      BY <2>3 DEF placed, Put
    <2>4. CASE searchBlock(d, b.type, b.label) # 0
      <3> DEFINE i == searchBlock(d, b.type, b.label)
      <3> HIDE DEF i
      <3>1. Put(d, b, J[<<hit(d, b), b>>]) =
              [d EXCEPT !.blocks[i] = mergeInnermost(taking(d.blocks[i], b), b)]
        BY <2>2, <2>4 DEF Put, hit, i
      <3>2. placed(mergeInnermost, d, b) =
              [d EXCEPT !.blocks[i] = mergeInnermost(taking(d.blocks[i], b), b)]
        BY <2>4 DEF placed, taking, i
      <3> QED BY <3>1, <3>2
    <2> QED BY <2>3, <2>4
  <1>4. h = body(h)
    <2>1. h \in [0..n -> Of(In)] /\ h[0] = dst
      BY <1>2 DEF Turns
    <2>2. ASSUME NEW k \in 1..n PROVE h[k] = placed(mergeInnermost, h[k - 1], src.blocks[k])
      <3>1. h[k - 1] \in Of(In)
        BY <1>1, <2>1
      <3>2. h[k] = Put(h[k - 1], src.blocks[k], J[<<hit(h[k - 1], src.blocks[k]), src.blocks[k]>>])
        BY <1>2 DEF Turns
      <3> QED BY <1>1, <1>3, <3>1, <3>2
    <2>3. \A k \in 0..n : h[k] = IF k = 0 THEN dst ELSE placed(mergeInnermost, h[k - 1], src.blocks[k])
      BY <1>1, <2>1, <2>2
    <2> QED BY <2>1, <2>3
  <1>5. f = body(f)
    BY <1>4
  <1>6. mergeInLint(dst, src) = f[n]
    BY DEF mergeInLint, mergedBy
  <1>7. f[n] = h[n]
    <2> HIDE DEF f
    <2>1. f[0] = h[0]
      BY <1>1, <1>4, <1>5
    <2>2. ASSUME NEW k \in 1..n, f[k - 1] = h[k - 1] PROVE f[k] = h[k]
      <3>1. k \in 0..n /\ k # 0
        BY <1>1
      <3>2. f[k] = placed(mergeInnermost, f[k - 1], src.blocks[k])
        BY <1>5, <3>1
      <3>3. h[k] = placed(mergeInnermost, h[k - 1], src.blocks[k])
        BY <1>4, <3>1
      <3> QED BY <2>2, <3>2, <3>3
    <2> QED BY <1>1, <2>1, <2>2, SameEnd
  <1>8. Merged(In, J, dst, src, h[n])
    BY <1>2, TurnsMerge
  <1> HIDE DEF f
  <1> QED BY <1>1, <1>6, <1>7, <1>8

LEMMA InEnvMerges ==
  ASSUME NEW In, Joins(In, JoinInLint(In)), NEW dst \in Of(In), NEW src \in Of(In)
  PROVE  Merged(In, JoinInLint(In), dst, src, mergeInEnv(dst, src))
  <1> DEFINE J == JoinInLint(In)
             n == Len(src.blocks)
             body(g) == [k \in 0..n |-> IF k = 0 THEN dst ELSE placed(mergeInLint, g[k - 1], src.blocks[k])]
             f == CHOOSE g : g = body(g)
  <1>1. n \in Nat /\ \A k \in 1..n : src.blocks[k] \in In
    BY DEF Of, Shape
  <1>2. PICK h : Turns(In, J, dst, src, h)
    BY TurnsExist
  <1>3. ASSUME NEW d \in Of(In), NEW b \in In
        PROVE  placed(mergeInLint, d, b) = Put(d, b, J[<<hit(d, b), b>>])
    <2>1. searchBlock(d, b.type, b.label) # 0 => <<hit(d, b), b>> \in In \X In /\ Meet(hit(d, b), b)
      BY TurnIs
    <2>2. searchBlock(d, b.type, b.label) # 0 =>
            J[<<hit(d, b), b>>] = mergeInLint(taking(hit(d, b), b), b)
      BY <2>1 DEF JoinInLint
    <2> HIDE DEF J
    <2>3. CASE searchBlock(d, b.type, b.label) = 0
      BY <2>3 DEF placed, Put
    <2>4. CASE searchBlock(d, b.type, b.label) # 0
      <3> DEFINE i == searchBlock(d, b.type, b.label)
      <3> HIDE DEF i
      <3>1. Put(d, b, J[<<hit(d, b), b>>]) =
              [d EXCEPT !.blocks[i] = mergeInLint(taking(d.blocks[i], b), b)]
        BY <2>2, <2>4 DEF Put, hit, i
      <3>2. placed(mergeInLint, d, b) =
              [d EXCEPT !.blocks[i] = mergeInLint(taking(d.blocks[i], b), b)]
        BY <2>4 DEF placed, taking, i
      <3> QED BY <3>1, <3>2
    <2> QED BY <2>3, <2>4
  <1>4. h = body(h)
    <2>1. h \in [0..n -> Of(In)] /\ h[0] = dst
      BY <1>2 DEF Turns
    <2>2. ASSUME NEW k \in 1..n PROVE h[k] = placed(mergeInLint, h[k - 1], src.blocks[k])
      <3>1. h[k - 1] \in Of(In)
        BY <1>1, <2>1
      <3>2. h[k] = Put(h[k - 1], src.blocks[k], J[<<hit(h[k - 1], src.blocks[k]), src.blocks[k]>>])
        BY <1>2 DEF Turns
      <3> QED BY <1>1, <1>3, <3>1, <3>2
    <2>3. \A k \in 0..n : h[k] = IF k = 0 THEN dst ELSE placed(mergeInLint, h[k - 1], src.blocks[k])
      BY <1>1, <2>1, <2>2
    <2> QED BY <2>1, <2>3
  <1>5. f = body(f)
    BY <1>4
  <1>6. mergeInEnv(dst, src) = f[n]
    BY DEF mergeInEnv, mergedBy
  <1>7. f[n] = h[n]
    <2> HIDE DEF f
    <2>1. f[0] = h[0]
      BY <1>1, <1>4, <1>5
    <2>2. ASSUME NEW k \in 1..n, f[k - 1] = h[k - 1] PROVE f[k] = h[k]
      <3>1. k \in 0..n /\ k # 0
        BY <1>1
      <3>2. f[k] = placed(mergeInLint, f[k - 1], src.blocks[k])
        BY <1>5, <3>1
      <3>3. h[k] = placed(mergeInLint, h[k - 1], src.blocks[k])
        BY <1>4, <3>1
      <3> QED BY <2>2, <3>2, <3>3
    <2> QED BY <1>1, <2>1, <2>2, SameEnd
  <1>8. Merged(In, J, dst, src, h[n])
    BY <1>2, TurnsMerge
  <1> HIDE DEF f
  <1> QED BY <1>1, <1>6, <1>7, <1>8

LEMMA InFileMerges ==
  ASSUME NEW In, Joins(In, JoinInEnv(In)), NEW dst \in Of(In), NEW src \in Of(In)
  PROVE  Merged(In, JoinInEnv(In), dst, src, mergeInFile(dst, src))
  <1> DEFINE J == JoinInEnv(In)
             n == Len(src.blocks)
             body(g) == [k \in 0..n |-> IF k = 0 THEN dst ELSE placed(mergeInEnv, g[k - 1], src.blocks[k])]
             f == CHOOSE g : g = body(g)
  <1>1. n \in Nat /\ \A k \in 1..n : src.blocks[k] \in In
    BY DEF Of, Shape
  <1>2. PICK h : Turns(In, J, dst, src, h)
    BY TurnsExist
  <1>3. ASSUME NEW d \in Of(In), NEW b \in In
        PROVE  placed(mergeInEnv, d, b) = Put(d, b, J[<<hit(d, b), b>>])
    <2>1. searchBlock(d, b.type, b.label) # 0 => <<hit(d, b), b>> \in In \X In /\ Meet(hit(d, b), b)
      BY TurnIs
    <2>2. searchBlock(d, b.type, b.label) # 0 =>
            J[<<hit(d, b), b>>] = mergeInEnv(taking(hit(d, b), b), b)
      BY <2>1 DEF JoinInEnv
    <2> HIDE DEF J
    <2>3. CASE searchBlock(d, b.type, b.label) = 0
      BY <2>3 DEF placed, Put
    <2>4. CASE searchBlock(d, b.type, b.label) # 0
      <3> DEFINE i == searchBlock(d, b.type, b.label)
      <3> HIDE DEF i
      <3>1. Put(d, b, J[<<hit(d, b), b>>]) =
              [d EXCEPT !.blocks[i] = mergeInEnv(taking(d.blocks[i], b), b)]
        BY <2>2, <2>4 DEF Put, hit, i
      <3>2. placed(mergeInEnv, d, b) =
              [d EXCEPT !.blocks[i] = mergeInEnv(taking(d.blocks[i], b), b)]
        BY <2>4 DEF placed, taking, i
      <3> QED BY <3>1, <3>2
    <2> QED BY <2>3, <2>4
  <1>4. h = body(h)
    <2>1. h \in [0..n -> Of(In)] /\ h[0] = dst
      BY <1>2 DEF Turns
    <2>2. ASSUME NEW k \in 1..n PROVE h[k] = placed(mergeInEnv, h[k - 1], src.blocks[k])
      <3>1. h[k - 1] \in Of(In)
        BY <1>1, <2>1
      <3>2. h[k] = Put(h[k - 1], src.blocks[k], J[<<hit(h[k - 1], src.blocks[k]), src.blocks[k]>>])
        BY <1>2 DEF Turns
      <3> QED BY <1>1, <1>3, <3>1, <3>2
    <2>3. \A k \in 0..n : h[k] = IF k = 0 THEN dst ELSE placed(mergeInEnv, h[k - 1], src.blocks[k])
      BY <1>1, <2>1, <2>2
    <2> QED BY <2>1, <2>3
  <1>5. f = body(f)
    BY <1>4
  <1>6. mergeInFile(dst, src) = f[n]
    BY DEF mergeInFile, mergedBy
  <1>7. f[n] = h[n]
    <2> HIDE DEF f
    <2>1. f[0] = h[0]
      BY <1>1, <1>4, <1>5
    <2>2. ASSUME NEW k \in 1..n, f[k - 1] = h[k - 1] PROVE f[k] = h[k]
      <3>1. k \in 0..n /\ k # 0
        BY <1>1
      <3>2. f[k] = placed(mergeInEnv, f[k - 1], src.blocks[k])
        BY <1>5, <3>1
      <3>3. h[k] = placed(mergeInEnv, h[k - 1], src.blocks[k])
        BY <1>4, <3>1
      <3> QED BY <2>2, <3>2, <3>3
    <2> QED BY <1>1, <2>1, <2>2, SameEnd
  <1>8. Merged(In, J, dst, src, h[n])
    BY <1>2, TurnsMerge
  <1> HIDE DEF f
  <1> QED BY <1>1, <1>6, <1>7, <1>8

-----------------------------------------------------------------------------
(* A file has blocks, they have blocks, and so have these: no deeper.      *)

Level0 == Shape({<<>>})
Level1 == Of(Level0)
Level2 == Of(Level1)
Files  == Of(Level2)

LEMMA TakingIs ==
  ASSUME NEW Bodies, NEW x \in Shape(Bodies),
         NEW y, y.attrs \in Attrs
  PROVE  /\ taking(x, y) \in Shape(Bodies)
         /\ taking(x, y).type = x.type /\ taking(x, y).label = x.label
         /\ taking(x, y).blocks = x.blocks
         /\ taking(x, y).attrs = overriding(y.attrs, x.attrs)
  <1>1. overriding(y.attrs, x.attrs) \in Attrs
    BY AttrsType DEF Shape
  <1> QED BY <1>1 DEF taking, Shape

LEMMA OfPart ==
  ASSUME NEW A, NEW B, NEW x \in Of(A), \A i \in DOMAIN x.blocks : x.blocks[i] \in B
  PROVE  x \in Of(B)
  <1>1. x.blocks \in Seq(B)
    BY DEF Of, Shape
  <1> QED BY <1>1 DEF Of, Shape

LEMMA Overriding ==
  ASSUME NEW x, NEW y, NEW n
  PROVE  /\ n \in DOMAIN overriding(x, y) <=> n \in DOMAIN x \/ n \in DOMAIN y
         /\ n \in DOMAIN x => overriding(x, y)[n] = x[n]
         /\ n \in DOMAIN y /\ n \notin DOMAIN x => overriding(x, y)[n] = y[n]
  BY DEF overriding

\* What is enough for the joins of a level.
LEMMA JoinsInnermost ==
  ASSUME NEW In \in SUBSET Level0,
         \A x, y \in In : Meet(x, y) => taking(x, y) \in In
  PROVE  Joins(In, JoinInnermost(In))
  <1> DEFINE J == JoinInnermost(In)
  <1>1. \A x \in In : x.type \in Words /\ x.label \in Words /\ x.attrs \in Attrs /\ x \in Level0
    BY DEF Level0, Shape
  <1>2. ASSUME NEW x \in In, NEW y \in In
        PROVE  J[<<x, y>>] \in In /\ J[<<x, y>>].type = x.type /\ J[<<x, y>>].label = x.label
    <2>1. CASE Meet(x, y)
      <3>1. J[<<x, y>>] = taking(x, y)
        BY <2>1 DEF JoinInnermost, mergeInnermost
      <3>2. x \in Shape({<<>>}) /\ y.attrs \in Attrs
        BY <1>1 DEF Level0
      <3>3. taking(x, y).type = x.type /\ taking(x, y).label = x.label
        BY <3>2, TakingIs
      <3> HIDE DEF J
      <3> QED BY <2>1, <3>1, <3>3
    <2>2. CASE ~Meet(x, y)
      BY <2>2 DEF JoinInnermost
    <2> QED BY <2>1, <2>2
  <1>3. J = [x \in In \X In |-> J[x]]
    BY DEF JoinInnermost
  <1>4. J \in [In \X In -> In]
    <2>1. \A x \in In \X In : J[x] \in In
      BY <1>2
    <2> HIDE DEF J
    <2> QED BY <1>3, <2>1
  <1> QED BY <1>1, <1>2, <1>4 DEF Joins

LEMMA Level0Joins == Joins(Level0, JoinInnermost(Level0))
  <1>0. \A y \in Level0 : y.attrs \in Attrs
    BY DEF Level0, Shape
  <1>1. \A x, y \in Level0 : taking(x, y) \in Level0
    BY <1>0, TakingIs DEF Level0
  <1> QED BY <1>1, JoinsInnermost

\* What a block of a file becomes when another is merged into it.
LEMMA LintMerges ==
  ASSUME NEW x \in Level1, NEW y \in Level1
  PROVE  /\ mergeInLint(taking(x, y), y) \in Level1
         /\ Merged(Level0, JoinInnermost(Level0), taking(x, y), y, mergeInLint(taking(x, y), y))
         /\ taking(x, y) \in Level1 /\ taking(x, y).blocks = x.blocks
         /\ taking(x, y).type = x.type /\ taking(x, y).label = x.label
         /\ taking(x, y).attrs = overriding(y.attrs, x.attrs)
  <1>1. y \in Of(Level0) /\ y.attrs \in Attrs
    BY DEF Level1, Of, Shape
  <1>2. /\ taking(x, y) \in Of(Level0) /\ taking(x, y).blocks = x.blocks
        /\ taking(x, y).type = x.type /\ taking(x, y).label = x.label
        /\ taking(x, y).attrs = overriding(y.attrs, x.attrs)
    BY <1>1, TakingIs DEF Level1, Of
  <1>3. Merged(Level0, JoinInnermost(Level0), taking(x, y), y, mergeInLint(taking(x, y), y))
    BY <1>1, <1>2, InLintMerges, Level0Joins
  <1> QED BY <1>2, <1>3 DEF Merged, Level1

LEMMA JoinsInLint ==
  ASSUME NEW In \in SUBSET Level1,
         \A x, y \in In : Meet(x, y) => mergeInLint(taking(x, y), y) \in In
  PROVE  Joins(In, JoinInLint(In))
  <1> DEFINE J == JoinInLint(In)
  <1>1. \A x \in In : x.type \in Words /\ x.label \in Words /\ x.attrs \in Attrs /\ x \in Level1
    BY DEF Level1, Of, Shape
  <1>2. ASSUME NEW x \in In, NEW y \in In
        PROVE  J[<<x, y>>] \in In /\ J[<<x, y>>].type = x.type /\ J[<<x, y>>].label = x.label
    <2>1. CASE Meet(x, y)
      <3>1. J[<<x, y>>] = mergeInLint(taking(x, y), y)
        BY <2>1 DEF JoinInLint
      <3>2. /\ Merged(Level0, JoinInnermost(Level0), taking(x, y), y, mergeInLint(taking(x, y), y))
            /\ taking(x, y).type = x.type /\ taking(x, y).label = x.label
        BY LintMerges
      <3> HIDE DEF J
      <3> QED BY <2>1, <3>1, <3>2 DEF Merged
    <2>2. CASE ~Meet(x, y)
      BY <2>2 DEF JoinInLint
    <2> QED BY <2>1, <2>2
  <1>3. J = [x \in In \X In |-> J[x]]
    BY DEF JoinInLint
  <1>4. J \in [In \X In -> In]
    <2>1. \A x \in In \X In : J[x] \in In
      BY <1>2
    <2> HIDE DEF J
    <2> QED BY <1>3, <2>1
  <1> QED BY <1>1, <1>2, <1>4 DEF Joins

LEMMA Level1Joins == Joins(Level1, JoinInLint(Level1))
  BY JoinsInLint, LintMerges

LEMMA EnvMerges ==
  ASSUME NEW x \in Level2, NEW y \in Level2
  PROVE  /\ mergeInEnv(taking(x, y), y) \in Level2
         /\ Merged(Level1, JoinInLint(Level1), taking(x, y), y, mergeInEnv(taking(x, y), y))
         /\ taking(x, y) \in Level2 /\ taking(x, y).blocks = x.blocks
         /\ taking(x, y).type = x.type /\ taking(x, y).label = x.label
         /\ taking(x, y).attrs = overriding(y.attrs, x.attrs)
  <1>1. y \in Of(Level1) /\ y.attrs \in Attrs
    BY DEF Level2, Of, Shape
  <1>2. /\ taking(x, y) \in Of(Level1) /\ taking(x, y).blocks = x.blocks
        /\ taking(x, y).type = x.type /\ taking(x, y).label = x.label
        /\ taking(x, y).attrs = overriding(y.attrs, x.attrs)
    BY <1>1, TakingIs DEF Level2, Of
  <1>3. Merged(Level1, JoinInLint(Level1), taking(x, y), y, mergeInEnv(taking(x, y), y))
    BY <1>1, <1>2, InEnvMerges, Level1Joins
  <1> QED BY <1>2, <1>3 DEF Merged, Level2

LEMMA JoinsInEnv ==
  ASSUME NEW In \in SUBSET Level2,
         \A x, y \in In : Meet(x, y) => mergeInEnv(taking(x, y), y) \in In
  PROVE  Joins(In, JoinInEnv(In))
  <1> DEFINE J == JoinInEnv(In)
  <1>1. \A x \in In : x.type \in Words /\ x.label \in Words /\ x.attrs \in Attrs /\ x \in Level2
    BY DEF Level2, Of, Shape
  <1>2. ASSUME NEW x \in In, NEW y \in In
        PROVE  J[<<x, y>>] \in In /\ J[<<x, y>>].type = x.type /\ J[<<x, y>>].label = x.label
    <2>1. CASE Meet(x, y)
      <3>1. J[<<x, y>>] = mergeInEnv(taking(x, y), y)
        BY <2>1 DEF JoinInEnv
      <3>2. /\ Merged(Level1, JoinInLint(Level1), taking(x, y), y, mergeInEnv(taking(x, y), y))
            /\ taking(x, y).type = x.type /\ taking(x, y).label = x.label
        BY EnvMerges
      <3> HIDE DEF J
      <3> QED BY <2>1, <3>1, <3>2 DEF Merged
    <2>2. CASE ~Meet(x, y)
      BY <2>2 DEF JoinInEnv
    <2> QED BY <2>1, <2>2
  <1>3. J = [x \in In \X In |-> J[x]]
    BY DEF JoinInEnv
  <1>4. J \in [In \X In -> In]
    <2>1. \A x \in In \X In : J[x] \in In
      BY <1>2
    <2> HIDE DEF J
    <2> QED BY <1>3, <2>1
  <1> QED BY <1>1, <1>2, <1>4 DEF Joins

LEMMA Level2Joins == Joins(Level2, JoinInEnv(Level2))
  BY JoinsInEnv, EnvMerges

-----------------------------------------------------------------------------
(* What evaluateEnvBlock does to each block.                               *)

opened(b) == [without(b, "name") EXCEPT !.label = EnvName]

opens(c, i) ==
  /\ c.blocks[i].type = "env"
  /\ has(c.blocks[i], "name") /\ c.blocks[i].attrs["name"] = "atlas.env"
  /\ \A j \in DOMAIN c.blocks : j <= i /\ c.blocks[j].type = "env" => c.blocks[j].label = NoLabel

LEMMA Labels == EnvName \in Words /\ NoLabel \in Words /\ EnvName # NoLabel
  BY DEF EnvName, NoLabel, Words

LEMMA Opened ==
  ASSUME NEW b \in Level2
  PROVE  /\ opened(b) \in Level2
         /\ opened(b).type = b.type /\ opened(b).label = EnvName /\ opened(b).blocks = b.blocks
         /\ \A n : has(opened(b), n) <=> has(b, n) /\ n # "name"
  <1>1. b.attrs \in Attrs /\ b.blocks \in Seq(Level1)
    BY DEF Level2, Of, Shape
  <1> DEFINE rest == [n \in DOMAIN b.attrs \ {"name"} |-> b.attrs[n]]
  <1>2. rest \in Attrs
    <2>1. PICK s \in SUBSET Words : b.attrs \in [s -> Words]
      BY <1>1 DEF Attrs
    <2>2. rest \in [s \ {"name"} -> Words] /\ s \ {"name"} \in SUBSET Words
      BY <2>1
    <2> HIDE DEF rest
    <2> QED BY <2>2 DEF Attrs
  <1>3. without(b, "name") = [b EXCEPT !.attrs = rest]
    BY DEF without
  <1>4. \A n : n \in DOMAIN rest <=> n \in DOMAIN b.attrs /\ n # "name"
    OBVIOUS
  <1> HIDE DEF rest
  <1>5. opened(b) = [b EXCEPT !.attrs = rest, !.label = EnvName]
    BY <1>3 DEF opened, Level2, Of, Shape
  <1>6. /\ opened(b) \in Level2 /\ opened(b).attrs = rest
        /\ opened(b).type = b.type /\ opened(b).label = EnvName /\ opened(b).blocks = b.blocks
    BY <1>2, <1>5, Labels DEF Level2, Of, Shape
  <1> QED BY <1>4, <1>6 DEF has

LEMMA Evaluated ==
  ASSUME NEW c \in Files
  PROVE  LET e == evaluateEnvBlock(c, EnvName)
         IN  /\ e \in Files
             /\ e.type = c.type /\ e.label = c.label /\ e.attrs = c.attrs
             /\ DOMAIN e.blocks = DOMAIN c.blocks
             /\ \A i \in DOMAIN c.blocks :
                  e.blocks[i] = IF opens(c, i) THEN opened(c.blocks[i]) ELSE c.blocks[i]
  <1> DEFINE s == c.blocks
             q == [i \in DOMAIN s |-> IF opens(c, i) THEN opened(s[i]) ELSE s[i]]
             e == evaluateEnvBlock(c, EnvName)
  <1>1. s \in Seq(Level2) /\ DOMAIN s = 1..Len(s) /\ Len(s) \in Nat
    BY DEF Files, Of, Shape
  <1>2. e = [c EXCEPT !.blocks = q]
    BY Labels DEF evaluateEnvBlock, opens, opened
  <1>3. \A i \in DOMAIN s : s[i] \in Level2 /\ opened(s[i]) \in Level2
    BY <1>1, Opened
  <1>4. DOMAIN q = DOMAIN s /\ \A i \in DOMAIN s : q[i] = IF opens(c, i) THEN opened(s[i]) ELSE s[i]
    OBVIOUS
  <1>5. q \in Seq(Level2)
    <2>1. q \in [1..Len(s) -> Level2]
      BY <1>1, <1>3
    <2> HIDE DEF q
    <2> QED BY <1>1, <2>1
  <1> HIDE DEF q, e
  <1>6. e.blocks = q /\ e \in Files /\ e.type = c.type /\ e.label = c.label /\ e.attrs = c.attrs
    BY <1>2, <1>5 DEF Files, Of, Shape
  <1> QED BY <1>4, <1>6 DEF e

-----------------------------------------------------------------------------
(* The custom configuration and the blocks made of the resource.           *)

LEMMA BlockIs ==
  ASSUME NEW b, IsBlock(b)
  PROVE  b \in Of(inside(b)) /\ \A i \in DOMAIN b.blocks : b.blocks[i] \in inside(b)
  <1>1. b.attrs \in [DOMAIN b.attrs -> Words] /\ DOMAIN b.attrs \in SUBSET Words
    BY DEF IsBlock, Words
  <1>2. b.attrs \in Attrs
    BY <1>1 DEF Attrs
  <1> QED BY <1>2 DEF IsBlock, Of, Shape, inside, Words

LEMMA ConfigIs == ASSUME NEW c, IsConfig(c) PROVE c \in Files
  <1>1. ASSUME NEW l, IsBlock(l), l.blocks = <<>> PROVE l \in Level0
    BY <1>1, BlockIs DEF Level0, Of, Shape
  <1>2. ASSUME NEW e, IsBlock(e), \A l \in inside(e) : IsBlock(l) /\ l.blocks = <<>>
        PROVE  e \in Level1
    <2>1. e \in Of(inside(e)) /\ \A i \in DOMAIN e.blocks : e.blocks[i] \in Level0
      BY <1>1, <1>2, BlockIs
    <2> QED BY <2>1, OfPart DEF Level1
  <1>3. ASSUME NEW b \in inside(c) PROVE b \in Level2
    <2>1. IsBlock(b) /\ \A e \in inside(b) : IsBlock(e) /\ \A l \in inside(e) : IsBlock(l) /\ l.blocks = <<>>
      BY DEF IsConfig
    <2>2. b \in Of(inside(b)) /\ \A i \in DOMAIN b.blocks : b.blocks[i] \in Level1
      BY <1>2, <2>1, BlockIs
    <2> QED BY <2>2, OfPart DEF Level2
  <1>4. c \in Of(inside(c)) /\ \A i \in DOMAIN c.blocks : c.blocks[i] \in Level2
    BY <1>3, BlockIs DEF IsConfig
  <1> QED BY <1>4, OfPart DEF Files

PolicyType == [lint : BOOLEAN, destructive : {"unset", "false", "true"},
               review : {"unset", "ALWAYS", "ERROR"}]

destructiveOf(p) == block("destructive", NoLabel, attribute("error", p.destructive), <<>>)
lintOf(p) == block("lint", NoLabel, set("review", p.review),
                   IF p.destructive = "unset" THEN <<>> ELSE <<destructiveOf(p)>>)
schemaOf == block("schema", NoLabel, attribute("src", "desired"), <<>>)
envOf(p) == block("env", EnvName, overriding(attribute("url", "spec"), set("dev", devURL)),
                  (IF desired THEN <<schemaOf>> ELSE <<>>) \o (IF p.lint THEN <<lintOf(p)>> ELSE <<>>))

DataType == desired \in BOOLEAN /\ devURL \in {"none", "managed"}

LEMMA AttributeIs ==
  /\ \A n, v \in Words : attribute(n, v) \in Attrs /\ set(n, v) \in Attrs
  /\ \A n, v : DOMAIN attribute(n, v) = {n} /\ attribute(n, v)[n] = v
  /\ \A n, v : v \in {"unset", "none"} => DOMAIN set(n, v) = {}
  /\ \A n, v : v \notin {"unset", "none"} => set(n, v) = attribute(n, v)
  <1>1. \A n, v \in Words : attribute(n, v) \in [{n} -> Words] /\ {n} \in SUBSET Words
    BY DEF attribute
  <1>2. None \in [{} -> Words] /\ {} \in SUBSET Words /\ DOMAIN None = {}
    BY DEF None
  <1>3. None \in Attrs
    BY <1>2 DEF Attrs
  <1>4. ASSUME NEW n \in Words, NEW v \in Words PROVE attribute(n, v) \in Attrs
    <2>1. PICK only \in SUBSET Words : attribute(n, v) \in [only -> Words]
      BY <1>1
    <2> QED BY <2>1 DEF Attrs
  <1> QED BY <1>2, <1>3, <1>4 DEF set, attribute

\* What a lint block of the resource has.
LEMMA LintOf ==
  ASSUME NEW p \in PolicyType
  PROVE  /\ lintOf(p) \in Level1 /\ lintOf(p).type = "lint" /\ lintOf(p).label = NoLabel
         /\ has(lintOf(p), "review") <=> p.review # "unset"
         /\ p.review # "unset" => lintOf(p).attrs["review"] = p.review
         /\ p.destructive = "unset" => Lacks(lintOf(p), "destructive", NoLabel)
         /\ p.destructive # "unset" => HasOnly(lintOf(p), "destructive", NoLabel, destructiveOf(p))
         /\ destructiveOf(p) \in Level0
         /\ has(destructiveOf(p), "error") /\ destructiveOf(p).attrs["error"] = p.destructive
  <1>1. p.review \in Words /\ p.destructive \in Words /\ "review" \in Words /\ "error" \in Words
        /\ "destructive" \in Words /\ "lint" \in Words /\ NoLabel \in Words
    BY DEF PolicyType, Words, NoLabel
  <1>0. attribute("error", p.destructive) \in Attrs
    BY <1>1, AttributeIs
  <1>2. /\ destructiveOf(p) \in Level0 /\ Kind(destructiveOf(p), "destructive", NoLabel)
        /\ has(destructiveOf(p), "error") /\ destructiveOf(p).attrs["error"] = p.destructive
    <2>1. destructiveOf(p) = [type |-> "destructive", label |-> NoLabel,
                              attrs |-> attribute("error", p.destructive), blocks |-> <<>>]
      BY DEF destructiveOf, block
    <2>2. destructiveOf(p) \in Level0 /\ Kind(destructiveOf(p), "destructive", NoLabel)
      BY <1>0, <1>1, <2>1 DEF Level0, Shape, Kind
    <2>3. destructiveOf(p).attrs = attribute("error", p.destructive)
      BY <2>1
    <2>4. "error" \in DOMAIN attribute("error", p.destructive)
          /\ attribute("error", p.destructive)["error"] = p.destructive
      BY DEF attribute
    <2> QED BY <2>2, <2>3, <2>4 DEF has
  <1> DEFINE s == IF p.destructive = "unset" THEN <<>> ELSE <<destructiveOf(p)>>
  <1>3. s \in Seq(Level0)
    BY <1>2
  <1>4. set("review", p.review) \in Attrs
    BY <1>1, AttributeIs
  <1>5. /\ lintOf(p).blocks = s /\ lintOf(p).type = "lint" /\ lintOf(p).label = NoLabel
        /\ lintOf(p).attrs = set("review", p.review)
    BY DEF lintOf, block
  <1>6. lintOf(p) \in Level1
    <2> HIDE DEF s
    <2>1. lintOf(p) = [type |-> "lint", label |-> NoLabel, attrs |-> set("review", p.review), blocks |-> s]
      BY DEF lintOf, block, s
    <2> QED BY <1>1, <1>3, <1>4, <2>1 DEF Level1, Of, Shape
  <1>7. /\ has(lintOf(p), "review") <=> p.review # "unset"
        /\ p.review # "unset" => lintOf(p).attrs["review"] = p.review
    <2>1. p.review # "none"
      BY DEF PolicyType
    <2>2. CASE p.review = "unset"
      BY <1>5, <2>2, AttributeIs DEF has
    <2>3. CASE p.review # "unset"
      <3>1. lintOf(p).attrs = attribute("review", p.review)
        BY <1>5, <2>1, <2>3, AttributeIs
      <3>2. "review" \in DOMAIN attribute("review", p.review)
            /\ attribute("review", p.review)["review"] = p.review
        BY DEF attribute
      <3> QED BY <2>3, <3>1, <3>2 DEF has
    <2> QED BY <2>2, <2>3
  <1>8. CASE p.destructive = "unset"
    BY <1>2, <1>5, <1>6, <1>7, <1>8 DEF Lacks, Has
  <1>9. CASE p.destructive # "unset"
    <2>1. DOMAIN lintOf(p).blocks = {1} /\ lintOf(p).blocks[1] = destructiveOf(p)
      BY <1>5, <1>9
    <2>2. HasOnly(lintOf(p), "destructive", NoLabel, destructiveOf(p))
      BY <1>2, <2>1 DEF HasOnly, HasAt
    <2> QED BY <1>2, <1>5, <1>6, <1>7, <1>9, <2>2
  <1> QED BY <1>8, <1>9

\* The env block of the resource has a url, a dev database if it was given one,
\* and the schema and lint blocks that the resource asks for.
LEMMA EnvOf ==
  ASSUME NEW p \in PolicyType, DataType
  PROVE  /\ envOf(p) \in Level2 /\ envOf(p).type = "env" /\ envOf(p).label = EnvName
         /\ \A n : has(envOf(p), n) <=> n = "url" \/ (n = "dev" /\ devURL # "none")
         /\ Has(envOf(p), "schema", NoLabel) <=> desired
         /\ p.lint => HasOnly(envOf(p), "lint", NoLabel, lintOf(p))
         /\ ~p.lint => Lacks(envOf(p), "lint", NoLabel)
         /\ \A i \in DOMAIN envOf(p).blocks : envOf(p).blocks[i].type # "security"
  <1> DEFINE s == (IF desired THEN <<schemaOf>> ELSE <<>>) \o (IF p.lint THEN <<lintOf(p)>> ELSE <<>>)
             a == overriding(attribute("url", "spec"), set("dev", devURL))
  <1>1. devURL \in Words /\ "dev" \in Words /\ "url" \in Words /\ "spec" \in Words /\ "src" \in Words
        /\ "desired" \in Words /\ "schema" \in Words /\ "env" \in Words /\ EnvName \in Words
        /\ NoLabel \in Words
    BY Labels DEF DataType, Words
  <1>2. schemaOf \in Level1 /\ schemaOf.type = "schema" /\ schemaOf.label = NoLabel
    <2>1. schemaOf = [type |-> "schema", label |-> NoLabel, attrs |-> attribute("src", "desired"), blocks |-> <<>>]
      BY DEF schemaOf, block
    <2>2. attribute("src", "desired") \in Attrs /\ <<>> \in Seq(Level0)
      BY <1>1, AttributeIs
    <2> QED BY <1>1, <2>1, <2>2 DEF Level1, Of, Shape
  <1>3. lintOf(p) \in Level1 /\ lintOf(p).type = "lint" /\ lintOf(p).label = NoLabel
    BY LintOf
  <1>4. /\ s \in Seq(Level1)
        /\ (\E i \in DOMAIN s : Kind(s[i], "schema", NoLabel)) <=> desired
        /\ p.lint => \E i \in DOMAIN s : /\ s[i] = lintOf(p)
                                         /\ \A j \in DOMAIN s : Kind(s[j], "lint", NoLabel) <=> j = i
        /\ ~p.lint => \A i \in DOMAIN s : ~Kind(s[i], "lint", NoLabel)
        /\ \A i \in DOMAIN s : s[i].type # "security"
    <2> HIDE DEF DataType
    <2>1. CASE desired /\ p.lint
      <3>1. s = <<schemaOf>> \o <<lintOf(p)>>
        BY <2>1
      <3>2. <<schemaOf>> \in Seq(Level1) /\ <<lintOf(p)>> \in Seq(Level1)
        BY <1>2, <1>3
      <3> HIDE DEF s
      <3>3. s \in Seq(Level1) /\ DOMAIN s = 1..2 /\ s[1] = schemaOf /\ s[2] = lintOf(p)
        BY <3>1, <3>2
      <3>4. DOMAIN s = {1, 2}
        BY <3>3
      <3> QED BY <1>2, <1>3, <2>1, <3>3, <3>4 DEF Kind
    <2>2. CASE desired /\ ~p.lint
      <3>1. s = <<schemaOf>>
        BY <2>2
      <3> HIDE DEF s
      <3>2. DOMAIN s = {1} /\ s[1] = schemaOf /\ s \in Seq(Level1)
        BY <1>2, <3>1
      <3> QED BY <1>2, <2>2, <3>2 DEF Kind
    <2>3. CASE ~desired /\ p.lint
      <3>1. s = <<lintOf(p)>>
        BY <2>3
      <3> HIDE DEF s
      <3>2. DOMAIN s = {1} /\ s[1] = lintOf(p) /\ s \in Seq(Level1)
        BY <1>3, <3>1
      <3> QED BY <1>3, <2>3, <3>2 DEF Kind
    <2>4. CASE ~desired /\ ~p.lint
      <3>1. s = <<>>
        BY <2>4
      <3> HIDE DEF s
      <3>2. DOMAIN s = {} /\ s \in Seq(Level1)
        BY <3>1
      <3> QED BY <2>4, <3>2
    <2> QED BY <2>1, <2>2, <2>3, <2>4
  <1>5. a \in Attrs /\ \A n : n \in DOMAIN a <=> n = "url" \/ (n = "dev" /\ devURL # "none")
    <2>1. attribute("url", "spec") \in Attrs /\ set("dev", devURL) \in Attrs
      BY <1>1, AttributeIs
    <2>2. DOMAIN attribute("url", "spec") = {"url"}
      BY DEF attribute
    <2>3. DOMAIN set("dev", devURL) = IF devURL = "none" THEN {} ELSE {"dev"}
      BY DEF set, attribute, None, DataType
    <2> QED BY <2>1, <2>2, <2>3, AttrsType, Overriding
  <1>6. envOf(p) = [type |-> "env", label |-> EnvName, attrs |-> a, blocks |-> s]
    BY DEF envOf, block
  <1> HIDE DEF a, s
  <1>7. envOf(p).blocks = s /\ envOf(p).attrs = a
    BY <1>6
  <1>8. envOf(p) \in Level2 /\ envOf(p).type = "env" /\ envOf(p).label = EnvName
    BY <1>1, <1>4, <1>5, <1>6 DEF Level2, Of, Shape
  <1> QED BY <1>4, <1>5, <1>7, <1>8 DEF Has, HasOnly, HasAt, Lacks, has

LEMMA AsBlocks ==
  ASSUME NEW p \in PolicyType, DataType
  PROVE  /\ asBlocks(p) \in Files
         /\ evaluateEnvBlock(asBlocks(p), EnvName) = asBlocks(p)
         /\ DOMAIN asBlocks(p).blocks = {1} /\ asBlocks(p).blocks[1] = envOf(p)
         /\ HasOnly(asBlocks(p), "env", EnvName, envOf(p))
  <1> DEFINE f == asBlocks(p)
  <1>1. envOf(p) \in Level2 /\ envOf(p).type = "env" /\ envOf(p).label = EnvName
    BY EnvOf
  <1>2. asBlocks(p) = [NewFile EXCEPT !.blocks = <<envOf(p)>>]
    BY DEF asBlocks, envOf, lintOf, destructiveOf, schemaOf
  <1>3. f = [type |-> "file", label |-> NoLabel, attrs |-> None, blocks |-> <<envOf(p)>>]
    BY <1>2 DEF NewFile, block
  <1>4. None \in Attrs
    <2>1. PICK only \in SUBSET Words : only = {}
      OBVIOUS
    <2>2. None \in [only -> Words]
      BY <2>1 DEF None
    <2> QED BY <2>2 DEF Attrs
  <1>5. <<envOf(p)>> \in Seq(Level2) /\ "file" \in Words
    BY <1>1 DEF Words
  <1> HIDE DEF f
  <1>6. f \in Files
    BY <1>3, <1>4, <1>5, Labels DEF Files, Of, Shape
  <1>7. DOMAIN f.blocks = {1} /\ f.blocks[1] = envOf(p) /\ f.blocks = <<envOf(p)>>
    BY <1>3
  <1>8. HasOnly(f, "env", EnvName, envOf(p))
    BY <1>1, <1>7 DEF HasOnly, HasAt, Kind
  <1>9. evaluateEnvBlock(f, EnvName) = f
    <2>1. ~opens(f, 1)
      BY <1>1, <1>7, Labels DEF opens
    <2> DEFINE e == evaluateEnvBlock(f, EnvName)
    <2>2. /\ e \in Files /\ e.type = f.type /\ e.label = f.label /\ e.attrs = f.attrs
          /\ DOMAIN e.blocks = {1} /\ e.blocks[1] = f.blocks[1]
      BY <1>6, <1>7, <2>1, Evaluated
    <2> HIDE DEF e
    <2>3. e.blocks = f.blocks
      <3>1. e.blocks \in Seq(Level2) /\ f.blocks \in Seq(Level2)
        BY <1>6, <2>2 DEF Files, Of, Shape
      <3> QED BY <1>7, <2>2, <3>1
    <2>4. e = f
      BY <1>6, <2>2, <2>3 DEF Files, Of, Shape
    <2> QED BY <2>4 DEF e
  <1> QED BY <1>6, <1>7, <1>8, <1>9 DEF f

-----------------------------------------------------------------------------
(* The env block that runs, before and after it is relabelled.             *)

LEMMA EvaluatedTwice ==
  ASSUME NEW c \in Files
  PROVE  LET e == evaluateEnvBlock(c, EnvName) IN evaluateEnvBlock(e, EnvName) = e
  <1> DEFINE e == evaluateEnvBlock(c, EnvName)
             ee == evaluateEnvBlock(e, EnvName)
  <1>1. /\ e \in Files /\ DOMAIN e.blocks = DOMAIN c.blocks
        /\ \A i \in DOMAIN c.blocks :
             e.blocks[i] = IF opens(c, i) THEN opened(c.blocks[i]) ELSE c.blocks[i]
    BY Evaluated
  <1> HIDE DEF e
  <1>2. /\ ee \in Files /\ ee.type = e.type /\ ee.label = e.label /\ ee.attrs = e.attrs
        /\ DOMAIN ee.blocks = DOMAIN e.blocks
        /\ \A i \in DOMAIN e.blocks :
             ee.blocks[i] = IF opens(e, i) THEN opened(e.blocks[i]) ELSE e.blocks[i]
    BY <1>1, Evaluated
  <1> HIDE DEF ee
  <1>3. ASSUME NEW i \in DOMAIN c.blocks PROVE ~opens(e, i)
    <2>1. c.blocks[i] \in Level2
      BY DEF Files, Of, Shape
    <2>2. CASE opens(c, i)
      <3>1. e.blocks[i] = opened(c.blocks[i]) /\ ~has(opened(c.blocks[i]), "name")
        BY <1>1, <2>1, <2>2, Opened
      <3> QED BY <3>1 DEF opens
    <2>3. CASE ~opens(c, i)
      <3>1. e.blocks[i] = c.blocks[i]
        BY <1>1, <2>3
      <3>2. ASSUME opens(e, i) PROVE FALSE
        <4>1. PICK j \in DOMAIN c.blocks : j <= i /\ c.blocks[j].type = "env" /\ c.blocks[j].label # NoLabel
          BY <1>1, <2>3, <3>1, <3>2 DEF opens
        <4>2. j <= j
          BY DEF Files, Of, Shape
        <4>3. ~opens(c, j)
          BY <4>1, <4>2 DEF opens
        <4>4. e.blocks[j] = c.blocks[j]
          BY <1>1, <4>3
        <4> QED BY <1>1, <3>2, <4>1, <4>4 DEF opens
      <3> QED BY <3>2
    <2> QED BY <2>2, <2>3
  <1>4. ee.blocks = e.blocks
    <2>1. ee.blocks \in Seq(Level2) /\ e.blocks \in Seq(Level2)
      BY <1>1, <1>2 DEF Files, Of, Shape
    <2>2. \A i \in DOMAIN e.blocks : ee.blocks[i] = e.blocks[i]
      BY <1>1, <1>2, <1>3
    <2> QED BY <1>2, <2>1, <2>2
  <1>5. ee = e
    BY <1>1, <1>2, <1>4 DEF Files, Of, Shape
  <1> QED BY <1>5 DEF e, ee

\* What the policy reads occurs once.
OneLint(y) == once(y, "lint") /\ \A e \in inside(y) : e.type = "lint" => once(e, "destructive")

SameEnv(x, y) == y.blocks = x.blocks /\ \A n : n # "name" => (has(y, n) <=> has(x, n))

\* y is the env that runs, and the search finds x for it in c.
Runnable(c, e, y) ==
  /\ y \in Level2 /\ y.type = "env" /\ y.label = EnvName /\ OneLint(y)
  /\ HasOnly(e, "env", EnvName, y)
  /\ found(c, "env", EnvName) /\ SameEnv(get(c, "env", EnvName), y)

NoneRunnable(c, e) == ~found(c, "env", EnvName) /\ Lacks(e, "env", EnvName) /\ ~found(e, "env", EnvName)

LEMMA EnvThatRuns ==
  ASSUME NEW c \in Files, HasOneEnv(c), IsOrderly(c)
  PROVE  LET e == evaluateEnvBlock(c, EnvName)
         IN  NoneRunnable(c, e) \/ \E y : Runnable(c, e, y) /\ Runnable(e, e, y)
  <1> DEFINE e == evaluateEnvBlock(c, EnvName)
             s == c.blocks
             at == searchBlock(c, "env", EnvName)
  <1>1. /\ e \in Files /\ DOMAIN e.blocks = DOMAIN s
        /\ \A i \in DOMAIN s : e.blocks[i] = IF opens(c, i) THEN opened(s[i]) ELSE s[i]
    BY Evaluated
  <1>2. s \in Seq(Level2) /\ DOMAIN s = 1..Len(s) /\ \A i \in DOMAIN s : s[i] \in Level2
    BY DEF Files, Of, Shape
  <1>3. /\ at = 0 => Lacks(c, "env", EnvName) /\ Lacks(c, "env", NoLabel)
        /\ at # 0 => at \in DOMAIN s /\ mayRun(s[at])
    BY Search DEF Files, mayRun
  <1> HIDE DEF e, at
  <1>4. CASE at = 0
    <2>1. \A i \in DOMAIN s : ~mayRun(s[i])
      BY <1>3, <1>4 DEF Lacks, Has, Kind, mayRun
    <2>2. \A i \in DOMAIN s : ~opens(c, i)
      <3>1. \A i \in DOMAIN s : i <= i
        BY <1>2
      <3> QED BY <2>1, <3>1 DEF opens, mayRun
    <2>3. \A i \in DOMAIN e.blocks : ~mayRun(e.blocks[i])
      BY <1>1, <2>1, <2>2
    <2>4. Lacks(e, "env", EnvName)
      BY <2>3 DEF Lacks, Has, Kind, mayRun
    <2>5. ~found(e, "env", EnvName)
      <3>1. searchBlock(e, "env", EnvName) # 0 =>
              searchBlock(e, "env", EnvName) \in DOMAIN e.blocks /\ mayRun(e.blocks[searchBlock(e, "env", EnvName)])
        BY <1>1, Search DEF Files, mayRun
      <3> QED BY <2>3, <3>1 DEF found
    <2> QED BY <1>4, <2>4, <2>5 DEF NoneRunnable, found, e, at
  <1>5. CASE at # 0
    <2> DEFINE x == s[at]
               y == e.blocks[at]
    <2>1. at \in DOMAIN s /\ mayRun(x) /\ x \in Level2
      BY <1>2, <1>3, <1>5
    <2>2. \A j \in DOMAIN s : mayRun(s[j]) => j = at
      BY <2>1 DEF HasOneEnv
    <2>3. \A j \in DOMAIN s : j # at => e.blocks[j] = s[j]
      <3>1. \A j \in DOMAIN s : j <= j
        BY <1>2
      <3>2. \A j \in DOMAIN s : opens(c, j) => mayRun(s[j])
        BY <3>1 DEF opens, mayRun
      <3> QED BY <1>1, <2>2, <3>2
    <2>4. OneLint(x)
      BY <2>1 DEF HasOneEnv, OneLint, inside
    <2>5. y \in Level2 /\ y.type = "env" /\ y.label = EnvName /\ SameEnv(x, y)
      <3>1. CASE x.label = EnvName
        <4>1. ~opens(c, at)
          BY <1>2, <2>1, <3>1, Labels DEF opens
        <4>2. y = x
          BY <1>1, <2>1, <4>1
        <4> QED BY <2>1, <3>1, <4>2 DEF mayRun, SameEnv
      <3>2. CASE x.label = NoLabel
        <4>1. x.type = "env" /\ has(x, "name") /\ x.attrs["name"] = "atlas.env"
          BY <2>1, <3>2 DEF IsOrderly, mayRun
        <4>2. \A j \in DOMAIN s : j <= at /\ s[j].type = "env" => s[j].label = NoLabel
          <5>1. \A j \in DOMAIN s : j <= at => j = at \/ j \in 1..at-1
            BY <1>2, <2>1
          <5>2. \A j \in 1..at-1 : s[j].type # "env" \/ s[j].label = NoLabel
            BY <2>1, <3>2, <4>1 DEF IsOrderly
          <5> QED BY <3>2, <5>1, <5>2
        <4>3. opens(c, at)
          BY <4>1, <4>2 DEF opens
        <4>4. y = opened(x)
          BY <1>1, <2>1, <4>3
        <4> QED BY <2>1, <4>1, <4>4, Opened DEF SameEnv
      <3> QED BY <2>1, <3>1, <3>2 DEF mayRun
    <2>6. HasOnly(e, "env", EnvName, y)
      <3>1. ASSUME NEW j \in DOMAIN e.blocks PROVE Kind(e.blocks[j], "env", EnvName) <=> j = at
        BY <1>1, <2>2, <2>3, <2>5 DEF Kind, mayRun
      <3> QED BY <1>1, <2>1, <3>1 DEF HasOnly, HasAt
    <2>7. found(e, "env", EnvName) /\ get(e, "env", EnvName) = y
      BY <1>1, <2>6, FoundOnly DEF Files
    <2>8. found(c, "env", EnvName) /\ get(c, "env", EnvName) = x
      BY <1>5 DEF found, get, at
    <2>9. OneLint(y)
      BY <2>4, <2>5 DEF SameEnv, OneLint, once, inside
    <2>10. SameEnv(y, y)
      BY DEF SameEnv
    <2>11. Runnable(c, e, y) /\ Runnable(e, e, y)
      BY <2>5, <2>6, <2>7, <2>8, <2>9, <2>10 DEF Runnable
    <2> QED BY <2>11 DEF e
  <1> QED BY <1>4, <1>5

-----------------------------------------------------------------------------
(* The lint policy of the env that runs.                                   *)

LEMMA OnceOnly ==
  ASSUME NEW In, NEW b \in Of(In), NEW type, NEW label, once(b, type), found(b, type, label), type # "env"
  PROVE  HasOnly(b, type, label, get(b, type, label)) /\ get(b, type, label) \in In
         /\ get(b, type, label) \in inside(b) /\ get(b, type, label).type = type
  <1> DEFINE i == searchBlock(b, type, label)
  <1>1. i \in DOMAIN b.blocks /\ Kind(b.blocks[i], type, label)
    BY Search DEF found, Kind
  <1>2. \A j \in DOMAIN b.blocks : Kind(b.blocks[j], type, label) => j = i
    BY <1>1 DEF once, Kind
  <1>3. b.blocks[i] \in In
    BY <1>1 DEF Of, Shape
  <1> QED BY <1>1, <1>2, <1>3 DEF HasOnly, HasAt, get, inside, Kind

hasError(l) == found(l, "destructive", NoLabel) /\ has(get(l, "destructive", NoLabel), "error")

ErrorIs(l, v)  == hasError(l) /\ get(l, "destructive", NoLabel).attrs["error"] = v
ReviewIs(l, v) == has(l, "review") /\ l.attrs["review"] = v

\* A lint block of the resource alone.
LEMMA OwnLint ==
  ASSUME NEW p \in PolicyType
  PROVE  /\ p.review # "unset" => ReviewIs(lintOf(p), p.review)
         /\ p.destructive # "unset" => ErrorIs(lintOf(p), p.destructive)
  <1>1. lintOf(p) \in Of(Level0)
    BY LintOf DEF Level1
  <1>2. p.destructive # "unset" =>
          found(lintOf(p), "destructive", NoLabel) /\ get(lintOf(p), "destructive", NoLabel) = destructiveOf(p)
    BY <1>1, LintOf, FoundOnly
  <1> QED BY <1>2, LintOf DEF ReviewIs, ErrorIs, hasError

\* The two merged: what the custom one says goes before what the resource says.
LEMMA MergedLint ==
  ASSUME NEW p \in PolicyType, NEW l \in Level1, once(l, "destructive")
  PROVE  LET m == mergeInLint(taking(lintOf(p), l), l)
         IN  /\ has(l, "review") \/ p.review # "unset" =>
                  ReviewIs(m, IF has(l, "review") THEN l.attrs["review"] ELSE p.review)
             /\ hasError(l) \/ p.destructive # "unset" =>
                  ErrorIs(m, IF hasError(l) THEN get(l, "destructive", NoLabel).attrs["error"] ELSE p.destructive)
  <1> DEFINE o == lintOf(p)
             t == taking(o, l)
             m == mergeInLint(t, l)
             z == get(l, "destructive", NoLabel)
             J == JoinInnermost(Level0)
             D(b, x) == HasOnly(b, "destructive", NoLabel, x)
             N(b) == Lacks(b, "destructive", NoLabel)
  <1>1. /\ o \in Level1
        /\ has(o, "review") <=> p.review # "unset"
        /\ p.review # "unset" => o.attrs["review"] = p.review
        /\ p.destructive = "unset" => N(o)
        /\ p.destructive # "unset" => D(o, destructiveOf(p))
        /\ destructiveOf(p) \in Level0
        /\ has(destructiveOf(p), "error") /\ destructiveOf(p).attrs["error"] = p.destructive
    BY LintOf
  <1> HIDE DEF o
  <1>2. /\ m \in Level1 /\ Merged(Level0, J, t, l, m) /\ t.blocks = o.blocks
        /\ t.attrs = overriding(l.attrs, o.attrs)
    BY <1>1, LintMerges
  <1>3. m.attrs = overriding(l.attrs, o.attrs)
    BY <1>2 DEF Merged
  <1> HIDE DEF t, m, J
  <1>4. has(l, "review") \/ p.review # "unset" =>
          ReviewIs(m, IF has(l, "review") THEN l.attrs["review"] ELSE p.review)
    BY <1>1, <1>3, Overriding DEF ReviewIs, has
  <1>5. (N(o) => N(t)) /\ \A x : D(o, x) => D(t, x)
    BY <1>2 DEF Lacks, Has, HasOnly, HasAt
  <1>6. ASSUME NEW x, D(m, x), NEW v, has(x, "error"), x.attrs["error"] = v PROVE ErrorIs(m, v)
    <2>1. found(m, "destructive", NoLabel) /\ get(m, "destructive", NoLabel) = x
      BY <1>2, <1>6, FoundOnly DEF Level1
    <2> QED BY <1>6, <2>1 DEF ErrorIs, hasError
  <1>7. Exact("destructive", NoLabel)
    BY DEF Exact
  <1>8. CASE ~found(l, "destructive", NoLabel)
    <2>1. N(l)
      BY <1>8, FoundIff DEF Lacks, Level1
    <2>2. ~hasError(l)
      BY <1>8 DEF hasError
    <2>3. p.destructive # "unset" => D(m, destructiveOf(p))
      BY <1>1, <1>2, <1>5, <1>7, <2>1 DEF Merged
    <2> QED BY <1>1, <1>4, <1>6, <2>2, <2>3 DEF m, t, o
  <1>9. CASE found(l, "destructive", NoLabel)
    <2>1. D(l, z) /\ z \in Level0
      BY <1>9, OnceOnly DEF Level1
    <2>2. hasError(l) <=> has(z, "error")
      BY <1>9 DEF hasError
    <2> HIDE DEF z
    <2>3. CASE p.destructive = "unset"
      <3>1. D(m, z)
        BY <1>1, <1>2, <1>5, <1>7, <2>1, <2>3 DEF Merged
      <3> QED BY <1>4, <1>6, <2>2, <2>3, <3>1 DEF m, t, o, z
    <2>4. CASE p.destructive # "unset"
      <3> DEFINE d == destructiveOf(p)
      <3>1. D(m, J[<<d, z>>])
        BY <1>1, <1>2, <1>5, <1>7, <2>1, <2>4 DEF Merged
      <3>2. d.type = z.type /\ d.label = z.label
        BY <1>1, <2>1, <2>4 DEF HasOnly, HasAt, Kind
      <3>3. J[<<d, z>>] = taking(d, z)
        BY <1>1, <2>1, <3>2 DEF J, JoinInnermost, Meet, mergeInnermost
      <3> HIDE DEF d
      <3>4. taking(d, z).attrs = overriding(z.attrs, d.attrs)
        <4>1. d \in Level0 /\ z.attrs \in Attrs
          BY <1>1, <2>1 DEF d, Level0, Shape
        <4> QED BY <4>1, TakingIs DEF Level0
      <3>5. /\ has(taking(d, z), "error")
            /\ taking(d, z).attrs["error"] = IF has(z, "error") THEN z.attrs["error"] ELSE p.destructive
        BY <1>1, <3>4, Overriding DEF has, d
      <3> QED BY <1>4, <1>6, <2>2, <3>1, <3>3, <3>5 DEF m, t, o, z
    <2> QED BY <2>3, <2>4
  <1> QED BY <1>8, <1>9

-----------------------------------------------------------------------------
(* The rendered file.                                                      *)

\* The env that runs, of the resource and of y.
mergedEnv(p, y) == mergeInEnv(taking(envOf(p), y), y)

\* A render: the env that runs is that of the resource, with the custom one
\* merged into it if there is one.
LEMMA RenderedEnv ==
  ASSUME NEW p \in PolicyType, DataType, NEW c \in Files
  PROVE  LET e == evaluateEnvBlock(c, EnvName)
             r == mergeBlocks(asBlocks(p), c, EnvName)
         IN  /\ r \in Files
             /\ Lacks(e, "env", EnvName) => get(r, "env", EnvName) = envOf(p)
             /\ \A y \in Level2 : HasOnly(e, "env", EnvName, y) => get(r, "env", EnvName) = mergedEnv(p, y)
  <1> DEFINE e == evaluateEnvBlock(c, EnvName)
             a == asBlocks(p)
             r == mergeBlocks(a, c, EnvName)
             J == JoinInEnv(Level2)
  <1>1. e \in Files
    BY Evaluated
  <1>2. a \in Files /\ evaluateEnvBlock(a, EnvName) = a /\ HasOnly(a, "env", EnvName, envOf(p))
    BY AsBlocks
  <1>3. r = mergeInFile(a, e)
    BY <1>2 DEF mergeBlocks
  <1> HIDE DEF a, r, e
  <1>4. Merged(Level2, J, a, e, r)
    BY <1>1, <1>2, <1>3, InFileMerges, Level2Joins DEF Files
  <1> HIDE DEF J
  <1>5. r \in Files /\ Exact("env", EnvName)
    BY <1>4, Labels DEF Merged, Exact, Files
  <1>6. \A x : HasOnly(r, "env", EnvName, x) => get(r, "env", EnvName) = x
    BY <1>5, FoundOnly DEF Files
  <1>7. Lacks(e, "env", EnvName) => get(r, "env", EnvName) = envOf(p)
    BY <1>2, <1>4, <1>5, <1>6 DEF Merged
  <1>8. ASSUME NEW y \in Level2, HasOnly(e, "env", EnvName, y)
        PROVE  get(r, "env", EnvName) = mergedEnv(p, y)
    <2>1. HasOnly(r, "env", EnvName, J[<<envOf(p), y>>])
      BY <1>2, <1>4, <1>5, <1>8 DEF Merged
    <2>2. envOf(p) \in Level2 /\ Meet(envOf(p), y)
      BY <1>8, EnvOf DEF Meet, HasOnly, HasAt, Kind
    <2>3. J[<<envOf(p), y>>] = mergedEnv(p, y)
      BY <2>2 DEF J, JoinInEnv, mergedEnv
    <2> QED BY <1>6, <2>1, <2>3
  <1> QED BY <1>5, <1>7, <1>8 DEF e, r, a

\* Its attributes, and the schema block of the resource.
LEMMA MergedEnv ==
  ASSUME NEW p \in PolicyType, DataType, NEW y \in Level2
  PROVE  LET m == mergedEnv(p, y)
         IN  /\ m \in Level2
             /\ \A n : has(m, n) <=> has(y, n) \/ has(envOf(p), n)
             /\ desired => found(m, "schema", NoLabel)
  <1> DEFINE m == mergedEnv(p, y)
             t == taking(envOf(p), y)
  <1>1. envOf(p) \in Level2 /\ (Has(envOf(p), "schema", NoLabel) <=> desired)
    BY EnvOf
  <1>2. /\ m \in Level2 /\ Merged(Level1, JoinInLint(Level1), t, y, m)
        /\ t.blocks = envOf(p).blocks /\ t.attrs = overriding(y.attrs, envOf(p).attrs)
    BY <1>1, EnvMerges DEF mergedEnv
  <1> HIDE DEF m, t
  <1>3. m.attrs = overriding(y.attrs, envOf(p).attrs)
    BY <1>2 DEF Merged
  <1>4. \A n : has(m, n) <=> has(y, n) \/ has(envOf(p), n)
    BY <1>3, Overriding DEF has
  <1>5. desired => Has(m, "schema", NoLabel)
    <2>1. desired => Has(t, "schema", NoLabel)
      BY <1>1, <1>2 DEF Has
    <2> QED BY <1>2, <2>1 DEF Merged
  <1>6. desired => found(m, "schema", NoLabel)
    BY <1>2, <1>5, FoundIff DEF Level2
  <1> QED BY <1>2, <1>4, <1>6 DEF m

\* Its lint policy: that of the custom env where it says something, else that
\* of the resource.
customLint(y) == found(y, "lint", NoLabel)
lintIn(y) == get(y, "lint", NoLabel)

customReview(y) == customLint(y) /\ has(lintIn(y), "review")
customError(y)  == customLint(y) /\ hasError(lintIn(y))

Reviewed(e, review, error) ==
  found(e, "lint", NoLabel) /\ ReviewIs(lintIn(e), review) /\ ErrorIs(lintIn(e), error)

LEMMA EnvIsReviewed ==
  ASSUME NEW p \in PolicyType, DataType, NEW y \in Level2, OneLint(y),
         customReview(y) \/ (p.lint /\ p.review # "unset"),
         customError(y) \/ (p.lint /\ p.destructive # "unset")
  PROVE  Reviewed(mergedEnv(p, y),
                  IF customReview(y) THEN lintIn(y).attrs["review"] ELSE p.review,
                  IF customError(y) THEN get(lintIn(y), "destructive", NoLabel).attrs["error"]
                  ELSE p.destructive)
  <1> DEFINE m == mergedEnv(p, y)
             t == taking(envOf(p), y)
             J == JoinInLint(Level1)
             L(b, x) == HasOnly(b, "lint", NoLabel, x)
             review == IF customReview(y) THEN lintIn(y).attrs["review"] ELSE p.review
             error == IF customError(y) THEN get(lintIn(y), "destructive", NoLabel).attrs["error"]
                      ELSE p.destructive
  <1>1. /\ envOf(p) \in Level2
        /\ p.lint => L(envOf(p), lintOf(p))
        /\ ~p.lint => Lacks(envOf(p), "lint", NoLabel)
    BY EnvOf
  <1>2. /\ m \in Level2 /\ Merged(Level1, J, t, y, m) /\ t.blocks = envOf(p).blocks
    BY <1>1, EnvMerges DEF mergedEnv
  <1> HIDE DEF m, t, J
  <1>3. /\ p.lint => L(t, lintOf(p))
        /\ ~p.lint => Lacks(t, "lint", NoLabel)
    BY <1>1, <1>2 DEF Lacks, Has, HasOnly, HasAt
  <1>4. ASSUME NEW x, L(m, x) PROVE found(m, "lint", NoLabel) /\ lintIn(m) = x
    BY <1>2, <1>4, FoundOnly DEF Level2, lintIn
  <1>5. Exact("lint", NoLabel)
    BY DEF Exact
  <1>6. CASE ~customLint(y)
    <2>1. p.lint /\ p.review # "unset" /\ p.destructive # "unset" /\ review = p.review /\ error = p.destructive
      BY <1>6 DEF customReview, customError
    <2>2. Lacks(y, "lint", NoLabel)
      BY <1>6, FoundIff DEF customLint, Lacks, Level2
    <2>3. L(m, lintOf(p))
      BY <1>2, <1>3, <1>5, <2>1, <2>2 DEF Merged
    <2>4. Reviewed(m, p.review, p.destructive)
      BY <1>4, <2>1, <2>3, OwnLint DEF Reviewed
    <2> HIDE DEF review, error
    <2>5. Reviewed(m, review, error)
      BY <2>1, <2>4
    <2> QED BY <2>5 DEF m, review, error
  <1>7. CASE customLint(y)
    <2> DEFINE l == lintIn(y)
    <2>1. L(y, l) /\ l \in Level1 /\ l \in inside(y) /\ l.type = "lint"
      BY <1>7, OnceOnly DEF customLint, lintIn, OneLint, Level2
    <2>2. once(l, "destructive")
      BY <2>1 DEF OneLint
    <2>3. (customReview(y) <=> has(l, "review")) /\ (customError(y) <=> hasError(l))
      BY <1>7 DEF customReview, customError
    <2> HIDE DEF l
    <2>4. CASE ~p.lint
      <3>1. L(m, l)
        BY <1>2, <1>3, <1>5, <2>1, <2>4 DEF Merged
      <3>2. has(l, "review") /\ hasError(l)
        BY <2>3, <2>4
      <3>3. Reviewed(m, l.attrs["review"], get(l, "destructive", NoLabel).attrs["error"])
        BY <1>4, <3>1, <3>2 DEF Reviewed, ReviewIs, ErrorIs
      <3> QED BY <2>3, <3>2, <3>3 DEF m, l
    <2>5. CASE p.lint
      <3> DEFINE q == mergeInLint(taking(lintOf(p), l), l)
      <3>1. L(m, J[<<lintOf(p), l>>])
        BY <1>2, <1>3, <1>5, <2>1, <2>5 DEF Merged
      <3>2. lintOf(p) \in Level1 /\ Meet(lintOf(p), l)
        BY <2>1, LintOf DEF Meet, HasOnly, HasAt, Kind
      <3>3. J[<<lintOf(p), l>>] = q
        BY <2>1, <3>2 DEF J, JoinInLint
      <3>4. /\ ReviewIs(q, IF has(l, "review") THEN l.attrs["review"] ELSE p.review)
            /\ ErrorIs(q, IF hasError(l) THEN get(l, "destructive", NoLabel).attrs["error"] ELSE p.destructive)
        BY <2>1, <2>2, <2>3, MergedLint
      <3> HIDE DEF q
      <3>5. Reviewed(m, IF has(l, "review") THEN l.attrs["review"] ELSE p.review,
                     IF hasError(l) THEN get(l, "destructive", NoLabel).attrs["error"] ELSE p.destructive)
        BY <1>4, <3>1, <3>3, <3>4 DEF Reviewed
      <3> QED BY <2>3, <3>5 DEF m, l
    <2> QED BY <2>4, <2>5
  <1> QED BY <1>6, <1>7

\* Of the resource alone.
LEMMA OwnEnvIsReviewed ==
  ASSUME NEW p \in PolicyType, DataType, p.lint, p.review # "unset", p.destructive # "unset"
  PROVE  Reviewed(envOf(p), p.review, p.destructive)
  <1>1. envOf(p) \in Of(Level1) /\ HasOnly(envOf(p), "lint", NoLabel, lintOf(p))
    BY EnvOf DEF Level2
  <1>2. found(envOf(p), "lint", NoLabel) /\ lintIn(envOf(p)) = lintOf(p)
    BY <1>1, FoundOnly DEF lintIn
  <1> QED BY <1>2, OwnLint DEF Reviewed

-----------------------------------------------------------------------------
(* What a scan must not find, at each level, and merging does not make.    *)

ungraded(b) == b.type = "cve" => ~has(b, "min_severity") /\ ~has(b, "ignore")
unlimited(b) == ~has(b, "min_severity") /\ ~has(b, "fail_on")

Cves0  == {b \in Level0 : ungraded(b)}
Cves1  == {b \in Level1 : ungraded(b)}
Scans1 == {b \in Level1 : b.type = "security" => ~gradesScan(b)}
Scans2 == {b \in Level2 : /\ b.type = "security" => ~gradesScan(b)
                          /\ Kind(b, "env", EnvName) => ~hidesFindings(b)}

LEMMA GradesNot ==
  ASSUME NEW In, NEW b \in Of(In)
  PROVE  ~gradesScan(b) <=> unlimited(b) /\ b \in Of({x \in In : ungraded(x)})
  <1> DEFINE Good == {x \in In : ungraded(x)}
  <1>1. b.blocks \in Seq(In) /\ \A i \in DOMAIN b.blocks : b.blocks[i] \in In
    BY DEF Of, Shape
  <1>2. ASSUME ~gradesScan(b) PROVE unlimited(b) /\ b \in Of(Good)
    <2>1. \A i \in DOMAIN b.blocks : b.blocks[i] \in Good
      BY <1>1, <1>2 DEF gradesScan, ungraded
    <2> HIDE DEF Good
    <2>2. b \in Of(Good)
      BY <2>1, OfPart
    <2> QED BY <1>2, <2>2 DEF gradesScan, unlimited
  <1>3. ASSUME unlimited(b), b \in Of(Good) PROVE ~gradesScan(b)
    <2>1. \A i \in DOMAIN b.blocks : ungraded(b.blocks[i])
      BY <1>3 DEF Of, Shape
    <2> QED BY <1>3, <2>1 DEF gradesScan, ungraded, unlimited
  <1> QED BY <1>2, <1>3

LEMMA HidesNot ==
  ASSUME NEW b \in Level2
  PROVE  ~hidesFindings(b) <=> ~has(b, "exclude") /\ b \in Of(Scans1)
  <1>1. b.blocks \in Seq(Level1) /\ \A i \in DOMAIN b.blocks : b.blocks[i] \in Level1
    BY DEF Level2, Of, Shape
  <1>2. ASSUME ~hidesFindings(b) PROVE ~has(b, "exclude") /\ b \in Of(Scans1)
    <2>1. \A i \in DOMAIN b.blocks : b.blocks[i] \in Scans1
      BY <1>1, <1>2 DEF hidesFindings, Scans1
    <2>2. b \in Of(Scans1)
      BY <2>1, OfPart DEF Level2
    <2> QED BY <1>2, <2>2 DEF hidesFindings
  <1>3. ASSUME ~has(b, "exclude"), b \in Of(Scans1) PROVE ~hidesFindings(b)
    <2>1. \A i \in DOMAIN b.blocks : b.blocks[i].type = "security" => ~gradesScan(b.blocks[i])
      BY <1>3 DEF Of, Shape, Scans1
    <2> QED BY <1>3, <2>1 DEF hidesFindings
  <1> QED BY <1>2, <1>3

LEMMA Cves0Joins == Joins(Cves0, JoinInnermost(Cves0))
  <1>1. ASSUME NEW x \in Cves0, NEW y \in Cves0, Meet(x, y) PROVE taking(x, y) \in Cves0
    <2>1. x \in Shape({<<>>}) /\ y.attrs \in Attrs
      BY DEF Cves0, Level0, Shape
    <2>2. taking(x, y) \in Level0 /\ taking(x, y).type = x.type /\ taking(x, y).attrs = overriding(y.attrs, x.attrs)
      BY <2>1, TakingIs DEF Level0
    <2>3. \A n : has(taking(x, y), n) <=> has(x, n) \/ has(y, n)
      BY <2>2, Overriding DEF has
    <2> QED BY <1>1, <2>2, <2>3 DEF Cves0, ungraded, Meet
  <1> QED BY <1>1, JoinsInnermost DEF Cves0

LEMMA Cves1Joins == Joins(Cves1, JoinInLint(Cves1))
  <1>1. ASSUME NEW x \in Cves1, NEW y \in Cves1, Meet(x, y) PROVE mergeInLint(taking(x, y), y) \in Cves1
    <2> DEFINE m == mergeInLint(taking(x, y), y)
    <2>1. m \in Level1 /\ m.type = x.type /\ m.attrs = overriding(y.attrs, x.attrs)
      BY LintMerges DEF Cves1, Merged
    <2> HIDE DEF m
    <2>2. \A n : has(m, n) <=> has(x, n) \/ has(y, n)
      BY <2>1, Overriding DEF has
    <2>3. m \in Cves1
      BY <1>1, <2>1, <2>2 DEF Cves1, ungraded, Meet
    <2> QED BY <2>3 DEF m
  <1> QED BY <1>1, JoinsInLint DEF Cves1

LEMMA Scans1Joins == Joins(Scans1, JoinInLint(Scans1))
  <1>1. ASSUME NEW x \in Scans1, NEW y \in Scans1, Meet(x, y) PROVE mergeInLint(taking(x, y), y) \in Scans1
    <2> DEFINE t == taking(x, y)
               m == mergeInLint(t, y)
    <2>1. /\ m \in Level1 /\ m.type = x.type /\ m.attrs = overriding(y.attrs, x.attrs)
          /\ t \in Level1 /\ t.blocks = x.blocks
      BY LintMerges DEF Scans1, Merged
    <2> HIDE DEF t, m
    <2>2. \A n : has(m, n) <=> has(x, n) \/ has(y, n)
      BY <2>1, Overriding DEF has
    <2>3. ASSUME m.type = "security" PROVE ~gradesScan(m)
      <3>1. unlimited(x) /\ unlimited(y) /\ x \in Of(Cves0) /\ y \in Of(Cves0)
        BY <1>1, <2>1, <2>3, GradesNot DEF Scans1, Cves0, Level1, Meet
      <3>2. t \in Of(Cves0)
        <4>1. \A i \in DOMAIN t.blocks : t.blocks[i] \in Cves0
          BY <2>1, <3>1 DEF Of, Shape
        <4> QED BY <2>1, <4>1, OfPart DEF Level1
      <3>3. m \in Of(Cves0)
        BY <3>1, <3>2, Cves0Joins, InLintMerges DEF Merged, m
      <3>4. unlimited(m)
        BY <2>2, <3>1 DEF unlimited
      <3> QED BY <2>1, <3>3, <3>4, GradesNot DEF Cves0, Level1
    <2>4. m \in Scans1
      BY <2>1, <2>3 DEF Scans1
    <2> QED BY <2>4 DEF m, t
  <1> QED BY <1>1, JoinsInLint DEF Scans1

LEMMA Scans2Joins == Joins(Scans2, JoinInEnv(Scans2))
  <1>1. ASSUME NEW x \in Scans2, NEW y \in Scans2, Meet(x, y) PROVE mergeInEnv(taking(x, y), y) \in Scans2
    <2> DEFINE t == taking(x, y)
               m == mergeInEnv(t, y)
    <2>1. /\ m \in Level2 /\ m.type = x.type /\ m.label = x.label /\ m.attrs = overriding(y.attrs, x.attrs)
          /\ t \in Level2 /\ t.blocks = x.blocks
      BY EnvMerges DEF Scans2, Merged
    <2> HIDE DEF t, m
    <2>2. \A n : has(m, n) <=> has(x, n) \/ has(y, n)
      BY <2>1, Overriding DEF has
    <2>3. ASSUME m.type = "security" PROVE ~gradesScan(m)
      <3>1. unlimited(x) /\ unlimited(y) /\ x \in Of(Cves1) /\ y \in Of(Cves1)
        BY <1>1, <2>1, <2>3, GradesNot DEF Scans2, Cves1, Level2, Meet
      <3>2. t \in Of(Cves1)
        <4>1. \A i \in DOMAIN t.blocks : t.blocks[i] \in Cves1
          BY <2>1, <3>1 DEF Of, Shape
        <4> QED BY <2>1, <4>1, OfPart DEF Level2
      <3>3. m \in Of(Cves1)
        BY <3>1, <3>2, Cves1Joins, InEnvMerges DEF Merged, m
      <3>4. unlimited(m)
        BY <2>2, <3>1 DEF unlimited
      <3> QED BY <2>1, <3>3, <3>4, GradesNot DEF Cves1, Level2
    <2>4. ASSUME Kind(m, "env", EnvName) PROVE ~hidesFindings(m)
      <3>1. Kind(x, "env", EnvName) /\ Kind(y, "env", EnvName)
        BY <1>1, <2>1, <2>4, Labels DEF Kind, Meet
      <3>2. ~has(x, "exclude") /\ ~has(y, "exclude") /\ x \in Of(Scans1) /\ y \in Of(Scans1)
        BY <3>1, HidesNot DEF Scans2
      <3>3. t \in Of(Scans1)
        <4>1. \A i \in DOMAIN t.blocks : t.blocks[i] \in Scans1
          BY <2>1, <3>2 DEF Of, Shape
        <4> QED BY <2>1, <4>1, OfPart DEF Level2
      <3>4. m \in Of(Scans1)
        BY <3>2, <3>3, Scans1Joins, InEnvMerges DEF Merged, m
      <3> QED BY <2>1, <2>2, <3>2, <3>4, HidesNot
    <2>5. m \in Scans2
      BY <2>1, <2>3, <2>4 DEF Scans2
    <2> QED BY <2>5 DEF m, t
  <1> QED BY <1>1, JoinsInEnv DEF Scans2

\* A scan's file, whatever env blocks its configuration has: the one that runs
\* hides no findings, and no security block grades them.
LEMMA ScanRendered ==
  ASSUME NEW p \in PolicyType, DataType, NEW c \in Files,
         \A i \in DOMAIN c.blocks : ~checkPolicy(c.blocks[i])
  PROVE  LET r == mergeBlocks(asBlocks(p), c, EnvName)
         IN  /\ ~hidesFindings(get(r, "env", EnvName))
             /\ \A i \in DOMAIN r.blocks : r.blocks[i].type = "security" => ~gradesScan(r.blocks[i])
  <1> DEFINE e == evaluateEnvBlock(c, EnvName)
             a == asBlocks(p)
             r == mergeBlocks(a, c, EnvName)
             i == searchBlock(r, "env", EnvName)
  <1>1. e \in Of(Scans2)
    <2>1. /\ e \in Files /\ DOMAIN e.blocks = DOMAIN c.blocks
          /\ \A k \in DOMAIN c.blocks :
               e.blocks[k] = IF opens(c, k) THEN opened(c.blocks[k]) ELSE c.blocks[k]
      BY Evaluated
    <2> HIDE DEF e
    <2>2. ASSUME NEW k \in DOMAIN e.blocks PROVE e.blocks[k] \in Scans2
      <3> DEFINE b == c.blocks[k]
      <3>1. k \in DOMAIN c.blocks /\ b \in Level2 /\ ~checkPolicy(b)
        BY <2>1 DEF Files, Of, Shape
      <3>2. b.type = "security" => ~gradesScan(b)
        BY <3>1 DEF checkPolicy
      <3>3. b.type = "env" /\ b.label \in {NoLabel, EnvName} => ~hidesFindings(b)
        BY <3>1 DEF checkPolicy
      <3>4. CASE ~opens(c, k)
        BY <2>1, <3>1, <3>2, <3>3, <3>4 DEF Scans2, Kind
      <3>5. CASE opens(c, k)
        <4>1. k <= k
          BY <3>1 DEF Files, Of, Shape
        <4>2. b.type = "env" /\ b.label = NoLabel
          BY <3>1, <3>5, <4>1 DEF opens
        <4>3. ~has(b, "exclude") /\ b \in Of(Scans1)
          BY <3>1, <3>3, <4>2, HidesNot
        <4>4. /\ e.blocks[k] = opened(b) /\ opened(b) \in Level2 /\ opened(b).type = "env"
              /\ opened(b).blocks = b.blocks /\ ~has(opened(b), "exclude")
          BY <2>1, <3>1, <3>5, <4>2, <4>3, Opened
        <4>5. opened(b) \in Of(Scans1)
          <5>1. \A m \in DOMAIN opened(b).blocks : opened(b).blocks[m] \in Scans1
            BY <4>3, <4>4 DEF Of, Shape
          <5> QED BY <4>4, <5>1, OfPart DEF Level2
        <4>6. ~hidesFindings(opened(b))
          BY <4>4, <4>5, HidesNot
        <4> QED BY <4>4, <4>6 DEF Scans2
      <3> QED BY <3>4, <3>5
    <2> QED BY <2>1, <2>2, OfPart DEF Files
  <1>2. /\ a \in Files /\ evaluateEnvBlock(a, EnvName) = a
        /\ DOMAIN a.blocks = {1} /\ a.blocks[1] = envOf(p)
        /\ HasOnly(a, "env", EnvName, envOf(p))
    BY AsBlocks
  <1>3. r = mergeInFile(a, e)
    BY <1>2 DEF mergeBlocks
  <1> HIDE DEF a, r, e, i
  <1>4. a \in Of(Scans2)
    <2>1. /\ envOf(p) \in Level2 /\ envOf(p).type = "env"
          /\ ~has(envOf(p), "exclude")
          /\ \A k \in DOMAIN envOf(p).blocks : envOf(p).blocks[k].type # "security"
      BY EnvOf
    <2>2. envOf(p) \in Scans2
      BY <2>1 DEF Scans2, hidesFindings
    <2> QED BY <1>2, <2>2, OfPart DEF Files
  <1>5. Merged(Scans2, JoinInEnv(Scans2), a, e, r)
    BY <1>1, <1>3, <1>4, InFileMerges, Scans2Joins
  <1>6. r \in Of(Scans2) /\ \A k \in DOMAIN r.blocks : r.blocks[k] \in Scans2
    BY <1>5 DEF Merged, Of, Shape
  <1>7. Has(r, "env", EnvName)
    <2>1. Has(a, "env", EnvName)
      BY <1>2 DEF HasOnly, HasAt, Has
    <2> QED BY <1>5, <2>1 DEF Merged
  <1>8. i \in DOMAIN r.blocks /\ Kind(r.blocks[i], "env", EnvName)
    BY <1>6, <1>7, Search DEF Lacks, Kind, i
  <1>9. ~hidesFindings(get(r, "env", EnvName))
    BY <1>6, <1>8 DEF Scans2, get, i
  <1>10. \A k \in DOMAIN r.blocks : r.blocks[k].type = "security" => ~gradesScan(r.blocks[k])
    BY <1>6 DEF Scans2
  <1> QED BY <1>9, <1>10 DEF r, a

-----------------------------------------------------------------------------
(* The controllers.                                                        *)

\* What the search finds in a custom configuration.
hasIn(c, name) == found(c, "env", EnvName) /\ has(get(c, "env", EnvName), name)

\* The invariant.  The configuration is what was given until it is rendered,
\* and relabelled from then on; the file is one of the current policy.
Renders == {"rendered", "failed", "inspected", "edited"}

MergeInv ==
  /\ given \in (IF use = "schema" THEN SchemaConfigs ELSE ScanConfigs)
  /\ policy \in PolicyType /\ DataType
  /\ stage \in {"new", "refused", "extracted"} \cup Renders
  /\ stage = "new" => devURL = "none"
  /\ stage \notin Renders => config = given
  /\ stage \in Renders => /\ config = evaluateEnvBlock(given, EnvName)
                          /\ file = mergeBlocks(asBlocks(policy), given, EnvName)
  /\ use = "scan" /\ stage \in {"extracted", "rendered"} =>
       \A i \in DOMAIN given.blocks : ~checkPolicy(given.blocks[i])
  /\ use = "schema" /\ stage \in {"extracted"} \cup Renders =>
       ~hasIn(given, "for_each") /\ (devURL = "none" <=> hasIn(given, "dev"))
  /\ stage = "failed" => ~complete(file)
  /\ stage \in {"inspected", "edited"} => use = "schema" /\ target = targetURL
  /\ stage = "edited" => hasLintReview(policy) /\ hasLintDestructive(policy)

LEMMA MergeInit == Init => MergeInv
  <1> SUFFICES ASSUME Init PROVE MergeInv
    OBVIOUS
  <1>1. policy \in PolicyType
    BY DEF Init, Policies, PolicyType
  <1>2. DataType
    BY DEF Init, DataType
  <1> QED BY <1>1, <1>2 DEF Init, MergeInv, Renders

LEMMA ConfigsAreFiles == ASSUME ConstantsOK, MergeInv PROVE given \in Files
  BY ConfigIs DEF ConstantsOK, MergeInv

\* editAtlasHCL leaves nothing of the policy unset.
LEMMA PolicyIsSet ==
  ASSUME NEW p \in PolicyType
  PROVE  LET q == setLintReview(enableDestructive(p))
         IN  q \in PolicyType /\ hasLintReview(q) /\ hasLintDestructive(q)
  <1> DEFINE d == enableDestructive(p)
             q == setLintReview(d)
  <1>1. d \in PolicyType /\ hasLintDestructive(d)
    <2>1. CASE hasLint(p) /\ hasLintDestructive(p)
      BY <2>1 DEF enableDestructive
    <2>2. CASE ~(hasLint(p) /\ hasLintDestructive(p))
      <3>1. d = [p EXCEPT !.lint = TRUE, !.destructive = "true"]
        BY <2>2 DEF enableDestructive
      <3>2. d \in PolicyType /\ d.lint = TRUE /\ d.destructive = "true"
        BY <3>1 DEF PolicyType
      <3> QED BY <3>2 DEF hasLintDestructive
    <2> QED BY <2>1, <2>2
  <1> HIDE DEF d
  <1>2. CASE hasLint(d) /\ hasLintReview(d)
    BY <1>1, <1>2 DEF setLintReview, d
  <1>3. CASE ~(hasLint(d) /\ hasLintReview(d))
    <2>1. q = [d EXCEPT !.lint = TRUE, !.review = "ERROR"]
      BY <1>3 DEF setLintReview
    <2> HIDE DEF q
    <2>2. q \in PolicyType /\ q.lint = TRUE /\ q.review = "ERROR" /\ q.destructive = d.destructive
      BY <1>1, <2>1 DEF PolicyType
    <2>3. hasLintReview(q) /\ hasLintDestructive(q)
      BY <1>1, <2>2 DEF hasLintReview, hasLintDestructive
    <2> QED BY <2>2, <2>3 DEF q, d
  <1> QED BY <1>2, <1>3

LEMMA MergeStep == ConstantsOK /\ MergeInv /\ [Next]_vars => MergeInv'
  <1> SUFFICES ASSUME ConstantsOK, MergeInv, [Next]_vars PROVE MergeInv'
    OBVIOUS
  <1>1. CASE ExtractSchema
    <2>1. config = given /\ devURL = "none" /\ stage = "new"
      BY <1>1 DEF ExtractSchema, MergeInv, Renders
    <2>2. hasTargets <=> hasIn(given, "for_each")
      BY <2>1 DEF hasTargets, hasEnv, env, hasIn
    <2>3. hasDevURL <=> hasIn(given, "dev")
      BY <2>1 DEF hasDevURL, hasEnv, env, hasIn
    <2>4. CASE hasTargets
      BY <1>1, <2>1, <2>4 DEF ExtractSchema, MergeInv, DataType, Renders
    <2>5. CASE ~hasTargets
      BY <1>1, <2>1, <2>2, <2>3, <2>5 DEF ExtractSchema, MergeInv, DataType, Renders
    <2> QED BY <2>4, <2>5
  <1>2. CASE ExtractScan
    <2>1. config = given
      BY <1>2 DEF ExtractScan, MergeInv, Renders
    <2> QED BY <1>2, <2>1 DEF ExtractScan, MergeInv, DataType, Renders
  <1>3. CASE Render
    <2>1. config = given /\ stage = "extracted"
      BY <1>3 DEF Render, MergeInv, Renders
    <2>2. file' = mergeBlocks(asBlocks(policy), given, EnvName) /\ config' = evaluateEnvBlock(given, EnvName)
      BY <1>3, <2>1 DEF Render, rendered
    <2>3. asBlocks(policy') = asBlocks(policy) /\ asBlocks(policy)' = asBlocks(policy)
      BY <1>3 DEF Render, asBlocks
    <2>4. file' = mergeBlocks(asBlocks(policy)', given', EnvName)
      BY <1>3, <2>2, <2>3 DEF Render
    <2>5. stage' \in {"rendered", "failed"} /\ (stage' = "failed" => ~complete(file'))
      BY <1>3 DEF Render
    <2>6. complete(file') <=> complete(file)'
      BY <1>3 DEF Render, complete
    <2> QED BY <1>3, <2>1, <2>2, <2>4, <2>5, <2>6 DEF Render, MergeInv, DataType, Renders
  <1>4. CASE Inspect
    <2>1. asBlocks(policy)' = asBlocks(policy)
      BY <1>4 DEF Inspect, asBlocks
    <2>2. target' = targetURL'
      BY <1>4 DEF Inspect, targetURL, hasEnv, env
    <2> QED BY <1>4, <2>1, <2>2 DEF Inspect, MergeInv, DataType, Renders
  <1>5. CASE EditAtlasHCL
    <2> DEFINE e == evaluateEnvBlock(given, EnvName)
    <2>1. config = e /\ stage = "inspected"
      BY <1>5 DEF EditAtlasHCL, MergeInv, Renders
    <2>2. evaluateEnvBlock(e, EnvName) = e
      BY ConfigsAreFiles, EvaluatedTwice
    <2>3. config' = config
      BY <1>5, <2>1, <2>2 DEF EditAtlasHCL
    <2>4. policy' \in PolicyType /\ hasLintReview(policy') /\ hasLintDestructive(policy')
      BY <1>5, PolicyIsSet DEF EditAtlasHCL, MergeInv
    <2>5. (hasLintReview(policy))' /\ (hasLintDestructive(policy))'
      BY <2>3, <2>4 DEF hasLintReview, hasLintDestructive, envLint, lint, hasEnv, env
    <2>6. asBlocks(policy') = asBlocks(policy)'
      BY <1>5 DEF EditAtlasHCL, asBlocks
    <2>7. file' = mergeBlocks(asBlocks(policy'), e, EnvName)
      BY <1>5, <2>1 DEF EditAtlasHCL, rendered
    <2>8. file' = mergeBlocks(asBlocks(policy)', given', EnvName)
      BY <1>5, <2>2, <2>6, <2>7 DEF EditAtlasHCL, mergeBlocks
    <2>9. target' = targetURL'
      BY <1>5, <2>1, <2>3 DEF EditAtlasHCL, MergeInv, targetURL, hasEnv, env
    <2> QED BY <1>5, <2>1, <2>3, <2>4, <2>5, <2>8, <2>9 DEF EditAtlasHCL, MergeInv, DataType, Renders
  <1>6. CASE UNCHANGED vars
    <2>1. asBlocks(policy)' = asBlocks(policy)
      BY <1>6 DEF vars, asBlocks
    <2>2. targetURL' = targetURL /\ complete(file)' = complete(file)
      BY <1>6 DEF vars, targetURL, hasEnv, env, complete
    <2>3. hasLintReview(policy)' = hasLintReview(policy) /\ hasLintDestructive(policy)' = hasLintDestructive(policy)
      BY <1>6 DEF vars, hasLintReview, hasLintDestructive, envLint, lint, hasEnv, env
    <2> QED BY <1>6, <2>1, <2>2, <2>3 DEF vars, MergeInv, DataType, Renders
  <1> QED BY <1>1, <1>2, <1>3, <1>4, <1>5, <1>6 DEF Next

\* The env that runs, in the file and in the configuration, of a configuration
\* that is well ordered.
LEMMA TheRunIs ==
  ASSUME ConstantsOK, MergeInv, use = "schema", WellOrdered, stage \in Renders
  PROVE  \/ runs = envOf(policy) /\ NoneRunnable(given, config)
         \/ \E y \in Level2 : /\ runs = mergedEnv(policy, y) /\ OneLint(y)
                              /\ found(given, "env", EnvName) /\ SameEnv(get(given, "env", EnvName), y)
                              /\ found(config, "env", EnvName) /\ get(config, "env", EnvName) = y
  <1>1. given \in Files /\ HasOneEnv(given) /\ IsOrderly(given)
    BY ConfigsAreFiles DEF WellOrdered
  <1>2. /\ policy \in PolicyType /\ DataType
        /\ config = evaluateEnvBlock(given, EnvName)
        /\ file = mergeBlocks(asBlocks(policy), given, EnvName)
    BY DEF MergeInv
  <1>3. config \in Files
    BY <1>1, <1>2, Evaluated
  <1>4. /\ Lacks(config, "env", EnvName) => runs = envOf(policy)
        /\ \A y \in Level2 : HasOnly(config, "env", EnvName, y) => runs = mergedEnv(policy, y)
    BY <1>1, <1>2, RenderedEnv DEF runs
  <1>5. NoneRunnable(given, config) \/ \E y : Runnable(given, config, y) /\ Runnable(config, config, y)
    BY <1>1, <1>2, EnvThatRuns
  <1>6. CASE NoneRunnable(given, config)
    BY <1>4, <1>6 DEF NoneRunnable
  <1>7. ASSUME NEW y, Runnable(given, config, y)
        PROVE  /\ y \in Level2 /\ runs = mergedEnv(policy, y) /\ OneLint(y)
               /\ found(given, "env", EnvName) /\ SameEnv(get(given, "env", EnvName), y)
               /\ found(config, "env", EnvName) /\ get(config, "env", EnvName) = y
    <2>1. found(config, "env", EnvName) /\ get(config, "env", EnvName) = y
      BY <1>3, <1>7, FoundOnly DEF Files, Runnable
    <2> QED BY <1>4, <1>7, <2>1 DEF Runnable
  <1> QED BY <1>5, <1>6, <1>7

LEMMA PolicyFollows == ConstantsOK /\ MergeInv => PolicyIsTheResources
  <1> SUFFICES ASSUME ConstantsOK, MergeInv, use = "scan", stage = "rendered"
               PROVE  /\ ~hidesFindings(runs)
                      /\ \A i \in DOMAIN file.blocks :
                           file.blocks[i].type = "security" => ~gradesScan(file.blocks[i])
    BY DEF PolicyIsTheResources
  <1>1. /\ policy \in PolicyType /\ DataType
        /\ file = mergeBlocks(asBlocks(policy), given, EnvName)
        /\ \A i \in DOMAIN given.blocks : ~checkPolicy(given.blocks[i])
    BY DEF MergeInv, Renders
  <1> QED BY <1>1, ConfigsAreFiles, ScanRendered DEF runs

LEMMA HelpersFollow == ConstantsOK /\ MergeInv => HelpersSeeTheFile
  <1> SUFFICES ASSUME ConstantsOK, MergeInv, use = "schema", WellOrdered, stage \in Renders
               PROVE  /\ stage = "failed" => ~desired /\ ~has(runs, "src")
                      /\ ~has(runs, "for_each") /\ has(runs, "dev")
                      /\ stage \in {"inspected", "edited"} => (target = "env://src" <=> has(runs, "src"))
    BY DEF HelpersSeeTheFile, Renders
  <1>1. /\ policy \in PolicyType /\ DataType
        /\ ~hasIn(given, "for_each") /\ (devURL = "none" <=> hasIn(given, "dev"))
        /\ stage = "failed" => ~complete(file)
        /\ stage \in {"inspected", "edited"} => target = targetURL
    BY DEF MergeInv
  <1>2. /\ envOf(policy) \in Level2
        /\ \A n : has(envOf(policy), n) <=> n = "url" \/ (n = "dev" /\ devURL # "none")
        /\ Has(envOf(policy), "schema", NoLabel) <=> desired
    BY <1>1, EnvOf
  <1>3. targetURL = IF hasIn(config, "src") THEN "env://src" ELSE "env://schema.src"
    BY DEF targetURL, hasEnv, env, hasIn
  \* What there is to show of the env that runs.
  <1>4. ASSUME /\ ~has(runs, "for_each") /\ has(runs, "dev")
               /\ has(runs, "src") <=> hasIn(config, "src")
               /\ desired => found(runs, "schema", NoLabel)
        PROVE  /\ stage = "failed" => ~desired /\ ~has(runs, "src")
               /\ ~has(runs, "for_each") /\ has(runs, "dev")
               /\ stage \in {"inspected", "edited"} => (target = "env://src" <=> has(runs, "src"))
    BY <1>1, <1>3, <1>4 DEF complete, runs
  <1>5. CASE runs = envOf(policy) /\ NoneRunnable(given, config)
    <2>1. devURL # "none" /\ ~hasIn(config, "src")
      BY <1>1, <1>5 DEF NoneRunnable, hasIn
    <2>2. desired => found(runs, "schema", NoLabel)
      BY <1>2, <1>5, FoundIff DEF Level2
    <2> QED BY <1>2, <1>4, <1>5, <2>1, <2>2
  <1>6. ASSUME NEW y \in Level2, runs = mergedEnv(policy, y),
               found(given, "env", EnvName), SameEnv(get(given, "env", EnvName), y),
               found(config, "env", EnvName), get(config, "env", EnvName) = y
        PROVE  /\ ~has(runs, "for_each") /\ has(runs, "dev")
               /\ has(runs, "src") <=> hasIn(config, "src")
               /\ desired => found(runs, "schema", NoLabel)
    <2>1. /\ \A n : has(runs, n) <=> has(y, n) \/ has(envOf(policy), n)
          /\ desired => found(runs, "schema", NoLabel)
      BY <1>1, <1>6, MergedEnv
    <2>2. (hasIn(given, "for_each") <=> has(y, "for_each")) /\ (hasIn(given, "dev") <=> has(y, "dev"))
          /\ (hasIn(config, "src") <=> has(y, "src"))
      BY <1>6 DEF hasIn, SameEnv
    <2> QED BY <1>1, <1>2, <2>1, <2>2
  <1> QED BY <1>4, <1>5, <1>6, TheRunIs

LEMMA ReviewFollows == ConstantsOK /\ MergeInv => ConnectedIsReviewed
  <1> DEFINE custom(l) == found(l, "destructive", NoLabel) /\ has(get(l, "destructive", NoLabel), "error")
             review == IF envLint /\ has(lint, "review") THEN lint.attrs["review"] ELSE policy.review
             error == IF envLint /\ hasError(lint)
                      THEN get(lint, "destructive", NoLabel).attrs["error"] ELSE policy.destructive
  <1> SUFFICES ASSUME ConstantsOK, MergeInv, stage = "edited", WellOrdered
               PROVE  Reviewed(runs, review, error)
    BY DEF ConnectedIsReviewed, Reviewed, ReviewIs, ErrorIs, hasError, lintIn
  <1>1. /\ policy \in PolicyType /\ DataType /\ use = "schema"
        /\ hasLintReview(policy) /\ hasLintDestructive(policy) /\ stage \in Renders
    BY DEF MergeInv, Renders
  <1>2. CASE runs = envOf(policy) /\ NoneRunnable(given, config)
    <2>1. ~envLint
      BY <1>2 DEF envLint, hasEnv, NoneRunnable
    <2>2. policy.lint /\ policy.review # "unset" /\ policy.destructive # "unset"
      BY <1>1, <2>1 DEF hasLintReview, hasLintDestructive
    <2>3. review = policy.review /\ error = policy.destructive
      BY <2>1
    <2> HIDE DEF review, error
    <2> QED BY <1>1, <1>2, <2>2, <2>3, OwnEnvIsReviewed
  <1>3. ASSUME NEW y \in Level2, runs = mergedEnv(policy, y), OneLint(y),
               found(config, "env", EnvName), get(config, "env", EnvName) = y
        PROVE  Reviewed(runs, review, error)
    <2>1. (envLint <=> customLint(y)) /\ lint = lintIn(y)
      BY <1>3 DEF envLint, hasEnv, env, lint, customLint, lintIn
    <2>2. /\ envLint /\ has(lint, "review") <=> customReview(y)
          /\ envLint /\ hasError(lint) <=> customError(y)
      BY <2>1 DEF customReview, customError
    <2>3. /\ customReview(y) \/ (policy.lint /\ policy.review # "unset")
          /\ customError(y) \/ (policy.lint /\ policy.destructive # "unset")
      BY <1>1, <2>2 DEF hasLintReview, hasLintDestructive, hasError
    <2> DEFINE r == IF customReview(y) THEN lintIn(y).attrs["review"] ELSE policy.review
               x == IF customError(y) THEN get(lintIn(y), "destructive", NoLabel).attrs["error"]
                    ELSE policy.destructive
    <2>4. Reviewed(mergedEnv(policy, y), r, x)
      BY <1>1, <1>3, <2>3, EnvIsReviewed
    <2>5. review = r /\ error = x
      BY <2>1, <2>2
    <2> HIDE DEF review, error, r, x
    <2> QED BY <1>3, <2>4, <2>5
  <1> QED BY <1>1, <1>2, <1>3, TheRunIs

\* A scan reports what the resource says, whatever configuration checkPolicy
\* lets pass and however its blocks are merged.
THEOREM ScanPolicy == ASSUME ConstantsOK PROVE Spec => []PolicyIsTheResources
  <1>1. MergeInv /\ [Next]_vars => MergeInv'
    BY MergeStep
  <1>2. MergeInv => PolicyIsTheResources
    BY PolicyFollows
  <1> QED BY <1>1, <1>2, MergeInit, PTL DEF Spec

\* The helpers hasDevURL, hasTargets and targetURL are right about the file that
\* is rendered, for every configuration that is well ordered.
THEOREM HelpersSee == ASSUME ConstantsOK PROVE Spec => []HelpersSeeTheFile
  <1>1. MergeInv /\ [Next]_vars => MergeInv'
    BY MergeStep
  <1>2. MergeInv => HelpersSeeTheFile
    BY HelpersFollow
  <1> QED BY <1>1, <1>2, MergeInit, PTL DEF Spec

\* A connected resource runs with a review policy and a value for
\* destructive.error, those of editAtlasHCL where nothing else is given.
THEOREM Connected == ASSUME ConstantsOK PROVE Spec => []ConnectedIsReviewed
  <1>1. MergeInv /\ [Next]_vars => MergeInv'
    BY MergeStep
  <1>2. MergeInv => ConnectedIsReviewed
    BY ReviewFollows
  <1> QED BY <1>1, <1>2, MergeInit, PTL DEF Spec
=============================================================================
