------------------------- MODULE SegmentationProofs --------------------------
(***************************************************************************)
(* Proofs about Segmentation, for every kind of part and every set of      *)
(* sentences, of any length.  What the two loops of split_into_facts do is *)
(* shown by induction over the parts and over the sentences.               *)
(***************************************************************************)
EXTENDS Segmentation, Recursion, FiniteSetTheorems, SequenceTheorems

-----------------------------------------------------------------------------
(* Flattening.                                                             *)

\* facts.extend(...), once for each sequence.
Extended(A, seqs, r) ==
  /\ r \in [Nat -> Seq(A)]
  /\ r[0] = <<>>
  /\ \A m \in 0..(Len(seqs) - 1) : r[m + 1] = r[m] \o seqs[m + 1]

\* FlattenSeq extends an empty sequence by each of the sequences in turn.
LEMMA FlattenExtends ==
  ASSUME NEW A, NEW seqs \in Seq(Seq(A))
  PROVE  \E r : Extended(A, seqs, r) /\ FlattenSeq(seqs) = r[Len(seqs)]
<1> DEFINE L == Len(seqs)
           G == [p \in Nat \X Seq(A) |-> IF p[1] + 1 <= L THEN p[2] \o seqs[p[1] + 1] ELSE p[2]]
           Flat(w) == w = [i \in 1..L |-> IF i = 1 THEN seqs[i] ELSE w[i - 1] \o seqs[i]]
<1>1. L \in Nat /\ \A i \in 1..L : seqs[i] \in Seq(A)
  OBVIOUS
<1>2. G \in [Nat \X Seq(A) -> Seq(A)] /\ <<>> \in Seq(A)
  <2>1. \A n \in Nat, v \in Seq(A) : n + 1 <= L => v \o seqs[n + 1] \in Seq(A)
    BY <1>1
  <2> QED BY <2>1
<1>3. PICK r : Recursive(Seq(A), <<>>, G, r)
  <2> HIDE DEF G
  <2> QED BY <1>2, RecursiveFunction
<1>4. Extended(A, seqs, r)
  <2>1. r \in [Nat -> Seq(A)] /\ r[0] = <<>> /\ \A m \in Nat : r[m + 1] = G[<<m, r[m]>>]
    BY <1>3 DEF Recursive
  <2>2. ASSUME NEW m \in 0..(L - 1) PROVE r[m + 1] = r[m] \o seqs[m + 1]
    <3>1. m \in Nat /\ m + 1 <= L /\ r[m] \in Seq(A)
      BY <1>1, <2>1
    <3>2. G[<<m, r[m]>>] = r[m] \o seqs[m + 1]
      BY <3>1
    <3> QED BY <2>1, <3>1, <3>2
  <2> QED BY <2>1, <2>2 DEF Extended
<1>5. CASE L = 0
  <2>1. FlattenSeq(seqs) = <<>>
    BY <1>5 DEF FlattenSeq
  <2> QED BY <1>4, <1>5, <2>1 DEF Extended
<1>6. CASE L # 0
  <2> DEFINE v == [i \in 1..L |-> r[i]]
             w == CHOOSE w : Flat(w)
  <2>1. Flat(v)
    <3> SUFFICES ASSUME NEW i \in 1..L
                 PROVE  r[i] = IF i = 1 THEN seqs[i] ELSE v[i - 1] \o seqs[i]
      OBVIOUS
    <3>1. i - 1 \in 0..(L - 1) /\ (i - 1) + 1 = i
      BY <1>1
    <3>2. r[i] = r[i - 1] \o seqs[i]
      BY <1>4, <3>1 DEF Extended
    <3>3. CASE i = 1
      <4>1. seqs[1] \in Seq(A) /\ r[0] = <<>>
        BY <1>1, <1>4, <3>3 DEF Extended
      <4>2. <<>> \o seqs[1] = seqs[1]
        BY <4>1
      <4>3. i - 1 = 0
        BY <3>3
      <4> QED BY <3>2, <3>3, <4>1, <4>2, <4>3
    <3>4. CASE i # 1
      <4>1. i - 1 \in 1..L /\ v[i - 1] = r[i - 1]
        BY <1>1, <3>4
      <4> HIDE DEF v
      <4> QED BY <3>2, <3>4, <4>1
    <3> HIDE DEF v
    <3> QED BY <3>3, <3>4
  <2>2. Flat(w)
    <3> HIDE DEF Flat
    <3> QED BY <2>1
  <2>3. FlattenSeq(seqs) = w[L]
    BY <1>6 DEF FlattenSeq
  <2> HIDE DEF w
  <2> DEFINE S == { n \in Nat : n + 1 <= L => w[n + 1] = v[n + 1] }
  <2>4. 0 \in S
    <3>1. 1 \in 1..L
      BY <1>1, <1>6
    <3>2. w[1] = seqs[1] /\ v[1] = seqs[1]
      <4> HIDE DEF v
      <4> QED BY <2>1, <2>2, <3>1
    <3> HIDE DEF v
    <3> QED BY <3>2
  <2>5. ASSUME NEW n \in Nat, n \in S PROVE n + 1 \in S
    <3> SUFFICES ASSUME (n + 1) + 1 <= L PROVE w[(n + 1) + 1] = v[(n + 1) + 1]
      OBVIOUS
    <3>1. PICK k \in 1..L : k = (n + 1) + 1 /\ k # 1 /\ k - 1 = n + 1
      BY <1>1
    <3>2. w[k] = w[k - 1] \o seqs[k] /\ v[k] = v[k - 1] \o seqs[k]
      <4> HIDE DEF v
      <4> QED BY <2>1, <2>2, <3>1
    <3>3. w[n + 1] = v[n + 1]
      BY <1>1, <2>5
    <3> QED BY <3>1, <3>2, <3>3
  <2>6. S = Nat
    <3> HIDE DEF S
    <3>1. S \subseteq Nat
      BY DEF S
    <3> QED BY <2>4, <2>5, <3>1, Induction
  <2>7. w[L] = r[L]
    <3>1. PICK k \in Nat : k + 1 = L /\ v[L] = r[L]
      <4>1. L - 1 \in Nat /\ (L - 1) + 1 = L /\ L \in 1..L
        BY <1>1, <1>6
      <4> QED BY <4>1
    <3>2. k \in S
      BY <2>6
    <3>3. w[k + 1] = v[k + 1]
      <4> HIDE DEF v
      <4> QED BY <1>1, <3>1, <3>2
    <3> HIDE DEF v
    <3> QED BY <3>1, <3>3
  <2> QED BY <1>4, <2>3, <2>7
<1> QED BY <1>4, <1>5, <1>6

\* Flattened, the first m sequences have their elements and no other.
Holds(q, seqs, m) ==
  /\ \A i \in 1..Len(q) : \E n \in 1..m : \E j \in 1..Len(seqs[n]) : q[i] = seqs[n][j]
  /\ \A n \in 1..m : \A j \in 1..Len(seqs[n]) : \E i \in 1..Len(q) : q[i] = seqs[n][j]

\* What FlattenSeq returns has the elements of the sequences, and no other.
LEMMA FlattenElements ==
  ASSUME NEW A, NEW seqs \in Seq(Seq(A))
  PROVE  FlattenSeq(seqs) \in Seq(A) /\ Holds(FlattenSeq(seqs), seqs, Len(seqs))
<1>1. PICK r : Extended(A, seqs, r) /\ FlattenSeq(seqs) = r[Len(seqs)]
  BY FlattenExtends
<1>2. Len(seqs) \in Nat /\ r[Len(seqs)] \in Seq(A)
  BY <1>1 DEF Extended
<1> DEFINE S == { m \in Nat : m <= Len(seqs) => Holds(r[m], seqs, m) }
<1>3. 0 \in S
  BY <1>1 DEF Extended, Holds
<1>4. ASSUME NEW m \in Nat, m \in S PROVE m + 1 \in S
  <2> SUFFICES ASSUME m + 1 <= Len(seqs) PROVE Holds(r[m + 1], seqs, m + 1)
    OBVIOUS
  <2>1. PICK a \in Seq(A), b \in Seq(A) : a = r[m] /\ b = seqs[m + 1]
    <3>1. m + 1 \in 1..Len(seqs) /\ r[m] \in Seq(A)
      BY <1>1, <1>2 DEF Extended
    <3>2. seqs[m + 1] \in Seq(A)
      BY <3>1
    <3> QED BY <3>1, <3>2
  <2>2. PICK c \in Seq(A) : c = r[m + 1] /\ c = a \o b
    <3>1. m \in 0..(Len(seqs) - 1)
      BY <1>2
    <3>2. r[m + 1] = r[m] \o seqs[m + 1] /\ r[m + 1] \in Seq(A)
      <4>1. m + 1 \in Nat
        OBVIOUS
      <4> QED BY <1>1, <3>1, <4>1 DEF Extended
    <3> QED BY <2>1, <3>2
  <2>3. /\ Len(a) \in Nat /\ Len(b) \in Nat /\ Len(c) = Len(a) + Len(b)
        /\ \A i \in 1..Len(c) : c[i] = IF i <= Len(a) THEN a[i] ELSE b[i - Len(a)]
    BY <2>2
  <2>4. Holds(a, seqs, m)
    BY <1>2, <1>4, <2>1
  <2>5. ASSUME NEW i \in 1..Len(c)
        PROVE  \E n \in 1..(m + 1) : \E j \in 1..Len(seqs[n]) : c[i] = seqs[n][j]
    <3>1. CASE i <= Len(a)
      <4>1. i \in 1..Len(a) /\ c[i] = a[i]
        BY <2>3, <3>1
      <4>2. PICK n \in 1..m : \E j \in 1..Len(seqs[n]) : a[i] = seqs[n][j]
        BY <2>4, <4>1 DEF Holds
      <4>3. n \in 1..(m + 1)
        OBVIOUS
      <4> QED BY <4>1, <4>2, <4>3
    <3>2. CASE ~(i <= Len(a))
      <4>1. PICK j \in 1..Len(b) : c[i] = b[j]
        <5>1. i - Len(a) \in 1..Len(b) /\ c[i] = b[i - Len(a)]
          BY <2>3, <3>2
        <5> QED BY <5>1
      <4>2. PICK n \in 1..(m + 1) : seqs[n] = b
        BY <2>1
      <4> QED BY <4>1, <4>2
    <3> QED BY <3>1, <3>2
  <2>6. ASSUME NEW n \in 1..(m + 1), NEW j \in 1..Len(seqs[n])
        PROVE  \E i \in 1..Len(c) : c[i] = seqs[n][j]
    <3>1. CASE n = m + 1
      <4>1. PICK i \in 1..Len(c) : i = Len(a) + j /\ ~(i <= Len(a)) /\ i - Len(a) = j
        <5>1. j \in 1..Len(b)
          BY <2>1, <3>1
        <5>2. Len(a) + j \in 1..Len(c) /\ ~(Len(a) + j <= Len(a)) /\ (Len(a) + j) - Len(a) = j
          BY <2>3, <5>1
        <5> QED BY <5>2
      <4>2. c[i] = b[j]
        BY <2>3, <4>1
      <4> QED BY <2>1, <3>1, <4>2
    <3>2. CASE n # m + 1
      <4>1. PICK i \in 1..Len(a) : a[i] = seqs[n][j]
        <5>1. n \in 1..m
          BY <3>2
        <5> QED BY <2>4, <5>1 DEF Holds
      <4>2. i \in 1..Len(c) /\ i <= Len(a)
        BY <2>3
      <4>3. c[i] = a[i]
        BY <2>3, <4>2
      <4> QED BY <4>1, <4>2, <4>3
    <3> QED BY <3>1, <3>2
  <2>7. Holds(c, seqs, m + 1)
    BY <2>5, <2>6 DEF Holds
  <2> QED BY <2>2, <2>7
<1>5. S = Nat
  <2> HIDE DEF S
  <2>1. S \subseteq Nat
    BY DEF S
  <2> QED BY <1>3, <1>4, <2>1, Induction
<1>6. Holds(r[Len(seqs)], seqs, Len(seqs))
  BY <1>2, <1>5
<1> QED BY <1>1, <1>2, <1>6

-----------------------------------------------------------------------------
(* The parts of a sentence.                                                *)

\* A stretch of parts of one sentence.
Fragment ==
  [sentence : Nat, label : Seq(PartKind), from : Nat, to : Nat, joints : Seq(Joint)]

\* A fragment put together by merging: the label gone, its parts joined by commas.
Rejoined(f) ==
  /\ f.label = <<>> /\ Len(f.joints) = f.to - f.from
  /\ \A j \in 1..Len(f.joints) : f.joints[j] = "comma"

\* Made of sentence s: by merging, or the sentence as it was written.
Made(f, s) ==
  \/ Rejoined(f)
  \/ f.label = s.label /\ f.from = 1 /\ f.to = Len(s.parts) /\ f.joints = s.joints

\* Fragments of sentence n, in order, with each of its first m parts in one.
Block(fs, n, s, m) ==
  /\ fs \in Seq(Fragment)
  /\ \A i \in 1..Len(fs) :
       /\ fs[i].sentence = n
       /\ 1 <= fs[i].from /\ fs[i].from <= fs[i].to /\ fs[i].to <= m
  /\ \A i, j \in 1..Len(fs) : i < j => fs[i].to < fs[j].from
  /\ \A p \in 1..m : \E i \in 1..Len(fs) : fs[i].from <= p /\ p <= fs[i].to

\* A part that stands alone is a fragment.
LEMMA AloneIsFragment ==
  ASSUME NEW n \in Nat, NEW i \in Nat
  PROVE  Alone(n, i) \in Fragment /\ Rejoined(Alone(n, i))
BY DEF Alone, Fragment, Rejoined

\* Where a fragment begins and ends is a number.
LEMMA Located ==
  ASSUME NEW fs \in Seq(Fragment)
  PROVE  \A i \in 1..Len(fs) : fs[i].sentence \in Nat /\ fs[i].from \in Nat /\ fs[i].to \in Nat
<1> TAKE i \in 1..Len(fs)
<1>1. fs[i] \in Fragment
  OBVIOUS
<1> QED BY <1>1 DEF Fragment

\* A part joined to the last fragment: the others are as they were.
LEMMA Joined ==
  ASSUME NEW fs \in Seq(Fragment), fs # <<>>, NEW i \in Nat
  PROVE  /\ JoinToLast(fs, i) \in Seq(Fragment)
         /\ Len(JoinToLast(fs, i)) = Len(fs)
         /\ \A j \in 1..Len(fs) :
              /\ JoinToLast(fs, i)[j].sentence = fs[j].sentence
              /\ JoinToLast(fs, i)[j].label = fs[j].label
              /\ JoinToLast(fs, i)[j].joints =
                   IF j = Len(fs) THEN Append(fs[j].joints, "comma") ELSE fs[j].joints
              /\ JoinToLast(fs, i)[j].from = fs[j].from
              /\ JoinToLast(fs, i)[j].to = IF j = Len(fs) THEN i ELSE fs[j].to
<1> DEFINE L == Len(fs)
           last == [fs[L] EXCEPT !.to = i, !.joints = Append(fs[L].joints, "comma")]
<1>1. L \in Nat /\ L \in 1..L /\ DOMAIN fs = 1..L /\ \A j \in 1..L : fs[j] \in Fragment
  OBVIOUS
<1>2. /\ last \in Fragment /\ last.sentence = fs[L].sentence
      /\ last.label = fs[L].label /\ last.from = fs[L].from /\ last.to = i
      /\ last.joints = Append(fs[L].joints, "comma")
  <2>1. "comma" \in Joint
    BY SegmentationAssumption
  <2>2. fs[L] \in Fragment
    BY <1>1
  <2>3. Append(fs[L].joints, "comma") \in Seq(Joint)
    BY <2>1, <2>2 DEF Fragment
  <2> HIDE DEF L
  <2> QED BY <2>2, <2>3 DEF Fragment
<1>3. JoinToLast(fs, i) = [fs EXCEPT ![L] = last]
  BY DEF JoinToLast, Last
<1> HIDE DEF last
<1>4. ASSUME NEW j \in 1..L
      PROVE  JoinToLast(fs, i)[j] = IF j = L THEN last ELSE fs[j]
  BY <1>1, <1>3
<1>5. JoinToLast(fs, i) \in Seq(Fragment) /\ Len(JoinToLast(fs, i)) = L
  BY <1>1, <1>2, <1>3
<1> QED BY <1>1, <1>2, <1>4, <1>5

\* A part that stands alone extends the block ...
LEMMA BlockAlone ==
  ASSUME NEW n \in Nat, NEW s, NEW m \in Nat, NEW fs, Block(fs, n, s, m)
  PROVE  Block(Append(fs, Alone(n, m + 1)), n, s, m + 1)
<1> DEFINE f == Alone(n, m + 1)
           q == Append(fs, f)
<1>1. fs \in Seq(Fragment) /\ Len(fs) \in Nat /\ f \in Fragment
  BY AloneIsFragment DEF Block
<1>2. f.sentence = n /\ f.from = m + 1 /\ f.to = m + 1
  BY DEF Alone
<1> HIDE DEF f
<1>3. /\ q \in Seq(Fragment) /\ Len(q) = Len(fs) + 1 /\ q[Len(fs) + 1] = f
      /\ \A i \in 1..Len(fs) : q[i] = fs[i]
  BY <1>1
<1> HIDE DEF q
<1>4. \A i \in 1..Len(q) : i = Len(fs) + 1 \/ i \in 1..Len(fs)
  BY <1>1, <1>3
<1>5. \A i \in 1..Len(fs) : fs[i].from \in Nat /\ fs[i].to \in Nat
  BY <1>1, Located
<1>6. ASSUME NEW i \in 1..Len(q)
      PROVE  /\ q[i].sentence = n
             /\ 1 <= q[i].from /\ q[i].from <= q[i].to /\ q[i].to <= m + 1
  <2>1. CASE i \in 1..Len(fs)
    BY <1>3, <1>5, <2>1 DEF Block
  <2>2. CASE i = Len(fs) + 1
    BY <1>2, <1>3, <2>2
  <2> QED BY <1>4, <2>1, <2>2
<1>7. ASSUME NEW i \in 1..Len(q), NEW j \in 1..Len(q), i < j PROVE q[i].to < q[j].from
  <2>1. i \in 1..Len(fs)
    BY <1>1, <1>3, <1>7
  <2>2. CASE j \in 1..Len(fs)
    BY <1>3, <1>7, <2>1, <2>2 DEF Block
  <2>3. CASE j = Len(fs) + 1
    <3>1. fs[i].to <= m /\ fs[i].to \in Nat
      BY <1>5, <2>1 DEF Block
    <3> QED BY <1>2, <1>3, <2>1, <2>3, <3>1
  <2> QED BY <1>4, <2>2, <2>3
<1>8. ASSUME NEW p \in 1..(m + 1)
      PROVE  \E i \in 1..Len(q) : q[i].from <= p /\ p <= q[i].to
  <2>1. CASE p = m + 1
    BY <1>1, <1>2, <1>3, <2>1
  <2>2. CASE p # m + 1
    <3>1. PICK i \in 1..Len(fs) : fs[i].from <= p /\ p <= fs[i].to
      BY <2>2 DEF Block
    <3>2. i \in 1..Len(q) /\ q[i] = fs[i]
      BY <1>1, <1>3
    <3> QED BY <3>1, <3>2
  <2> QED BY <2>1, <2>2
<1> QED BY <1>3, <1>6, <1>7, <1>8 DEF Block, q, f

\* ... and so does a part that continues its last fragment.
LEMMA BlockJoined ==
  ASSUME NEW n \in Nat, NEW s, NEW m \in Nat, NEW fs, Block(fs, n, s, m), fs # <<>>
  PROVE  Block(JoinToLast(fs, m + 1), n, s, m + 1)
<1> DEFINE L == Len(fs)
           q == JoinToLast(fs, m + 1)
<1>1. fs \in Seq(Fragment) /\ L \in Nat /\ L \in 1..L
  BY DEF Block
<1>2. /\ q \in Seq(Fragment) /\ Len(q) = L
      /\ \A j \in 1..L :
           /\ q[j].sentence = fs[j].sentence
           /\ q[j].from = fs[j].from
           /\ q[j].to = IF j = L THEN m + 1 ELSE fs[j].to
  BY <1>1, Joined
<1> HIDE DEF q
<1>3. \A i \in 1..L : fs[i].from \in Nat /\ fs[i].to \in Nat
  BY <1>1, Located
<1>4. \A i \in 1..L : 1 <= fs[i].from /\ fs[i].from <= fs[i].to /\ fs[i].to <= m
  BY DEF Block
<1>5. ASSUME NEW i \in 1..L
      PROVE  /\ q[i].sentence = n
             /\ 1 <= q[i].from /\ q[i].from <= q[i].to /\ q[i].to <= m + 1
  <2>1. q[i].sentence = n
    BY <1>2 DEF Block
  <2> QED BY <1>2, <1>3, <1>4, <2>1
<1>6. ASSUME NEW i \in 1..L, NEW j \in 1..L, i < j PROVE q[i].to < q[j].from
  <2>1. q[i].to = fs[i].to /\ q[j].from = fs[j].from
    BY <1>1, <1>2, <1>6
  <2>2. fs[i].to < fs[j].from
    BY <1>6 DEF Block
  <2> QED BY <2>1, <2>2
<1>7. ASSUME NEW p \in 1..(m + 1)
      PROVE  \E i \in 1..L : q[i].from <= p /\ p <= q[i].to
  <2>1. CASE p = m + 1
    <3>1. q[L].from <= p /\ p <= q[L].to
      BY <1>1, <1>2, <1>3, <1>4, <2>1
    <3> QED BY <1>1, <3>1
  <2>2. CASE p # m + 1
    <3>1. PICK i \in 1..L : fs[i].from <= p /\ p <= fs[i].to
      BY <2>2 DEF Block
    <3>2. q[i].from <= p /\ p <= q[i].to
      BY <1>2, <1>3, <1>4, <3>1
    <3> QED BY <3>2
  <2> QED BY <2>1, <2>2
<1> QED BY <1>2, <1>5, <1>6, <1>7 DEF Block, q, L

\* A sentence the bounds allow has at least one part.
LEMMA Sentence ==
  ASSUME NEW s \in Sentences
  PROVE  /\ s.parts \in Seq(PartKind) /\ s.joints \in Seq(Joint)
         /\ Len(s.parts) \in Nat /\ Len(s.parts) >= 1
<1>1. s.parts \in Seq(PartKind) /\ s.joints \in Seq(Joint) /\ Len(s.parts) = Len(s.joints) + 1
  BY SegmentationAssumption
<1>2. Len(s.joints) \in Nat
  BY <1>1
<1> QED BY <1>1, <1>2

\* Merging keeps fragments fragments, whatever has been merged before.
LEMMA MergeFragments ==
  ASSUME NEW n \in Nat, NEW s, NEW i \in Nat, NEW fs \in Seq(Fragment)
  PROVE  MergePart(n, s, fs, i) \in Seq(Fragment)
<1>1. CASE fs # <<>> /\ Continues(s.parts[i])
  BY <1>1, Joined DEF MergePart
<1>2. CASE ~(fs # <<>> /\ Continues(s.parts[i]))
  <2>1. Append(fs, Alone(n, i)) \in Seq(Fragment)
    BY AloneIsFragment
  <2> QED BY <1>2, <2>1 DEF MergePart
<1> QED BY <1>1, <1>2

\* One turn of the loop covers one part more.
LEMMA MergeBlock ==
  ASSUME NEW n \in Nat, NEW s, NEW m \in Nat, NEW fs, Block(fs, n, s, m)
  PROVE  Block(MergePart(n, s, fs, m + 1), n, s, m + 1)
<1>1. CASE fs # <<>> /\ Continues(s.parts[m + 1])
  BY <1>1, BlockJoined DEF MergePart
<1>2. CASE ~(fs # <<>> /\ Continues(s.parts[m + 1]))
  BY <1>2, BlockAlone DEF MergePart
<1> QED BY <1>1, <1>2

\* Each of the fragments was put together by merging.
AllRejoined(fs) == \A i \in 1..Len(fs) : Rejoined(fs[i])

\* The last of the fragments of m parts ends with part m.
LEMMA LastToTheEnd ==
  ASSUME NEW n \in Nat, NEW s, NEW m \in Nat, NEW fs, Block(fs, n, s, m), fs # <<>>
  PROVE  fs[Len(fs)].to = m
<1>1. Len(fs) \in Nat /\ Len(fs) \in 1..Len(fs)
  BY DEF Block
<1>2. \A i \in 1..Len(fs) : fs[i].from \in Nat /\ fs[i].to \in Nat
  BY Located DEF Block
<1>3. 1 <= fs[Len(fs)].from /\ fs[Len(fs)].from <= fs[Len(fs)].to /\ fs[Len(fs)].to <= m
  BY <1>1 DEF Block
<1>4. m \in 1..m
  BY <1>1, <1>2, <1>3
<1>5. PICK i \in 1..Len(fs) : fs[i].from <= m /\ m <= fs[i].to
  BY <1>4 DEF Block
<1>6. i < Len(fs) => fs[i].to < fs[Len(fs)].from
  BY <1>1 DEF Block
<1> QED BY <1>1, <1>2, <1>3, <1>5, <1>6

\* What merging puts together has commas between its parts and no label.
LEMMA MergeRejoins ==
  ASSUME NEW n \in Nat, NEW s, NEW m \in Nat, NEW fs, Block(fs, n, s, m), AllRejoined(fs)
  PROVE  AllRejoined(MergePart(n, s, fs, m + 1))
<1> DEFINE q == MergePart(n, s, fs, m + 1)
<1>1. fs \in Seq(Fragment) /\ Len(fs) \in Nat
  BY DEF Block
<1>2. CASE fs # <<>> /\ Continues(s.parts[m + 1])
  <2>1. q = JoinToLast(fs, m + 1)
    BY <1>2 DEF MergePart
  <2> HIDE DEF q
  <2>2. ASSUME NEW i \in 1..Len(q) PROVE Rejoined(q[i])
    <3>1. /\ Len(q) = Len(fs) /\ q[i].label = fs[i].label /\ q[i].from = fs[i].from
          /\ q[i].to = IF i = Len(fs) THEN m + 1 ELSE fs[i].to
          /\ q[i].joints = IF i = Len(fs) THEN Append(fs[i].joints, "comma") ELSE fs[i].joints
      BY <1>1, <1>2, <2>1, Joined
    <3>2. Rejoined(fs[i]) /\ fs[i].joints \in Seq(Joint) /\ fs[i].from \in Nat
      <4>1. fs[i] \in Fragment
        BY <1>1, <3>1
      <4> QED BY <3>1, <4>1 DEF AllRejoined, Fragment
    <3>3. CASE i # Len(fs)
      BY <3>1, <3>2, <3>3 DEF Rejoined
    <3>4. CASE i = Len(fs)
      <4> DEFINE old == fs[i].joints
                 new == q[i].joints
      <4>1. new = Append(old, "comma") /\ old \in Seq(Joint) /\ Len(old) = m - fs[i].from
        BY <1>2, <3>1, <3>2, <3>4, LastToTheEnd DEF Rejoined
      <4>2. \A j \in 1..Len(old) : old[j] = "comma"
        BY <3>2 DEF Rejoined
      <4> HIDE DEF old, new
      <4>3. Len(old) \in Nat /\ Len(new) = Len(old) + 1 /\ \A j \in 1..Len(new) : new[j] = "comma"
        BY <4>1, <4>2
      <4>4. Len(new) = (m + 1) - fs[i].from
        <5>1. \A a, b, c \in Nat : b = m - a /\ c = b + 1 => c = (m + 1) - a
          OBVIOUS
        <5>2. fs[i].from \in Nat /\ Len(old) \in Nat /\ Len(new) \in Nat
          BY <3>2, <4>3
        <5> QED BY <4>1, <4>3, <5>1, <5>2
      <4> QED BY <3>1, <3>2, <3>4, <4>3, <4>4 DEF Rejoined, new
    <3> QED BY <3>3, <3>4
  <2> QED BY <2>2 DEF AllRejoined, q
<1>3. CASE ~(fs # <<>> /\ Continues(s.parts[m + 1]))
  <2> DEFINE f == Alone(n, m + 1)
  <2>1. q = Append(fs, f) /\ f \in Fragment /\ Rejoined(f)
    BY <1>3, AloneIsFragment DEF MergePart
  <2> HIDE DEF q, f
  <2>2. ASSUME NEW i \in 1..Len(q) PROVE Rejoined(q[i])
    <3>1. (i \in 1..Len(fs) /\ q[i] = fs[i]) \/ q[i] = f
      BY <1>1, <2>1
    <3> QED BY <2>1, <3>1 DEF AllRejoined
  <2> QED BY <2>2 DEF AllRejoined, q
<1> QED BY <1>2, <1>3

\* The loop of _split_enumeration, turn by turn.
Merging(n, s, r) ==
  /\ r[0] = <<>>
  /\ \A i \in 0..(Len(s.parts) - 1) : r[i + 1] = MergePart(n, s, r[i], i + 1)

\* Merged is what the loop leaves after its last turn.
LEMMA MergedInTurns ==
  ASSUME NEW n \in Nat, NEW s \in Sentences
  PROVE  \E r : Merging(n, s, r) /\ Merged(n, s) = r[Len(s.parts)]
<1> DEFINE L == Len(s.parts)
           G == [p \in Nat \X Seq(Fragment) |-> MergePart(n, s, p[2], p[1] + 1)]
           Loop(w) == w = [i \in 0..L |-> IF i = 0 THEN <<>> ELSE MergePart(n, s, w[i - 1], i)]
           w == CHOOSE w : Loop(w)
<1>1. L \in Nat
  BY Sentence
<1>2. G \in [Nat \X Seq(Fragment) -> Seq(Fragment)] /\ <<>> \in Seq(Fragment)
  <2>1. \A i \in Nat, fs \in Seq(Fragment) : MergePart(n, s, fs, i + 1) \in Seq(Fragment)
    BY MergeFragments
  <2> QED BY <2>1
<1>3. \A i \in Nat, fs \in Seq(Fragment) : G[<<i, fs>>] = MergePart(n, s, fs, i + 1)
  OBVIOUS
<1> HIDE DEF G
<1>4. PICK r : Recursive(Seq(Fragment), <<>>, G, r)
  BY <1>2, RecursiveFunction
<1>5. r \in [Nat -> Seq(Fragment)] /\ r[0] = <<>> /\ \A i \in Nat : r[i + 1] = G[<<i, r[i]>>]
  BY <1>4 DEF Recursive
<1>6. \A i \in Nat : r[i + 1] = MergePart(n, s, r[i], i + 1)
  BY <1>3, <1>5
<1>7. Merging(n, s, r)
  BY <1>1, <1>5, <1>6 DEF Merging
<1>8. Loop(w)
  <2> DEFINE v == [i \in 0..L |-> r[i]]
  <2>1. \A i \in 0..L : v[i] = IF i = 0 THEN <<>> ELSE MergePart(n, s, v[i - 1], i)
    <3> TAKE i \in 0..L
    <3>1. CASE i = 0
      BY <1>5, <3>1
    <3>2. CASE i # 0
      <4>1. i - 1 \in Nat /\ i - 1 \in 0..L /\ (i - 1) + 1 = i
        BY <1>1, <3>2
      <4>2. v[i] = r[i] /\ v[i - 1] = r[i - 1]
        BY <4>1
      <4> HIDE DEF v
      <4> QED BY <1>6, <3>2, <4>1, <4>2
    <3> QED BY <3>1, <3>2
  <2>2. v = [i \in 0..L |-> v[i]]
    OBVIOUS
  <2> HIDE DEF v
  <2>3. Loop(v)
    BY <2>1, <2>2
  <2> HIDE DEF Loop
  <2> QED BY <2>3
<1>9. Merged(n, s) = w[L]
  BY DEF Merged
<1> HIDE DEF w
<1>10. w[0] = <<>>
  BY <1>1, <1>8
<1>11. ASSUME NEW i \in 0..(L - 1), w[i] \in Seq(Fragment) PROVE w[i + 1] = G[<<i, w[i]>>]
  <2>1. i \in Nat /\ i + 1 \in 0..L /\ i + 1 # 0 /\ (i + 1) - 1 = i
    BY <1>1
  <2>2. w[i + 1] = MergePart(n, s, w[(i + 1) - 1], i + 1)
    BY <1>8, <2>1
  <2> QED BY <1>3, <1>11, <2>1, <2>2
<1>12. w[L] = r[L]
  <2> HIDE DEF L
  <2>1. \A i \in 0..(L - 1) : w[i] \in Seq(Fragment) => w[i + 1] = G[<<i, w[i]>>]
    BY <1>11
  <2>2. \A i \in 0..L : w[i] = r[i]
    BY <1>1, <1>4, <1>10, <2>1, RecursionUpTo
  <2> QED BY <1>1, <2>2
<1> QED BY <1>7, <1>9, <1>12

\* What merging returns covers every part of the sentence.
LEMMA MergedBlock ==
  ASSUME NEW n \in Nat, NEW s \in Sentences
  PROVE  Block(Merged(n, s), n, s, Len(s.parts)) /\ AllRejoined(Merged(n, s))
<1>1. PICK r : Merging(n, s, r) /\ Merged(n, s) = r[Len(s.parts)]
  BY MergedInTurns
<1>2. Len(s.parts) \in Nat
  BY Sentence
<1> DEFINE S == { m \in Nat : m <= Len(s.parts) => Block(r[m], n, s, m) /\ AllRejoined(r[m]) }
<1>3. 0 \in S
  <2>1. Block(<<>>, n, s, 0) /\ AllRejoined(<<>>)
    BY DEF Block, AllRejoined
  <2> QED BY <1>1, <2>1 DEF Merging
<1>4. ASSUME NEW m \in Nat, m \in S PROVE m + 1 \in S
  <2> SUFFICES ASSUME m + 1 <= Len(s.parts)
               PROVE  Block(r[m + 1], n, s, m + 1) /\ AllRejoined(r[m + 1])
    OBVIOUS
  <2>1. m \in 0..(Len(s.parts) - 1) /\ Block(r[m], n, s, m) /\ AllRejoined(r[m])
    BY <1>2, <1>4
  <2>2. r[m + 1] = MergePart(n, s, r[m], m + 1)
    BY <1>1, <2>1 DEF Merging
  <2> QED BY <2>1, <2>2, MergeBlock, MergeRejoins
<1>5. S = Nat
  <2>1. S \subseteq Nat
    OBVIOUS
  <2> HIDE DEF S
  <2> QED BY <1>3, <1>4, <2>1, Induction
<1> QED BY <1>1, <1>2, <1>5

\* A sentence left in one piece is one fragment with all of its parts.
LEMMA WholeBlock ==
  ASSUME NEW n \in Nat, NEW s \in Sentences
  PROVE  Block(<<Whole(n, s)>>, n, s, Len(s.parts)) /\ Made(Whole(n, s), s)
<1> DEFINE f == Whole(n, s)
<1>1. /\ s.label \in Seq(PartKind) /\ s.joints \in Seq(Joint)
      /\ Len(s.parts) \in Nat /\ Len(s.parts) >= 1
  BY Sentence, SegmentationAssumption
<1>2. /\ f \in Fragment /\ f.sentence = n /\ f.from = 1 /\ f.to = Len(s.parts)
      /\ Made(f, s)
  BY <1>1 DEF Whole, Fragment, Made
<1> HIDE DEF f
<1>3. <<f>> \in Seq(Fragment) /\ Len(<<f>>) = 1 /\ \A i \in 1..1 : <<f>>[i] = f
  BY <1>2
<1> QED BY <1>1, <1>2, <1>3 DEF Block, f

\* Each of the fragments is made of sentence s.
AllMade(fs, s) == \A i \in 1..Len(fs) : Made(fs[i], s)

\* However a sentence is split, its parts are covered once and in order.
LEMMA SentenceBlock ==
  ASSUME NEW n \in Nat, NEW s \in Sentences
  PROVE  Block(SplitSentence(n, s), n, s, Len(s.parts)) /\ AllMade(SplitSentence(n, s), s)
<1>1. AllMade(Merged(n, s), s)
  BY MergedBlock DEF AllMade, AllRejoined, Made
<1>2. AllMade(<<Whole(n, s)>>, s)
  BY WholeBlock DEF AllMade
<1> QED BY <1>1, <1>2, MergedBlock, WholeBlock DEF SplitSentence, SplitEnumeration

-----------------------------------------------------------------------------
(* The sentences of a message.                                             *)

\* f comes before g in the text.
Before(f, g) ==
  \/ f.sentence < g.sentence
  \/ f.sentence = g.sentence /\ f.to < g.from

\* Fragments of the first m sentences of t, in order, with each part in one.
Tiled(fs, t, m) ==
  /\ fs \in Seq(Fragment)
  /\ \A i \in 1..Len(fs) :
       /\ fs[i].sentence \in 1..m
       /\ Made(fs[i], t[fs[i].sentence])
       /\ 1 <= fs[i].from /\ fs[i].from <= fs[i].to
       /\ fs[i].to <= Len(t[fs[i].sentence].parts)
  /\ \A i, j \in 1..Len(fs) : i < j => Before(fs[i], fs[j])
  /\ \A n \in 1..m : \A k \in 1..Len(t[n].parts) :
       \E i \in 1..Len(fs) : Covers(fs[i], Position(n, k))

\* The fragments of one sentence more.
LEMMA TiledFurther ==
  ASSUME NEW t, NEW m \in Nat, NEW fs, Tiled(fs, t, m),
         NEW gs, Block(gs, m + 1, t[m + 1], Len(t[m + 1].parts)), AllMade(gs, t[m + 1])
  PROVE  Tiled(fs \o gs, t, m + 1)
<1>1. fs \in Seq(Fragment) /\ gs \in Seq(Fragment) /\ Len(fs) \in Nat /\ Len(gs) \in Nat
  BY DEF Tiled, Block
<1> DEFINE q == fs \o gs
<1>2. /\ q \in Seq(Fragment) /\ Len(q) = Len(fs) + Len(gs)
      /\ \A i \in 1..Len(q) : q[i] = IF i <= Len(fs) THEN fs[i] ELSE gs[i - Len(fs)]
  BY <1>1
<1> HIDE DEF q
<1>3. \A i \in 1..Len(fs) : i \in 1..Len(q) /\ q[i] = fs[i]
  BY <1>1, <1>2
<1>4. ASSUME NEW j \in 1..Len(gs) PROVE \E i \in 1..Len(q) : i = Len(fs) + j /\ q[i] = gs[j]
  <2>1. /\ Len(fs) + j \in 1..Len(q) /\ ~(Len(fs) + j <= Len(fs))
        /\ (Len(fs) + j) - Len(fs) = j
    BY <1>1, <1>2
  <2> QED BY <1>2, <2>1
<1>5. ASSUME NEW i \in 1..Len(q), ~(i <= Len(fs))
      PROVE  \E j \in 1..Len(gs) : i = Len(fs) + j /\ q[i] = gs[j]
  <2>1. i - Len(fs) \in 1..Len(gs) /\ i = Len(fs) + (i - Len(fs))
    BY <1>1, <1>2, <1>5
  <2> QED BY <1>2, <1>5, <2>1
<1>6. \A i \in 1..Len(q) : i <= Len(fs) => i \in 1..Len(fs)
  BY <1>1, <1>2
<1>7. ASSUME NEW i \in 1..Len(q)
      PROVE  /\ q[i].sentence \in 1..(m + 1)
             /\ Made(q[i], t[q[i].sentence])
             /\ 1 <= q[i].from /\ q[i].from <= q[i].to
             /\ q[i].to <= Len(t[q[i].sentence].parts)
  <2>1. CASE i <= Len(fs)
    <3>1. i \in 1..Len(fs) /\ q[i] = fs[i] /\ 1..m \subseteq 1..(m + 1)
      BY <1>3, <1>6, <2>1
    <3> QED BY <3>1 DEF Tiled
  <2>2. CASE ~(i <= Len(fs))
    <3>1. PICK j \in 1..Len(gs) : q[i] = gs[j]
      BY <1>5, <2>2
    <3>2. m + 1 \in 1..(m + 1)
      OBVIOUS
    <3> QED BY <3>1, <3>2 DEF Block, AllMade
  <2> QED BY <2>1, <2>2
<1>8. ASSUME NEW i \in 1..Len(q), NEW j \in 1..Len(q), i < j PROVE Before(q[i], q[j])
  <2>1. CASE i <= Len(fs) /\ j <= Len(fs)
    BY <1>3, <1>6, <1>8, <2>1 DEF Tiled
  <2>2. CASE i <= Len(fs) /\ ~(j <= Len(fs))
    <3>1. PICK k \in 1..Len(gs) : q[j] = gs[k]
      BY <1>5, <2>2
    <3>2. q[j].sentence = m + 1
      BY <3>1 DEF Block
    <3>3. q[i].sentence \in 1..m
      BY <1>3, <1>6, <2>2 DEF Tiled
    <3> QED BY <3>2, <3>3 DEF Before
  <2>3. CASE ~(i <= Len(fs)) /\ ~(j <= Len(fs))
    <3>1. PICK k \in 1..Len(gs) : i = Len(fs) + k /\ q[i] = gs[k]
      BY <1>5, <2>3
    <3>2. PICK l \in 1..Len(gs) : j = Len(fs) + l /\ q[j] = gs[l]
      BY <1>5, <2>3
    <3>3. k < l
      BY <1>1, <1>8, <3>1, <3>2
    <3>4. gs[k].sentence = m + 1 /\ gs[l].sentence = m + 1 /\ gs[k].to < gs[l].from
      BY <3>3 DEF Block
    <3> QED BY <3>1, <3>2, <3>4 DEF Before
  <2> QED BY <1>1, <1>2, <1>8, <2>1, <2>2, <2>3
<1>9. ASSUME NEW n \in 1..(m + 1), NEW k \in 1..Len(t[n].parts)
      PROVE  \E i \in 1..Len(q) : Covers(q[i], Position(n, k))
  <2>1. CASE n = m + 1
    <3>1. PICK j \in 1..Len(gs) : gs[j].from <= k /\ k <= gs[j].to /\ gs[j].sentence = n
      BY <2>1 DEF Block
    <3>2. Covers(gs[j], Position(n, k))
      BY <3>1 DEF Covers, Position
    <3> QED BY <1>4, <3>2
  <2>2. CASE n # m + 1
    <3>1. PICK i \in 1..Len(fs) : Covers(fs[i], Position(n, k))
      BY <2>2 DEF Tiled
    <3> QED BY <1>3, <3>1
  <2> QED BY <2>1, <2>2
<1> QED BY <1>2, <1>7, <1>8, <1>9 DEF Tiled, q

\* split_into_facts covers every part of every sentence, once and in order.
LEMMA SplitTiles ==
  ASSUME NEW t \in Seq(Sentences)
  PROVE  Tiled(SplitIntoFacts(t), t, Len(t))
<1> DEFINE seqs == [n \in 1..Len(t) |-> SplitSentence(n, t[n])]
<1>1. Len(t) \in Nat /\ \A n \in 1..Len(t) : t[n] \in Sentences
  OBVIOUS
<1>2. \A n \in 1..Len(t) : /\ Block(SplitSentence(n, t[n]), n, t[n], Len(t[n].parts))
                          /\ AllMade(SplitSentence(n, t[n]), t[n])
  BY <1>1, SentenceBlock
<1>3. \A n \in 1..Len(t) : SplitSentence(n, t[n]) \in Seq(Fragment)
  BY <1>2 DEF Block
<1>4. /\ seqs \in Seq(Seq(Fragment)) /\ Len(seqs) = Len(t)
      /\ \A n \in 1..Len(t) : seqs[n] = SplitSentence(n, t[n])
  BY <1>1, <1>3
<1>5. SplitIntoFacts(t) = FlattenSeq(seqs)
  BY DEF SplitIntoFacts
<1> HIDE DEF seqs
<1>6. PICK r : Extended(Fragment, seqs, r) /\ SplitIntoFacts(t) = r[Len(t)]
  BY <1>4, <1>5, FlattenExtends
<1> DEFINE S == { m \in Nat : m <= Len(t) => Tiled(r[m], t, m) }
<1>7. 0 \in S
  <2>1. Tiled(<<>>, t, 0)
    BY DEF Tiled
  <2> QED BY <1>6, <2>1 DEF Extended
<1>8. ASSUME NEW m \in Nat, m \in S PROVE m + 1 \in S
  <2> SUFFICES ASSUME m + 1 <= Len(t) PROVE Tiled(r[m + 1], t, m + 1)
    OBVIOUS
  <2>1. m \in 0..(Len(t) - 1) /\ m + 1 \in 1..Len(t) /\ Tiled(r[m], t, m)
    BY <1>1, <1>8
  <2>2. r[m + 1] = r[m] \o seqs[m + 1]
    BY <1>4, <1>6, <2>1 DEF Extended
  <2>3. /\ Block(seqs[m + 1], m + 1, t[m + 1], Len(t[m + 1].parts))
        /\ AllMade(seqs[m + 1], t[m + 1])
    BY <1>2, <1>4, <2>1
  <2> QED BY <2>1, <2>2, <2>3, TiledFurther
<1>9. S = Nat
  <2>1. S \subseteq Nat
    OBVIOUS
  <2> HIDE DEF S
  <2> QED BY <1>7, <1>8, <2>1, Induction
<1> QED BY <1>1, <1>6, <1>9

-----------------------------------------------------------------------------
(* What becomes a fact.                                                    *)

\* What _user_fact_specs returns of a fragment.
FactSpec == [key : Nat, fragment : Fragment]

\* What the filter of _user_fact_specs lets through.
WorthKeeping(t, f) == IsDirective(t, f) \/ Substantive(t, f)

\* Each fragment gets a key of its own.
LEMMA KeyedFragments ==
  ASSUME NEW fs \in Seq(Fragment)
  PROVE  /\ Keyed(fs) \in Seq(FactSpec) /\ Len(Keyed(fs)) = Len(fs)
         /\ \A i \in 1..Len(fs) : Keyed(fs)[i].fragment = fs[i]
<1>1. Len(fs) \in Nat /\ \A i \in 1..Len(fs) : fs[i] \in Fragment
  OBVIOUS
<1> DEFINE spec(i) == [key |-> IF Len(fs) = 1 THEN 0 ELSE i, fragment |-> fs[i]]
<1>2. \A i \in 1..Len(fs) : spec(i) \in FactSpec /\ spec(i).fragment = fs[i]
  BY <1>1 DEF FactSpec
<1>3. Keyed(fs) = [i \in 1..Len(fs) |-> spec(i)]
  BY DEF Keyed
<1> HIDE DEF spec
<1> QED BY <1>1, <1>2, <1>3

\* A fragment is no empty sequence, so a fact of one is not the whole message.
LEMMA FragmentNotMessage ==
  ASSUME NEW f \in FactSpec
  PROVE  f # Message
<1>1. f.fragment \in Fragment /\ Message.fragment = <<>>
  BY DEF FactSpec, Message
<1>2. "from" \in DOMAIN f.fragment
  BY <1>1 DEF Fragment
<1>3. "from" \notin DOMAIN <<>>
  OBVIOUS
<1> QED BY <1>1, <1>2, <1>3

\* The facts kept are those worth keeping.
LEMMA KeptSpecs ==
  ASSUME NEW t, NEW specs \in Seq(FactSpec)
  PROVE  /\ Kept(t, specs) \in Seq(FactSpec)
         /\ \A k \in 1..Len(Kept(t, specs)) :
              \E i \in 1..Len(specs) :
                Kept(t, specs)[k] = specs[i] /\ WorthKeeping(t, specs[i].fragment)
         /\ \A i \in 1..Len(specs) :
              WorthKeeping(t, specs[i].fragment) =>
                \E k \in 1..Len(Kept(t, specs)) : Kept(t, specs)[k] = specs[i]
<1> DEFINE one(i) == IF WorthKeeping(t, specs[i].fragment) THEN <<specs[i]>> ELSE <<>>
           seqs == [i \in 1..Len(specs) |-> one(i)]
<1>1. Len(specs) \in Nat /\ \A i \in 1..Len(specs) : specs[i] \in FactSpec
  OBVIOUS
<1>2. ASSUME NEW i \in 1..Len(specs)
      PROVE  /\ one(i) \in Seq(FactSpec)
             /\ WorthKeeping(t, specs[i].fragment) => 1 \in 1..Len(one(i)) /\ one(i)[1] = specs[i]
             /\ \A j \in 1..Len(one(i)) :
                  one(i)[j] = specs[i] /\ WorthKeeping(t, specs[i].fragment)
  <2>1. CASE WorthKeeping(t, specs[i].fragment)
    <3>1. one(i) = <<specs[i]>>
      BY <2>1
    <3> HIDE DEF one
    <3> QED BY <1>1, <2>1, <3>1
  <2>2. CASE ~WorthKeeping(t, specs[i].fragment)
    <3>1. one(i) = <<>>
      BY <2>2
    <3> HIDE DEF one
    <3> QED BY <2>2, <3>1
  <2> HIDE DEF one
  <2> QED BY <2>1, <2>2
<1>3. Kept(t, specs) = FlattenSeq(seqs)
  BY DEF Kept, WorthKeeping
<1> HIDE DEF one
<1>4. seqs \in Seq(Seq(FactSpec)) /\ Len(seqs) = Len(specs) /\ \A i \in 1..Len(specs) : seqs[i] = one(i)
  BY <1>1, <1>2
<1> HIDE DEF seqs
<1> DEFINE q == FlattenSeq(seqs)
<1>5. q \in Seq(FactSpec) /\ Holds(q, seqs, Len(specs))
  BY <1>4, FlattenElements
<1> HIDE DEF q
<1>6. ASSUME NEW k \in 1..Len(q)
      PROVE  \E i \in 1..Len(specs) : q[k] = specs[i] /\ WorthKeeping(t, specs[i].fragment)
  <2>1. PICK n \in 1..Len(specs) : \E j \in 1..Len(seqs[n]) : q[k] = seqs[n][j]
    BY <1>5 DEF Holds
  <2>2. PICK j \in 1..Len(one(n)) : q[k] = one(n)[j]
    BY <1>4, <2>1
  <2> QED BY <1>2, <2>2
<1>7. ASSUME NEW i \in 1..Len(specs), WorthKeeping(t, specs[i].fragment)
      PROVE  \E k \in 1..Len(q) : q[k] = specs[i]
  <2>1. 1 \in 1..Len(seqs[i]) /\ seqs[i][1] = specs[i]
    BY <1>2, <1>4, <1>7
  <2>2. PICK k \in 1..Len(q) : q[k] = seqs[i][1]
    BY <1>5, <2>1 DEF Holds
  <2> QED BY <2>1, <2>2
<1>8. Kept(t, specs) = q
  BY <1>3 DEF q
<1> QED BY <1>5, <1>6, <1>7, <1>8

-----------------------------------------------------------------------------
(* The message and its facts.                                              *)

\* The facts are those of the message as it stands.
CaptureInv == text \in Seq(Sentences) /\ (Captured => facts = UserFactSpecs(text))

\* Writing drops the facts of the message as it was, capturing brings them.
LEMMA CaptureInductive == Spec => []CaptureInv
<1>1. Init => CaptureInv
  BY DEF Init, CaptureInv, Captured
<1>2. CaptureInv /\ [Next]_vars => CaptureInv'
  <2> SUFFICES ASSUME CaptureInv, [Next]_vars PROVE CaptureInv'
    OBVIOUS
  <2>1. ASSUME NEW s \in Sentences, Write(s) PROVE CaptureInv'
    <3>1. text' = Append(text, s) /\ facts' = <<>>
      BY <2>1 DEF Write
    <3>2. text' \in Seq(Sentences)
      BY <3>1 DEF CaptureInv
    <3> QED BY <3>1, <3>2 DEF CaptureInv, Captured
  <2>2. CASE Capture
    BY <2>2 DEF Capture, CaptureInv, Captured
  <2>3. CASE UNCHANGED vars
    BY <2>3 DEF vars, CaptureInv, Captured
  <2>4. Sayable \subseteq Sentences
    BY SegmentationAssumption DEF Sayable
  <2> QED BY <2>1, <2>2, <2>3, <2>4 DEF Next
<1> QED BY <1>1, <1>2, PTL DEF Spec

\* Whatever the message, no part of it is lost by splitting or found in two
\* fragments, and the fragments keep the order of the text.
THEOREM NothingSplitTwice == Spec => []EveryPartOnce
<1>1. CaptureInv => EveryPartOnce
  <2> SUFFICES ASSUME CaptureInv PROVE EveryPartOnce
    OBVIOUS
  <2> DEFINE fs == SplitIntoFacts(text)
  <2>1. Tiled(fs, text, Len(text))
    BY SplitTiles DEF CaptureInv
  <2> HIDE DEF fs
  <2>2. \A i \in 1..Len(fs) : fs[i].sentence \in Nat /\ fs[i].from \in Nat /\ fs[i].to \in Nat
    BY <2>1, Located DEF Tiled
  <2>3. ASSUME NEW p \in Positions PROVE Cardinality({ i \in 1..Len(fs) : Covers(fs[i], p) }) = 1
    <3>1. PICK n \in 1..Len(text) : \E k \in 1..Len(text[n].parts) : p = Position(n, k)
      BY DEF Positions
    <3>2. PICK k \in 1..Len(text[n].parts) : p = Position(n, k)
      BY <3>1
    <3>3. PICK i \in 1..Len(fs) : Covers(fs[i], p)
      BY <2>1, <3>2 DEF Tiled
    <3>4. ASSUME NEW j \in 1..Len(fs), Covers(fs[j], p) PROVE j = i
      <4>1. \A a, b \in 1..Len(fs) : Covers(fs[a], p) /\ Covers(fs[b], p) => ~(a < b)
        <5> SUFFICES ASSUME NEW a \in 1..Len(fs), NEW b \in 1..Len(fs),
                            Covers(fs[a], p), Covers(fs[b], p), a < b
                     PROVE  FALSE
          OBVIOUS
        <5>1. Before(fs[a], fs[b])
          BY <2>1 DEF Tiled
        <5>2. p[1] \in Nat /\ p[2] \in Nat
          BY <3>2 DEF Position
        <5>3. /\ fs[a].sentence = p[1] /\ p[2] <= fs[a].to
              /\ fs[b].sentence = p[1] /\ fs[b].from <= p[2]
          BY DEF Covers
        <5>4. ~(fs[a].sentence < fs[b].sentence)
          BY <5>2, <5>3
        <5>5. fs[a].to < fs[b].from
          BY <5>1, <5>4 DEF Before
        <5>6. fs[a].to \in Nat /\ fs[b].from \in Nat
          BY <2>2
        <5> QED BY <5>2, <5>3, <5>5, <5>6
      <4> QED BY <3>3, <3>4, <4>1
    <3>5. { j \in 1..Len(fs) : Covers(fs[j], p) } = {i}
      BY <3>3, <3>4
    <3> QED BY <3>5, FS_Singleton
  <2>4. \A i, j \in 1..Len(fs) : i < j =>
          \/ fs[i].sentence < fs[j].sentence
          \/ fs[i].sentence = fs[j].sentence /\ fs[i].to < fs[j].from
    BY <2>1 DEF Tiled, Before
  <2> QED BY <2>3, <2>4 DEF EveryPartOnce, fs
<1> QED BY <1>1, CaptureInductive, PTL

\* Part k of sentence n is stated so that the filter sees it.
Stated(k, n) ==
  LET s == text[n]
      part == s.parts[k]
  IN  \/ "inside" \in VerbAt[part]
      \/ "first" \in VerbAt[part] /\ (k > 1 => s.joints[k - 1] \in SpaceAfter)
      \/ part \in Digit \cap Word
      \/ k = 1 /\ part \in Opener \cup Goal /\ s.label = <<>>
      \/ k = Len(s.parts) /\ s.question

\* A part that begins with a verb after a space still does in the fragment it is
\* part of: rejoined parts are preceded by ", ".
LEMMA StaysAfterSpace ==
  ASSUME NEW s, NEW f \in Fragment, Made(f, s), NEW k \in Nat, f.from <= k, k <= f.to,
         k > 1 => s.joints[k - 1] \in SpaceAfter
  PROVE  AfterSpace(f, k)
<1> SUFFICES ASSUME k > f.from PROVE f.joints[k - f.from] \in SpaceAfter
  BY DEF AfterSpace
<1>1. f.from \in Nat /\ f.to \in Nat
  BY DEF Fragment
<1>2. CASE Rejoined(f)
  <2>1. k - f.from \in 1..Len(f.joints)
    BY <1>1, <1>2 DEF Rejoined
  <2>2. f.joints[k - f.from] = "comma"
    BY <1>2, <2>1 DEF Rejoined
  <2> QED BY <2>2, SegmentationAssumption
<1>3. CASE f.from = 1 /\ f.joints = s.joints
  BY <1>3
<1> QED BY <1>2, <1>3 DEF Made

\* A fragment with a part so stated is worth keeping.
LEMMA StatedIsKept ==
  ASSUME NEW f \in Fragment, NEW k \in Nat, f.from <= k, k <= f.to, 1 <= f.from,
         f.to <= Len(text[f.sentence].parts), Made(f, text[f.sentence]),
         text[f.sentence] \in Sentences, Stated(k, f.sentence)
  PROVE  WorthKeeping(text, f)
<1> DEFINE s == text[f.sentence]
           part == s.parts[k]
<1>1. f.from \in Nat /\ f.to \in Nat /\ Len(s.parts) \in Nat /\ k \in f.from..f.to
  BY Sentence DEF Fragment
<1>2. part \in PartsOf(text, f) /\ part \in Content(text, f)
  BY <1>1 DEF PartsOf, Content
<1>3. part \in PartKind
  <2>1. s.parts \in Seq(PartKind) /\ k \in 1..Len(s.parts)
    BY <1>1, Sentence
  <2> QED BY <2>1
<1>4. VerbAt[part] # {} \/ part \in Word => ~BareOrdinal(text, f)
  BY <1>2, SegmentationAssumption DEF BareOrdinal
<1>5. CASE "inside" \in VerbAt[part]
  <2>1. Clause(text, f)
    BY <1>1, <1>5 DEF Clause
  <2> QED BY <1>4, <1>5, <2>1 DEF WorthKeeping, Substantive
<1>6. CASE "first" \in VerbAt[part] /\ (k > 1 => s.joints[k - 1] \in SpaceAfter)
  <2>1. AfterSpace(f, k)
    BY <1>6, StaysAfterSpace
  <2>2. Clause(text, f)
    BY <1>1, <1>6, <2>1 DEF Clause
  <2> QED BY <1>4, <1>6, <2>2 DEF WorthKeeping, Substantive
<1>7. CASE part \in Digit \cap Word
  BY <1>2, <1>4, <1>7 DEF WorthKeeping, Substantive, HasWord
<1>8. CASE k = 1 /\ part \in Opener \cup Goal /\ s.label = <<>>
  <2>1. f.from = 1 /\ f.label = <<>>
    BY <1>1, <1>8 DEF Made, Rejoined
  <2> QED BY <1>8, <2>1 DEF WorthKeeping, IsDirective, OpensAsDirective, Opening
<1>9. CASE k = Len(s.parts) /\ s.question
  <2>1. f.to = Len(s.parts)
    BY <1>1, <1>9
  <2> QED BY <1>9, <2>1 DEF WorthKeeping, IsDirective
<1> QED BY <1>5, <1>6, <1>7, <1>8, <1>9 DEF Stated

\* A part with a verb that spaces set off, or a figure and what it measures, and
\* every question and instruction, is in a fragment worth keeping, and so in a
\* fact.
THEOREM EverythingStatedIsKept == Spec => []NothingStatedIsLost
<1>1. CaptureInv => NothingStatedIsLost
  <2> SUFFICES ASSUME CaptureInv, Captured, NEW p \in Positions, Stated(p[2], p[1])
               PROVE  Recorded(p)
    BY DEF NothingStatedIsLost, Stated
  <2> DEFINE fs == SplitIntoFacts(text)
             specs == Keyed(fs)
             kept == Kept(text, specs)
  <2>1. Tiled(fs, text, Len(text)) /\ facts = UserFactSpecs(text)
    BY SplitTiles DEF CaptureInv
  <2>2. facts = IF kept = <<>> THEN <<Message>> ELSE kept
    BY <2>1 DEF UserFactSpecs
  <2> HIDE DEF fs
  <2>3. fs \in Seq(Fragment)
    BY <2>1 DEF Tiled
  <2>4. /\ specs \in Seq(FactSpec) /\ Len(specs) = Len(fs)
        /\ \A i \in 1..Len(fs) : specs[i].fragment = fs[i]
    BY <2>3, KeyedFragments
  <2> HIDE DEF specs
  <2>5. /\ kept \in Seq(FactSpec)
        /\ \A i \in 1..Len(specs) :
             WorthKeeping(text, specs[i].fragment) => \E k \in 1..Len(kept) : kept[k] = specs[i]
    BY <2>4, KeptSpecs
  <2> HIDE DEF kept
  <2>6. PICK n \in 1..Len(text) : \E k \in 1..Len(text[n].parts) : p = Position(n, k)
    BY DEF Positions
  <2>7. PICK k \in 1..Len(text[n].parts) : p = Position(n, k)
    BY <2>6
  <2>8. p[1] = n /\ p[2] = k /\ k \in Nat /\ k >= 1
    BY <2>7 DEF Position
  <2>9. PICK i \in 1..Len(fs) : Covers(fs[i], p)
    BY <2>1, <2>7 DEF Tiled
  <2>10. fs[i].sentence = n /\ fs[i].from <= k /\ k <= fs[i].to
    BY <2>8, <2>9 DEF Covers
  <2>11. /\ fs[i] \in Fragment /\ 1 <= fs[i].from
         /\ fs[i].to <= Len(text[n].parts) /\ Made(fs[i], text[n])
    BY <2>1, <2>3, <2>10 DEF Tiled
  <2>12. WorthKeeping(text, fs[i])
    <3>1. text[n] \in Sentences
      BY DEF CaptureInv
    <3> QED BY <2>8, <2>10, <2>11, <3>1, StatedIsKept
  <2>13. PICK j \in 1..Len(kept) : kept[j] = specs[i]
    BY <2>4, <2>5, <2>12
  <2>14. facts = kept
    BY <2>2, <2>5, <2>13
  <2>15. facts[j] # Message /\ facts[j].fragment = fs[i]
    BY <2>4, <2>5, <2>13, <2>14, FragmentNotMessage
  <2> QED BY <2>9, <2>14, <2>15 DEF Recorded
<1> QED BY <1>1, CaptureInductive, PTL

\* What is kept asserts something, counts something, or asks for something.
THEOREM FramingIsNotMemory == Spec => []NoFraming
<1>1. CaptureInv => NoFraming
  <2> SUFFICES ASSUME CaptureInv, NEW j \in 1..Len(facts), facts[j] # Message
               PROVE  LET f == facts[j].fragment
                          s == text[f.sentence]
                          said == Content(text, f)
                      IN  \/ \E k \in said : VerbAt[k] # {}
                          \/ said \cap Digit # {} /\ HasWord(text, f)
                          \/ f.to = Len(s.parts) /\ s.question
                          \/ said \cap (Opener \cup Goal) # {}
    BY DEF NoFraming
  <2> DEFINE fs == SplitIntoFacts(text)
             specs == Keyed(fs)
             kept == Kept(text, specs)
             f == facts[j].fragment
  <2>1. Captured
    BY DEF Captured
  <2>2. facts = IF kept = <<>> THEN <<Message>> ELSE kept
    BY <2>1 DEF CaptureInv, UserFactSpecs
  <2>3. Tiled(fs, text, Len(text)) /\ fs \in Seq(Fragment)
    BY SplitTiles DEF CaptureInv, Tiled
  <2> HIDE DEF fs
  <2>4. /\ specs \in Seq(FactSpec) /\ Len(specs) = Len(fs)
        /\ \A i \in 1..Len(fs) : specs[i].fragment = fs[i]
    BY <2>3, KeyedFragments
  <2> HIDE DEF specs
  <2>5. \A k \in 1..Len(kept) :
          \E i \in 1..Len(specs) : kept[k] = specs[i] /\ WorthKeeping(text, specs[i].fragment)
    BY <2>4, KeptSpecs
  <2> HIDE DEF kept
  <2>6. facts = kept
    <3>1. ASSUME facts = <<Message>> PROVE FALSE
      <4>1. Len(facts) = 1 /\ facts[1] = Message
        BY <3>1
      <4> QED BY <4>1
    <3> QED BY <2>2, <3>1
  <2>7. PICK i \in 1..Len(fs) : f = fs[i] /\ WorthKeeping(text, f)
    BY <2>4, <2>5, <2>6
  <2>8. f \in Fragment /\ f.from \in Nat /\ f.to \in Nat /\ f.from <= f.to
    BY <2>3, <2>7, Located DEF Tiled
  <2> HIDE DEF f
  <2>9. \A l \in f.from..f.to : text[f.sentence].parts[l] \in Content(text, f)
    BY DEF Content, PartsOf
  <2>10. f.label # <<>> => f.label[1] \in Content(text, f)
    <3>1. f.label \in Seq(PartKind)
      BY <2>8 DEF Fragment
    <3>2. f.label # <<>> => 1 \in 1..Len(f.label)
      BY <3>1
    <3> QED BY <3>2 DEF Content
  <2>11. CASE Substantive(text, f)
    <3>1. Clause(text, f) => \E k \in Content(text, f) : VerbAt[k] # {}
      BY <2>9, <2>10 DEF Clause
    <3> QED BY <2>11, <3>1 DEF Substantive, f
  <2>12. CASE IsDirective(text, f)
    <3>1. OpensAsDirective(text, f) => Content(text, f) \cap (Opener \cup Goal) # {}
      BY <2>8, <2>9, <2>10 DEF OpensAsDirective, Opening
    <3> QED BY <2>12, <3>1 DEF IsDirective, f
  <2> QED BY <2>7, <2>11, <2>12 DEF WorthKeeping
<1> QED BY <1>1, CaptureInductive, PTL
=============================================================================
