--------------------------- MODULE RecordsProofs ----------------------------
(***************************************************************************)
(* Proofs about Records and Listings: that listings of any length, without *)
(* a count and without marks between records, are cut up again as they     *)
(* were put together, and arrive over a connection.                        *)
(*                                                                         *)
(* Induction is over sets of numbers: a set with 0 and with the successor  *)
(* of each of its elements is Nat.                                         *)
(***************************************************************************)
EXTENDS Listings, WireProofs
LOCAL INSTANCE SequencesExt
Order == INSTANCE WellFoundedInduction

\* Records as the program makes them: an InstanceInfo and a Template.
IsInstance(i) ==
  /\ i = [id |-> i.id, templ |-> i.templ, memory |-> i.memory, cpus |-> i.cpus,
          sshPort |-> i.sshPort, running |-> i.running]
  /\ i.memory \in Numbers /\ i.cpus \in Numbers /\ i.sshPort \in Numbers
  /\ i.running \in BOOLEAN
IsTemplate(t) ==
  t = [name |-> t.name, description |-> t.description,
       kernelPath |-> t.kernelPath, rootfsPath |-> t.rootfsPath]

\* The values of a std::map, one for each key.
IsStore(s) ==
  /\ s \in Seq({s[k] : k \in DOMAIN s}) /\ \A k \in DOMAIN s : IsInstance(s[k])
  /\ \A j, k \in DOMAIN s : s[j].id = s[k].id => j = k
IsTemplates(s) ==
  /\ s \in Seq({s[k] : k \in DOMAIN s}) /\ \A k \in DOMAIN s : IsTemplate(s[k])
  /\ \A j, k \in DOMAIN s : s[j].name = s[k].name => j = k

\* Controllers with names of their own, so that no two full ids are the same.
IsCloud(c) ==
  /\ c \in Seq({c[k] : k \in DOMAIN c}) /\ \A k \in DOMAIN c : IsStore(c[k].instances)
  /\ \A k, l \in DOMAIN c : \A i \in DOMAIN c[k].instances, j \in DOMAIN c[l].instances :
       MakeFullId(c[k].name, c[k].instances[i].id) = MakeFullId(c[l].name, c[l].instances[j].id)
         => k = l /\ i = j

\* Stores, clouds, templates and orders as there are.
Kept ==
  /\ \A s \in Stores : IsStore(s)
  /\ \A c \in Clouds : IsCloud(c)
  /\ IsTemplates(Templates)
  /\ \A o \in Orders : /\ o = [templ |-> o.templ, memory |-> o.memory, cpus |-> o.cpus]
                       /\ o.memory \in Numbers /\ o.cpus \in Numbers

-----------------------------------------------------------------------------
(* Induction *)

\* A set of naturals that is not empty has a least element.
LEMMA Least ==
  ASSUME NEW T \in SUBSET Nat, T # {}
  PROVE  \E n \in T : \A k \in T : ~(k < n)
  <1> DEFINE R == {ss \in Nat \X Nat : ss[1] < ss[2]}
  <1>1. Order!IsWellFoundedOn(R, Nat)
    BY Order!NatLessThanWellFounded DEF Order!OpToRel
  <1>2. PICK n \in T : \A k \in T : ~(<<k, n>> \in R)
    <2> HIDE DEF R
    <2>1. QED
      BY <1>1, Order!WFMin
  <1>3. QED
    BY <1>2

\* Induction over the natural numbers.
LEMMA Induction ==
  ASSUME NEW S \in SUBSET Nat, 0 \in S, \A n \in S : n + 1 \in S
  PROVE  S = Nat
  <1>1. SUFFICES ASSUME Nat \ S # {} PROVE FALSE
    OBVIOUS
  <1>2. PICK n \in Nat \ S : \A k \in Nat \ S : ~(k < n)
    BY <1>1, Least
  <1>3. n # 0 /\ n - 1 \in Nat
    BY <1>2
  <1>4. n - 1 \in S
    BY <1>2, <1>3
  <1>5. QED
    BY <1>2, <1>4

-----------------------------------------------------------------------------
(* One sequence after the other *)

\* The first i of the sequences ss, one after the other, given those before.
Joined(ss, n, f) == [i \in 1 .. n |-> IF i = 1 THEN ss[i] ELSE f[i - 1] \o ss[i]]

\* FlattenSeq is what its recursion says, for as many sequences as there are.
LEMMA JoinedExists ==
  ASSUME NEW ss, NEW n \in Nat
  PROVE  \E f : f = Joined(ss, n, f)
  <1> DEFINE Ok == {m \in Nat : \E f : f = Joined(ss, m, f)}
  <1>1. 0 \in Ok
    <2>1. <<>> = Joined(ss, 0, <<>>)
      BY DEF Joined
    <2>2. QED
      BY <2>1
  <1>2. ASSUME NEW m \in Ok PROVE m + 1 \in Ok
    <2>1. PICK f : f = Joined(ss, m, f)
      OBVIOUS
    <2> DEFINE g == Joined(ss, m + 1, f)
    <2>2. \A i \in 1 .. m : f[i] = IF i = 1 THEN ss[i] ELSE f[i - 1] \o ss[i]
      BY <2>1 DEF Joined
    <2>3. /\ DOMAIN g = 1 .. m + 1
          /\ \A i \in 1 .. m + 1 : g[i] = IF i = 1 THEN ss[i] ELSE f[i - 1] \o ss[i]
          /\ g = [i \in 1 .. m + 1 |-> g[i]]
      BY DEF Joined
    <2> HIDE DEF g
    <2>n. m \in Nat
      OBVIOUS
    <2>4. ASSUME NEW i \in 1 .. m PROVE g[i] = f[i]
      <3>1. i \in 1 .. m + 1
        BY <2>n
      <3>2. QED
        BY <2>2, <2>3, <3>1
    <2>5. \A i \in 1 .. m + 1 : i # 1 => g[i - 1] = f[i - 1]
      BY <2>4, <2>n
    <2>6. \A i \in 1 .. m + 1 : g[i] = IF i = 1 THEN ss[i] ELSE g[i - 1] \o ss[i]
      BY <2>3, <2>5
    <2>7. g = Joined(ss, m + 1, g)
      BY <2>3, <2>6 DEF Joined
    <2>8. QED
      BY <2>7
  <1> HIDE DEF Ok
  <1>3. Ok = Nat
    <2>1. Ok \in SUBSET Nat
      BY DEF Ok
    <2>2. QED
      BY <1>1, <1>2, <2>1, Induction
  <1>4. QED
    BY <1>3 DEF Ok

\* FlattenSeq, without its recursion.
LEMMA Flattened ==
  ASSUME NEW ss, Len(ss) \in Nat
  PROVE  /\ Len(ss) = 0 => FlattenSeq(ss) = ss
         /\ Len(ss) # 0 => \E f : /\ FlattenSeq(ss) = f[Len(ss)] /\ f[1] = ss[1]
                                  /\ \A i \in 1 .. Len(ss) - 1 : f[i + 1] = f[i] \o ss[i + 1]
  <1>1. ASSUME Len(ss) = 0 PROVE FlattenSeq(ss) = ss
    BY <1>1 DEF FlattenSeq
  <1>2. ASSUME Len(ss) # 0
        PROVE  \E f : /\ FlattenSeq(ss) = f[Len(ss)] /\ f[1] = ss[1]
                      /\ \A i \in 1 .. Len(ss) - 1 : f[i + 1] = f[i] \o ss[i + 1]
    <2> DEFINE G(f) == [i \in 1 .. Len(ss) |-> IF i = 1 THEN ss[i] ELSE f[i - 1] \o ss[i]]
               g == CHOOSE f : f = G(f)
    <2>1. FlattenSeq(ss) = g[Len(ss)]
      BY <1>2 DEF FlattenSeq
    <2>2. \E f : f = G(f)
      BY JoinedExists DEF Joined
    <2>3. g = G(g)
      BY <2>2
    <2> HIDE DEF g
    <2>4. \A i \in 1 .. Len(ss) : g[i] = IF i = 1 THEN ss[i] ELSE g[i - 1] \o ss[i]
      BY <2>3
    <2>5. g[1] = ss[1]
      BY <1>2, <2>4
    <2>6. ASSUME NEW i \in 1 .. Len(ss) - 1 PROVE g[i + 1] = g[i] \o ss[i + 1]
      <3>1. i + 1 \in 1 .. Len(ss) /\ i + 1 # 1 /\ (i + 1) - 1 = i
        OBVIOUS
      <3>2. QED
        BY <2>4, <3>1
    <2>7. QED
      BY <2>1, <2>5, <2>6
  <1>3. QED
    BY <1>1, <1>2

\* In d the sequences ss, all of one size, are one after the other.
Blocks(d, ss, S, size) ==
  /\ d \in Seq(S) /\ Len(d) = size * Len(ss)
  /\ \A k \in 1 .. Len(ss), j \in 1 .. size : d[size * (k - 1) + j] = ss[k][j]

\* What stands behind a sequence in a concatenation.
LEMMA SecondPart ==
  ASSUME NEW S, NEW a \in Seq(S), NEW b \in Seq(S), NEW j \in 1 .. Len(b)
  PROVE  (a \o b)[Len(a) + j] = b[j]
  <1>1. Len(a) \in Nat /\ Len(b) \in Nat
    BY LenProperties
  <1>2. \A i \in 1 .. Len(a) + Len(b) : (a \o b)[i] = IF i <= Len(a) THEN a[i] ELSE b[i - Len(a)]
    BY ConcatProperties
  <1>3. /\ Len(a) + j \in 1 .. Len(a) + Len(b) /\ ~(Len(a) + j <= Len(a))
        /\ Len(a) + j - Len(a) = j
    BY <1>1
  <1>4. QED
    BY <1>2, <1>3

\* Sequences of one size, one after the other: where each of them is.
LEMMA FlatBlocks ==
  ASSUME NEW S, NEW size \in {4, 6}, NEW ss, ss \in Seq(Seq(S)),
         \A k \in 1 .. Len(ss) : Len(ss[k]) = size
  PROVE  Blocks(FlattenSeq(ss), ss, S, size)
  <1> DEFINE N == Len(ss)
  <1>1. N \in Nat /\ \A k \in 1 .. N : ss[k] \in Seq(S)
    BY LenProperties, ElementOfSeq
  <1>2. CASE N = 0
    <2>1. FlattenSeq(ss) = ss /\ ss = <<>>
      BY <1>1, <1>2, EmptySeq, Flattened
    <2>2. QED
      BY <1>2, <2>1, EmptySeq DEF Blocks
  <1>3. CASE N # 0
    <2>1. PICK f : /\ FlattenSeq(ss) = f[N] /\ f[1] = ss[1]
                   /\ \A i \in 1 .. N - 1 : f[i + 1] = f[i] \o ss[i + 1]
      BY <1>1, <1>3, Flattened
    <2> DEFINE Good(n) == /\ f[n] \in Seq(S) /\ Len(f[n]) = size * n
                          /\ \A k \in 1 .. n, j \in 1 .. size : f[n][size * (k - 1) + j] = ss[k][j]
               Ok == {n \in Nat : n + 1 <= N => Good(n + 1)}
    <2>2. 0 \in Ok
      <3>1. f[1] \in Seq(S) /\ Len(f[1]) = size
        BY <1>1, <1>3, <2>1
      <3>2. \A k \in 1 .. 1, j \in 1 .. size : size * (k - 1) + j = j /\ k = 1
        OBVIOUS
      <3>3. Good(1)
        BY <2>1, <3>1, <3>2
      <3>4. QED
        BY <3>3
    <2>3. ASSUME NEW n \in Ok PROVE n + 1 \in Ok
      <3>n. n \in Nat /\ n + 1 \in Nat /\ (n + 1) + 1 = n + 2 /\ (n + 1 <= N => Good(n + 1))
        <4> HIDE DEF Good
        <4>1. QED
          OBVIOUS
      <3>1. SUFFICES ASSUME n + 2 <= N PROVE Good(n + 2)
        <4> HIDE DEF Good
        <4>1. QED
          BY <3>n
      <3> DEFINE a == f[n + 1]
                 b == ss[n + 2]
      <3>2. /\ n \in Nat /\ a \in Seq(S) /\ Len(a) = size * (n + 1)
            /\ \A k \in 1 .. n + 1, j \in 1 .. size : a[size * (k - 1) + j] = ss[k][j]
        BY <1>1, <3>n, <3>1
      <3>3. b \in Seq(S) /\ Len(b) = size /\ f[n + 2] = a \o b
        <4>1. n + 1 \in 1 .. N - 1 /\ n + 2 \in 1 .. N /\ (n + 1) + 1 = n + 2
          BY <1>1, <3>1, <3>2
        <4>2. QED
          BY <1>1, <2>1, <4>1
      <3> HIDE DEF a, b
      <3>4. /\ a \o b \in Seq(S) /\ Len(a \o b) = Len(a) + Len(b)
            /\ \A i \in 1 .. Len(a) + Len(b) : (a \o b)[i] = IF i <= Len(a) THEN a[i] ELSE b[i - Len(a)]
        BY <3>2, <3>3, ConcatProperties
      <3>5. Len(a) + Len(b) = size * (n + 2)
        BY <3>2, <3>3
      <3>6. ASSUME NEW k \in 1 .. n + 2, NEW j \in 1 .. size
            PROVE  (a \o b)[size * (k - 1) + j] = ss[k][j]
        <4>1. CASE k = n + 2
          <5>1. size * (k - 1) = Len(a)
            <6>1. k - 1 = n + 1
              BY <3>n, <4>1
            <6>2. QED
              BY <3>2, <6>1
          <5>2. j \in 1 .. Len(b)
            BY <3>3, Zenon
          <5>3. (a \o b)[Len(a) + j] = b[j]
            <6>1. a \in Seq(S)
              BY <3>2, Zenon
            <6>2. b \in Seq(S)
              BY <3>3, Zenon
            <6>3. QED
              BY <5>2, <6>1, <6>2, SecondPart
          <5>4. b = ss[k]
            BY <4>1 DEF b
          <5>5. QED
            BY <5>1, <5>3, <5>4, Zenon
        <4>2. CASE k \in 1 .. n + 1
          <5>1. /\ size * (k - 1) + j \in 1 .. Len(a) + Len(b) /\ size * (k - 1) + j <= Len(a)
            BY <3>2, <3>3, <4>2
          <5>2. QED
            BY <3>2, <3>4, <4>2, <5>1
        <4>3. k = n + 2 \/ k \in 1 .. n + 1
          BY <3>n
        <4>4. QED
          BY <4>1, <4>2, <4>3
      <3>7. QED
        BY <3>3, <3>4, <3>5, <3>6
    <2> HIDE DEF Good, Ok
    <2>4. Ok = Nat
      <3>1. Ok \in SUBSET Nat
        BY DEF Ok
      <3>2. QED
        BY <2>2, <2>3, <3>1, Induction
    <2>5. N - 1 \in Nat /\ (N - 1) + 1 = N
      BY <1>1, <1>3
    <2>6. Good(N)
      <3>1. (N - 1) + 1 <= N => Good((N - 1) + 1)
        BY <2>4, <2>5 DEF Ok
      <3>2. QED
        BY <1>1, <2>5, <3>1
    <2>7. QED
      BY <2>1, <2>6 DEF Good, Blocks
  <1>4. QED
    BY <1>2, <1>3

\* Sequences of one size, one after the other, are cut up as they were.
LEMMA CutBack ==
  ASSUME NEW S, NEW size \in {4, 6}, NEW ss, ss \in Seq(Seq(S)),
         \A k \in 1 .. Len(ss) : Len(ss[k]) = size
  PROVE  Cut(FlattenSeq(ss), size) = ss
  <1>0. Blocks(FlattenSeq(ss), ss, S, size)
    BY FlatBlocks
  <1> DEFINE d == FlattenSeq(ss)
             n == Len(ss)
  <1>1. n \in Nat /\ \A k \in 1 .. n : ss[k] \in Seq(S)
    BY LenProperties, ElementOfSeq
  <1>2. /\ d \in Seq(S) /\ Len(d) = size * n
        /\ \A k \in 1 .. n, j \in 1 .. size : d[size * (k - 1) + j] = ss[k][j]
    BY <1>0 DEF Blocks
  <1> HIDE DEF d
  <1>3. (Len(d) + size - 1) \div size = n
    <2>1. CASE size = 4
      BY <1>1, <1>2, <2>1
    <2>2. CASE size = 6
      BY <1>1, <1>2, <2>2
    <2>3. QED
      BY <2>1, <2>2
  <1>4. ASSUME NEW k \in 1 .. n PROVE SubSeq(d, size * (k - 1) + 1, size * k) = ss[k]
    <2> DEFINE a == size * (k - 1) + 1
               b == size * k
               t == SubSeq(d, a, b)
    <2>0. \A i \in 1 .. Len(d) : d[i] \in S
      BY <1>2, ElementOfSeq
    <2>1. a \in 1 .. Len(d) /\ b \in 1 .. Len(d) /\ b - a + 1 = size /\ a <= b
      <3>1. CASE size = 4
        BY <1>1, <1>2, <3>1
      <3>2. CASE size = 6
        BY <1>1, <1>2, <3>2
      <3>3. QED
        BY <3>1, <3>2
    <2>2. t \in Seq(S) /\ Len(t) = size /\ \A j \in 1 .. size : t[j] = d[a + j - 1]
      <3> HIDE DEF a, b
      <3>1. \A i \in a .. b : d[i] \in S
        BY <1>1, <1>2, <2>0, <2>1
      <3>2. QED
        BY <2>1, <3>1, SubSeqProperties
    <2>3. ASSUME NEW j \in 1 .. size PROVE t[j] = ss[k][j]
      <3>1. a + j - 1 = size * (k - 1) + j
        BY <1>1
      <3>2. QED
        BY <1>2, <2>2, <3>1
    <2> HIDE DEF t
    <2>4. t = ss[k]
      BY <1>1, <2>2, <2>3, SeqEqual
    <2>5. QED
      BY <2>4 DEF t
  <1>5. ss = [k \in 1 .. n |-> ss[k]]
    BY <1>1
  <1>6. QED
    BY <1>3, <1>4, <1>5 DEF Cut, d

-----------------------------------------------------------------------------
(* Records *)

\* A record is read as it was written.
LEMMA InstanceBack ==
  ASSUME NEW i, IsInstance(i)
  PROVE  /\ DeserializeInstance(SerializeInstance(i)) = i
         /\ Len(SerializeInstance(i)) = 6
         /\ SerializeInstance(i) \in Seq({SerializeInstance(i)[j] : j \in 1 .. 6})
  <1> DEFINE d == SerializeInstance(i)
  <1>1. /\ d[1] = i.id /\ d[2] = i.templ /\ d[3] = ToString(i.memory) /\ d[4] = ToString(i.cpus)
        /\ d[5] = ToString(i.sshPort) /\ d[6] = IF i.running THEN "1" ELSE "0"
        /\ Len(d) = 6 /\ d = [j \in 1 .. 6 |-> d[j]]
    BY DEF SerializeInstance
  <1>2. \A n \in Numbers : Stoi(ToString(n)) = n
    BY RecordsAssumption
  <1>3. Stoi(d[3]) = i.memory /\ Stoi(d[4]) = i.cpus /\ Stoi(d[5]) = i.sshPort
    BY <1>1, <1>2 DEF IsInstance
  <1>4. (d[6] # "0") = i.running
    BY <1>1 DEF IsInstance
  <1> HIDE DEF d
  <1>5. DeserializeInstance(d) = i
    BY <1>1, <1>3, <1>4 DEF DeserializeInstance, IsInstance
  <1>6. d \in Seq({d[j] : j \in 1 .. 6})
    <2>1. \A j \in 1 .. 6 : d[j] \in {d[l] : l \in 1 .. 6}
      OBVIOUS
    <2>2. QED
      BY <1>1, <2>1, SeqDef
  <1>7. QED
    BY <1>1, <1>5, <1>6 DEF d

\* The same for a template, of four lines.
LEMMA TemplateBack ==
  ASSUME NEW t, IsTemplate(t)
  PROVE  /\ DeserializeTemplate(SerializeTemplate(t)) = t
         /\ Len(SerializeTemplate(t)) = 4
         /\ SerializeTemplate(t) \in Seq({SerializeTemplate(t)[j] : j \in 1 .. 4})
  <1> DEFINE d == SerializeTemplate(t)
  <1>1. /\ d[1] = t.name /\ d[2] = t.description /\ d[3] = t.kernelPath /\ d[4] = t.rootfsPath
        /\ Len(d) = 4 /\ d = [j \in 1 .. 4 |-> d[j]]
    BY DEF SerializeTemplate
  <1> HIDE DEF d
  <1>2. DeserializeTemplate(d) = t
    BY <1>1 DEF DeserializeTemplate, IsTemplate
  <1>3. d \in Seq({d[j] : j \in 1 .. 4})
    <2>1. \A j \in 1 .. 4 : d[j] \in {d[l] : l \in 1 .. 4}
      OBVIOUS
    <2>2. QED
      BY <1>1, <2>1, SeqDef
  <1>4. QED
    BY <1>1, <1>2, <1>3 DEF d

\* With keys of their own, the last record with a key is the one that has it.
LEMMA LastOne ==
  ASSUME NEW n \in Nat, NEW K \in SUBSET (1 .. n), NEW k \in K,
         \A i \in K : i = k
  PROVE  K # {} /\ Max(K) = k
  <1>1. K = {k}
    OBVIOUS
  <1>2. Max(K) = k
    BY <1>1 DEF Max
  <1>3. QED
    BY <1>1, <1>2

\* The map that a proxy makes of instances, and of templates.
ById(s)   == [id \in {s[k].id : k \in DOMAIN s} |-> s[SelectLastInSeq(s, LAMBDA i : i.id = id)]]
ByName(s) == [name \in {s[k].name : k \in DOMAIN s} |->
                s[SelectLastInSeq(s, LAMBDA t : t.name = name)]]

\* The instances of a listing, of any number, are read back.
LEMMA InstancesBack ==
  ASSUME NEW s, IsStore(s)
  PROVE  /\ DOMAIN ReadInstances(InstanceLines(s)) = {s[k].id : k \in DOMAIN s}
         /\ Shown(InstanceLines(s)) = InstanceLines(s)
         /\ \A k \in DOMAIN s : ReadInstances(InstanceLines(s))[s[k].id] = s[k]
  <1> DEFINE n  == Len(s)
             ss == [k \in DOMAIN s |-> SerializeInstance(s[k])]
             S  == UNION {{SerializeInstance(s[k])[j] : j \in 1 .. 6} : k \in DOMAIN s}
  <1>1. n \in Nat /\ DOMAIN s = 1 .. n /\ s = [k \in 1 .. n |-> s[k]]
    BY LenProperties DEF IsStore
  <1>2. \A k \in 1 .. n : IsInstance(s[k])
    BY <1>1 DEF IsStore
  <1>3. ASSUME NEW k \in 1 .. n PROVE ss[k] \in Seq(S) /\ Len(ss[k]) = 6
    <2> DEFINE T == {SerializeInstance(s[k])[j] : j \in 1 .. 6}
    <2>1. SerializeInstance(s[k]) \in Seq(T) /\ Len(SerializeInstance(s[k])) = 6
      BY <1>2, InstanceBack
    <2>2. T \subseteq S /\ ss[k] = SerializeInstance(s[k])
      BY <1>1
    <2> HIDE DEF T, S, ss
    <2>3. QED
      BY <2>1, <2>2, SeqMonotonic
  <1>4. ss \in Seq(Seq(S)) /\ Len(ss) = n
    <2>1. DOMAIN ss = 1 .. n /\ ss = [k \in 1 .. n |-> ss[k]]
      BY <1>1
    <2> HIDE DEF S, ss
    <2>2. ss \in [1 .. n -> Seq(S)]
      BY <1>3, <2>1
    <2>3. QED
      BY <1>1, <2>2, SeqDef
  <1>5. Cut(InstanceLines(s), 6) = ss
    <2>1. InstanceLines(s) = FlattenSeq(ss)
      BY DEF InstanceLines
    <2> HIDE DEF S, ss
    <2>2. QED
      BY <1>3, <1>4, <2>1, CutBack
  <1>l. Shown(InstanceLines(s)) = InstanceLines(s)
    <2>1. InstanceLines(s) = FlattenSeq(ss)
      BY DEF InstanceLines
    <2> HIDE DEF S, ss
    <2>2. Blocks(FlattenSeq(ss), ss, S, 6)
      BY <1>3, <1>4, FlatBlocks
    <2>3. Len(InstanceLines(s)) = 6 * n
      BY <1>4, <2>1, <2>2 DEF Blocks
    <2>4. Len(NoRecords) = 1
      BY DEF NoRecords
    <2>5. InstanceLines(s) # NoRecords
      BY <1>1, <2>3, <2>4
    <2>6. QED
      BY <2>5 DEF Shown, NoRecords
  <1>6. [k \in DOMAIN ss |-> DeserializeInstance(ss[k])] = s
    <2>1. ASSUME NEW k \in 1 .. n PROVE DeserializeInstance(ss[k]) = s[k]
      BY <1>1, <1>2, InstanceBack
    <2>2. DOMAIN ss = 1 .. n
      BY <1>1
    <2> HIDE DEF ss
    <2>3. QED
      BY <1>1, <2>1, <2>2
  <1> HIDE DEF S, ss
  <1>7. ReadInstances(InstanceLines(s)) = ById(s)
    <2> DEFINE c == Cut(InstanceLines(s), InstanceSize)
    <2>1. ReadInstances(InstanceLines(s)) = ById([k \in DOMAIN c |-> DeserializeInstance(c[k])])
      BY DEF ReadInstances, ById
    <2>2. [k \in DOMAIN c |-> DeserializeInstance(c[k])] = s
      BY <1>5, <1>6 DEF InstanceSize
    <2> HIDE DEF c
    <2>3. QED
      BY <2>1, <2>2
  <1>8. ASSUME NEW k \in DOMAIN s PROVE ReadInstances(InstanceLines(s))[s[k].id] = s[k]
    <2> DEFINE K == {i \in 1 .. n : s[i].id = s[k].id}
    <2>1. K # {} /\ Max(K) = k
      <3>1. K \in SUBSET (1 .. n) /\ k \in K /\ \A i \in K : i = k
        BY <1>1 DEF IsStore
      <3> HIDE DEF K
      <3>2. QED
        BY <1>1, <3>1, LastOne
    <2>2. SelectLastInSeq(s, LAMBDA i : i.id = s[k].id) = k
      BY <2>1 DEF SelectLastInSeq
    <2>3. QED
      BY <1>7, <2>2 DEF ById
  <1>9. QED
    BY <1>l, <1>7, <1>8 DEF ById

\* The templates of a listing, of any number, are read back.
LEMMA TemplatesBack ==
  ASSUME NEW s, IsTemplates(s)
  PROVE  /\ DOMAIN ReadTemplates(TemplateListing(s)) = {s[k].name : k \in DOMAIN s}
         /\ Shown(TemplateListing(s)) = TemplateListing(s)
         /\ \A k \in DOMAIN s : ReadTemplates(TemplateListing(s))[s[k].name] = s[k]
  <1> DEFINE n  == Len(s)
             ss == [k \in DOMAIN s |-> SerializeTemplate(s[k])]
             S  == UNION {{SerializeTemplate(s[k])[j] : j \in 1 .. 4} : k \in DOMAIN s}
  <1>1. n \in Nat /\ DOMAIN s = 1 .. n /\ s = [k \in 1 .. n |-> s[k]]
    BY LenProperties DEF IsTemplates
  <1>2. \A k \in 1 .. n : IsTemplate(s[k])
    BY <1>1 DEF IsTemplates
  <1>3. ASSUME NEW k \in 1 .. n PROVE ss[k] \in Seq(S) /\ Len(ss[k]) = 4
    <2> DEFINE T == {SerializeTemplate(s[k])[j] : j \in 1 .. 4}
    <2>1. SerializeTemplate(s[k]) \in Seq(T) /\ Len(SerializeTemplate(s[k])) = 4
      BY <1>2, TemplateBack
    <2>2. T \subseteq S /\ ss[k] = SerializeTemplate(s[k])
      BY <1>1
    <2> HIDE DEF T, S, ss
    <2>3. QED
      BY <2>1, <2>2, SeqMonotonic
  <1>4. ss \in Seq(Seq(S)) /\ Len(ss) = n
    <2>1. DOMAIN ss = 1 .. n /\ ss = [k \in 1 .. n |-> ss[k]]
      BY <1>1
    <2> HIDE DEF S, ss
    <2>2. ss \in [1 .. n -> Seq(S)]
      BY <1>3, <2>1
    <2>3. QED
      BY <1>1, <2>2, SeqDef
  <1>5. Cut(TemplateListing(s), 4) = ss
    <2>1. TemplateListing(s) = FlattenSeq(ss)
      BY DEF TemplateListing
    <2> HIDE DEF S, ss
    <2>2. QED
      BY <1>3, <1>4, <2>1, CutBack
  <1>l. Shown(TemplateListing(s)) = TemplateListing(s)
    <2>1. TemplateListing(s) = FlattenSeq(ss)
      BY DEF TemplateListing
    <2> HIDE DEF S, ss
    <2>2. Blocks(FlattenSeq(ss), ss, S, 4)
      BY <1>3, <1>4, FlatBlocks
    <2>3. Len(TemplateListing(s)) = 4 * n
      BY <1>4, <2>1, <2>2 DEF Blocks
    <2>4. Len(NoRecords) = 1
      BY DEF NoRecords
    <2>5. TemplateListing(s) # NoRecords
      BY <1>1, <2>3, <2>4
    <2>6. QED
      BY <2>5 DEF Shown, NoRecords
  <1>6. [k \in DOMAIN ss |-> DeserializeTemplate(ss[k])] = s
    <2>1. ASSUME NEW k \in 1 .. n PROVE DeserializeTemplate(ss[k]) = s[k]
      BY <1>1, <1>2, TemplateBack
    <2>2. DOMAIN ss = 1 .. n
      BY <1>1
    <2> HIDE DEF ss
    <2>3. QED
      BY <1>1, <2>1, <2>2
  <1> HIDE DEF S, ss
  <1>7. ReadTemplates(TemplateListing(s)) = ByName(s)
    <2> DEFINE c == Cut(TemplateListing(s), TemplateSize)
    <2>1. ReadTemplates(TemplateListing(s)) = ByName([k \in DOMAIN c |-> DeserializeTemplate(c[k])])
      BY DEF ReadTemplates, ByName
    <2>2. [k \in DOMAIN c |-> DeserializeTemplate(c[k])] = s
      BY <1>5, <1>6 DEF TemplateSize
    <2> HIDE DEF c
    <2>3. QED
      BY <2>1, <2>2
  <1>8. ASSUME NEW k \in DOMAIN s PROVE ReadTemplates(TemplateListing(s))[s[k].name] = s[k]
    <2> DEFINE K == {i \in 1 .. n : s[i].name = s[k].name}
    <2>1. K # {} /\ Max(K) = k
      <3>1. K \in SUBSET (1 .. n) /\ k \in K /\ \A i \in K : i = k
        BY <1>1 DEF IsTemplates
      <3> HIDE DEF K
      <3>2. QED
        BY <1>1, <3>1, LastOne
    <2>2. SelectLastInSeq(s, LAMBDA t : t.name = s[k].name) = k
      BY <2>1 DEF SelectLastInSeq
    <2>3. QED
      BY <1>7, <2>2 DEF ByName
  <1>9. QED
    BY <1>l, <1>7, <1>8 DEF ByName

-----------------------------------------------------------------------------
(* The listing of a manager *)

\* In d are all elements of the first n of the sequences ss, each once.
AllOf(d, ss, S, n) ==
  /\ d \in Seq(S)
  /\ \A p \in 1 .. Len(d) : \E k \in 1 .. n : \E i \in 1 .. Len(ss[k]) : d[p] = ss[k][i]
  /\ \A k \in 1 .. n : \A i \in 1 .. Len(ss[k]) : \E p \in 1 .. Len(d) : d[p] = ss[k][i]
  /\ \A p, q \in 1 .. Len(d) : d[p].id = d[q].id => p = q

\* No two elements of the sequences ss have the same id.
Apart(ss) ==
  \A k, l \in 1 .. Len(ss) : \A i \in 1 .. Len(ss[k]), j \in 1 .. Len(ss[l]) :
    ss[k][i].id = ss[l][j].id => k = l /\ i = j

\* One more sequence.
LEMMA OneMore ==
  ASSUME NEW S, NEW ss, ss \in Seq(Seq(S)), Apart(ss), NEW n \in 1 .. Len(ss) - 1,
         NEW a, AllOf(a, ss, S, n)
  PROVE  AllOf(a \o ss[n + 1], ss, S, n + 1)
  <1> DEFINE b == ss[n + 1]
             d == a \o b
             A == Len(a)
             B == Len(b)
  <1>0. Len(ss) \in Nat /\ n \in Nat /\ n + 1 \in 1 .. Len(ss)
    BY LenProperties
  <1>1. a \in Seq(S) /\ b \in Seq(S)
    BY <1>0, ElementOfSeq DEF AllOf
  <1>2. A \in Nat /\ B \in Nat
    BY <1>1, LenProperties
  <1>3. /\ d \in Seq(S) /\ Len(d) = A + B
        /\ \A p \in 1 .. A + B : d[p] = IF p <= A THEN a[p] ELSE b[p - A]
    BY <1>1, ConcatProperties
  <1> HIDE DEF b, d, A, B
  <1>4. ASSUME NEW p \in 1 .. A + B
        PROVE  \/ p \in 1 .. A /\ d[p] = a[p]
               \/ p - A \in 1 .. B /\ ~(p \in 1 .. A) /\ d[p] = b[p - A]
    BY <1>2, <1>3
  <1>5. ASSUME NEW p \in 1 .. A
        PROVE  \E k \in 1 .. n : \E i \in 1 .. Len(ss[k]) : d[p] = ss[k][i]
    <2>1. d[p] = a[p]
      BY <1>2, <1>3
    <2>2. \E k \in 1 .. n : \E i \in 1 .. Len(ss[k]) : a[p] = ss[k][i]
      BY DEF AllOf, A
    <2>3. QED
      BY <2>1, <2>2
  <1>6. ASSUME NEW p \in 1 .. A + B
        PROVE  \E k \in 1 .. n + 1 : \E i \in 1 .. Len(ss[k]) : d[p] = ss[k][i]
    <2>1. CASE p \in 1 .. A
      BY <1>0, <1>5, <2>1
    <2>2. CASE p - A \in 1 .. B /\ d[p] = b[p - A]
      BY <1>0, <2>2 DEF b, B
    <2>3. QED
      BY <1>4, <2>1, <2>2
  <1>7. ASSUME NEW k \in 1 .. n + 1, NEW i \in 1 .. Len(ss[k])
        PROVE  \E p \in 1 .. A + B : d[p] = ss[k][i]
    <2>1. CASE k \in 1 .. n
      <3>1. PICK p \in 1 .. A : a[p] = ss[k][i]
        BY <2>1 DEF AllOf, A
      <3>2. p \in 1 .. A + B /\ d[p] = a[p]
        BY <1>2, <1>3
      <3>3. QED
        BY <3>1, <3>2
    <2>2. CASE k = n + 1
      <3>1. i \in 1 .. B /\ ss[k][i] = b[i]
        BY <2>2 DEF b, B
      <3>2. A + i \in 1 .. A + B /\ ~(A + i <= A) /\ (A + i) - A = i
        BY <1>2, <3>1
      <3>3. d[A + i] = b[i]
        BY <1>3, <3>2
      <3>4. QED
        BY <3>1, <3>2, <3>3
    <2>3. QED
      BY <1>0, <2>1, <2>2
  <1>8. ASSUME NEW p \in 1 .. A, NEW q \in 1 .. B
        PROVE  a[p].id # b[q].id
    <2>1. PICK k \in 1 .. n : \E i \in 1 .. Len(ss[k]) : a[p] = ss[k][i]
      BY DEF AllOf, A
    <2>2. PICK i \in 1 .. Len(ss[k]) : a[p] = ss[k][i]
      BY <2>1
    <2>3. k # n + 1 /\ k \in 1 .. Len(ss)
      BY <1>0
    <2>4. q \in 1 .. Len(ss[n + 1])
      BY DEF B, b
    <2>5. ss[k][i].id # ss[n + 1][q].id
      BY <1>0, <2>3, <2>4 DEF Apart
    <2>6. QED
      BY <2>2, <2>5 DEF b
  <1>9. ASSUME NEW p \in 1 .. A + B, NEW q \in 1 .. A + B, d[p].id = d[q].id
        PROVE  p = q
    <2>1. CASE p \in 1 .. A /\ d[p] = a[p] /\ q \in 1 .. A /\ d[q] = a[q]
      BY <1>9, <2>1 DEF AllOf, A
    <2>2. CASE p - A \in 1 .. B /\ d[p] = b[p - A] /\ q - A \in 1 .. B /\ d[q] = b[q - A]
      <3>1. \A u, v \in 1 .. B : b[u].id = b[v].id => u = v
        BY <1>0 DEF Apart, b, B
      <3>2. p - A = q - A
        BY <1>9, <2>2, <3>1
      <3>3. QED
        BY <1>2, <3>2
    <2>3. QED
      BY <1>4, <1>8, <1>9, <2>1, <2>2
  <1>10. AllOf(d, ss, S, n + 1)
    BY <1>3, <1>6, <1>7, <1>9 DEF AllOf
  <1>11. QED
    BY <1>10 DEF d, b

\* FlattenSeq has all elements, each once.
LEMMA FlatAll ==
  ASSUME NEW S, NEW ss, ss \in Seq(Seq(S)), Apart(ss)
  PROVE  AllOf(FlattenSeq(ss), ss, S, Len(ss))
  <1> DEFINE N == Len(ss)
  <1>1. N \in Nat /\ \A k \in 1 .. N : ss[k] \in Seq(S)
    BY LenProperties, ElementOfSeq
  <1>2. CASE N = 0
    <2>1. FlattenSeq(ss) = ss /\ ss = <<>>
      BY <1>1, <1>2, EmptySeq, Flattened
    <2>2. FlattenSeq(ss) \in Seq(S) /\ Len(FlattenSeq(ss)) = 0
      BY <2>1, EmptySeq
    <2>3. QED
      BY <1>2, <2>2 DEF AllOf
  <1>3. CASE N # 0
    <2>1. PICK f : /\ FlattenSeq(ss) = f[N] /\ f[1] = ss[1]
                   /\ \A i \in 1 .. N - 1 : f[i + 1] = f[i] \o ss[i + 1]
      BY <1>1, <1>3, Flattened
    <2> DEFINE Ok == {n \in Nat : n + 1 <= N => AllOf(f[n + 1], ss, S, n + 1)}
    <2>2. 0 \in Ok
      <3>1. ss[1] \in Seq(S) /\ 1 \in 1 .. N
        BY <1>1, <1>3
      <3>2. AllOf(ss[1], ss, S, 1)
        BY <3>1 DEF AllOf, Apart
      <3>3. QED
        BY <2>1, <3>2
    <2>3. ASSUME NEW n \in Ok PROVE n + 1 \in Ok
      <3>1. n \in Nat /\ (n + 1 <= N => AllOf(f[n + 1], ss, S, n + 1))
        OBVIOUS
      <3>2. ASSUME (n + 1) + 1 <= N PROVE AllOf(f[(n + 1) + 1], ss, S, (n + 1) + 1)
        <4>1. n + 1 \in 1 .. N - 1 /\ AllOf(f[n + 1], ss, S, n + 1)
          BY <1>1, <3>1, <3>2
        <4>2. f[(n + 1) + 1] = f[n + 1] \o ss[(n + 1) + 1]
          BY <2>1, <4>1
        <4>3. QED
          BY <4>1, <4>2, OneMore
      <3>3. QED
        BY <3>1, <3>2
    <2> HIDE DEF Ok
    <2>4. Ok = Nat
      <3>1. Ok \in SUBSET Nat
        BY DEF Ok
      <3>2. QED
        BY <2>2, <2>3, <3>1, Induction
    <2>5. N - 1 \in Nat /\ (N - 1) + 1 = N /\ (N - 1) + 1 <= N
      BY <1>1, <1>3
    <2>6. AllOf(f[(N - 1) + 1], ss, S, (N - 1) + 1)
      BY <2>4, <2>5 DEF Ok
    <2>7. QED
      BY <2>1, <2>5, <2>6
  <1>4. QED
    BY <1>2, <1>3

\* The instance i of the controller c, as the manager names it.
FullInstance(c, i) == [i EXCEPT !.id = MakeFullId(c.name, @)]

\* The manager's instances, one after the other.
Merged(c) == FlattenSeq([k \in DOMAIN c |-> Renamed(c[k])])

\* What the manager puts together is a store again, and has the instances of all
\* controllers.
LEMMA MergedIs ==
  ASSUME NEW c, IsCloud(c)
  PROVE  /\ IsStore(Merged(c))
         /\ {Merged(c)[p] : p \in DOMAIN Merged(c)} =
              UNION {{FullInstance(c[k], c[k].instances[i]) : i \in DOMAIN c[k].instances}
                       : k \in DOMAIN c}
  <1> DEFINE n  == Len(c)
             ss == [k \in DOMAIN c |-> Renamed(c[k])]
             S  == UNION {{FullInstance(c[k], c[k].instances[i]) : i \in DOMAIN c[k].instances}
                            : k \in DOMAIN c}
             d  == Merged(c)
  <1>1. n \in Nat /\ DOMAIN c = 1 .. n
    BY LenProperties DEF IsCloud
  <1>2. ASSUME NEW k \in 1 .. n
        PROVE  /\ Len(c[k].instances) \in Nat /\ DOMAIN c[k].instances = 1 .. Len(c[k].instances)
               /\ ss[k] = [i \in 1 .. Len(c[k].instances) |-> FullInstance(c[k], c[k].instances[i])]
               /\ \A i \in 1 .. Len(c[k].instances) : IsInstance(c[k].instances[i])
    <2>1. IsStore(c[k].instances)
      BY <1>1 DEF IsCloud
    <2>2. /\ Len(c[k].instances) \in Nat /\ DOMAIN c[k].instances = 1 .. Len(c[k].instances)
          /\ \A i \in 1 .. Len(c[k].instances) : IsInstance(c[k].instances[i])
      BY <2>1, LenProperties DEF IsStore
    <2>3. ss[k] = Renamed(c[k])
      BY <1>1
    <2>4. QED
      BY <2>2, <2>3 DEF Renamed, FullInstance
  <1>3. ASSUME NEW k \in 1 .. n
        PROVE  /\ ss[k] \in Seq(S) /\ Len(ss[k]) = Len(c[k].instances)
               /\ \A i \in 1 .. Len(ss[k]) : ss[k][i] = FullInstance(c[k], c[k].instances[i])
    <2> DEFINE m == Len(c[k].instances)
    <2>1. m \in Nat /\ ss[k] = [i \in 1 .. m |-> FullInstance(c[k], c[k].instances[i])]
      BY <1>2
    <2>2. \A i \in 1 .. m : FullInstance(c[k], c[k].instances[i]) \in S
      BY <1>1, <1>2
    <2> HIDE DEF m, S, ss
    <2>3. ss[k] \in [1 .. m -> S]
      BY <2>1, <2>2
    <2>4. ss[k] \in Seq(S) /\ Len(ss[k]) = m
      BY <2>1, <2>3, SeqDef
    <2>5. QED
      BY <2>1, <2>4 DEF m
  <1>4. ss \in Seq(Seq(S)) /\ Len(ss) = n
    <2>1. DOMAIN ss = 1 .. n /\ ss = [k \in 1 .. n |-> ss[k]]
      BY <1>1
    <2> HIDE DEF S, ss
    <2>2. ss \in [1 .. n -> Seq(S)]
      BY <1>3, <2>1
    <2>3. QED
      BY <1>1, <2>2, SeqDef
  <1>5. ASSUME NEW k \in 1 .. n, NEW i \in 1 .. Len(ss[k])
        PROVE  /\ IsInstance(ss[k][i])
               /\ ss[k][i].id = MakeFullId(c[k].name, c[k].instances[i].id)
    <2>1. ss[k][i] = FullInstance(c[k], c[k].instances[i]) /\ IsInstance(c[k].instances[i])
      BY <1>2, <1>3
    <2> HIDE DEF ss
    <2>2. QED
      BY <2>1 DEF FullInstance, IsInstance
  <1>6. Apart(ss)
    <2> HIDE DEF ss, S
    <2>1. Len(ss) = n
      BY <1>4
    <2>2. SUFFICES ASSUME NEW k \in 1 .. n, NEW l \in 1 .. n,
                          NEW i \in 1 .. Len(ss[k]), NEW j \in 1 .. Len(ss[l]),
                          ss[k][i].id = ss[l][j].id
                   PROVE  k = l /\ i = j
      BY <2>1 DEF Apart
    <2>3. ss[k][i].id = MakeFullId(c[k].name, c[k].instances[i].id)
      BY <1>5
    <2>4. ss[l][j].id = MakeFullId(c[l].name, c[l].instances[j].id)
      BY <1>5
    <2>5. MakeFullId(c[k].name, c[k].instances[i].id) = MakeFullId(c[l].name, c[l].instances[j].id)
      BY <2>2, <2>3, <2>4
    <2>6. i \in DOMAIN c[k].instances
      BY <1>2, <1>3
    <2>7. j \in DOMAIN c[l].instances
      BY <1>2, <1>3
    <2>8. k \in DOMAIN c /\ l \in DOMAIN c
      BY <1>1
    <2>9. \A p, q \in DOMAIN c : \A x \in DOMAIN c[p].instances, y \in DOMAIN c[q].instances :
            MakeFullId(c[p].name, c[p].instances[x].id) = MakeFullId(c[q].name, c[q].instances[y].id)
              => p = q /\ x = y
      BY Zenon DEF IsCloud
    <2>10. \A x \in DOMAIN c[k].instances, y \in DOMAIN c[l].instances :
             MakeFullId(c[k].name, c[k].instances[x].id) = MakeFullId(c[l].name, c[l].instances[y].id)
               => k = l /\ x = y
      BY <2>8, <2>9, Zenon
    <2>11. QED
      BY <2>5, <2>6, <2>7, <2>10, Zenon
  <1>7. AllOf(d, ss, S, n)
    <2>1. d = FlattenSeq(ss)
      BY DEF Merged
    <2> HIDE DEF d, ss, S
    <2>2. QED
      BY <1>4, <1>6, <2>1, FlatAll
  <1> HIDE DEF d, ss
  <1>8. Len(d) \in Nat /\ DOMAIN d = 1 .. Len(d) /\ d \in Seq(S)
    BY <1>7, LenProperties DEF AllOf
  <1>9. IsStore(d)
    <2>1. d \in Seq({d[p] : p \in DOMAIN d})
      <3>1. d \in [1 .. Len(d) -> {d[p] : p \in DOMAIN d}]
        BY <1>8
      <3>2. QED
        BY <1>8, <3>1, SeqDef
    <2>2. ASSUME NEW p \in DOMAIN d PROVE IsInstance(d[p])
      <3>1. PICK k \in 1 .. n : \E i \in 1 .. Len(ss[k]) : d[p] = ss[k][i]
        BY <1>7, <1>8 DEF AllOf
      <3>2. QED
        BY <1>5, <3>1
    <2>3. \A p, q \in DOMAIN d : d[p].id = d[q].id => p = q
      BY <1>7, <1>8 DEF AllOf
    <2>4. QED
      BY <2>1, <2>2, <2>3 DEF IsStore
  <1>10. {d[p] : p \in DOMAIN d} = S
    <2>1. ASSUME NEW e \in S PROVE \E p \in DOMAIN d : d[p] = e
      <3>1. PICK k \in 1 .. n : e \in {FullInstance(c[k], c[k].instances[i]) : i \in DOMAIN c[k].instances}
        BY <1>1
      <3>2. PICK i \in 1 .. Len(ss[k]) : e = ss[k][i]
        BY <1>2, <1>3, <3>1
      <3>3. QED
        BY <1>7, <1>8, <3>2 DEF AllOf
    <2> HIDE DEF S
    <2>2. ASSUME NEW p \in DOMAIN d PROVE d[p] \in S
      BY <1>8, ElementOfSeq
    <2>3. QED
      BY <2>1, <2>2
  <1>11. QED
    BY <1>9, <1>10 DEF d

-----------------------------------------------------------------------------
(* Records on a connection *)

\* What an end has heard is what the other one said.
LEMMA Hears ==
  ASSUME WireInv
  PROVE  /\ heard["proxy"] # None => heard["proxy"] = Shown(said["handler"])
         /\ heard["handler"] # None => heard["handler"] = said["proxy"]
  BY DEF WireInv, Idle, Asking, Answering

\* A listing of the instances s is read as a map that holds them.
LEMMA StoreArrives ==
  ASSUME NEW s, IsStore(s)
  PROVE  /\ Holds(ReadInstances(Shown(InstanceLines(s))), ToSet(s), LAMBDA i : i.id)
         /\ Holds(ReadInstances(Shown(ControllerListing(s))), ToSet(s), LAMBDA i : i.id)
  <1>1. Holds(ReadInstances(InstanceLines(s)), ToSet(s), LAMBDA i : i.id)
    <2> DEFINE map == ReadInstances(InstanceLines(s))
    <2>1. DOMAIN map = {s[k].id : k \in DOMAIN s} /\ \A k \in DOMAIN s : map[s[k].id] = s[k]
      BY InstancesBack
    <2> HIDE DEF map
    <2>2. Holds(map, ToSet(s), LAMBDA i : i.id)
      BY <2>1 DEF Holds, ToSet
    <2>3. QED
      BY <2>2 DEF map
  <1>2. Shown(InstanceLines(s)) = InstanceLines(s)
    BY InstancesBack
  <1>3. Shown(ControllerListing(s)) = InstanceLines(s)
    <2>1. CASE s = <<>>
      <3>1. [k \in DOMAIN s |-> SerializeInstance(s[k])] = <<>>
        BY <2>1
      <3>2. FlattenSeq(<<>>) = <<>>
        BY Flattened, EmptySeq
      <3>3. InstanceLines(s) = <<>>
        BY <3>1, <3>2 DEF InstanceLines
      <3>4. Shown(ControllerListing(s)) = <<>>
        BY <2>1 DEF ControllerListing, Shown
      <3>5. QED
        BY <3>3, <3>4
    <2>2. CASE s # <<>>
      BY <1>2, <2>2 DEF ControllerListing
    <2>3. QED
      BY <2>1, <2>2
  <1>4. QED
    BY <1>1, <1>2, <1>3

\* The listing of a manager is read as a map that holds all instances.
LEMMA CloudArrives ==
  ASSUME NEW c, IsCloud(c)
  PROVE  Holds(ReadInstances(Shown(CloudListing(c))),
               UNION {{[i EXCEPT !.id = c[k].name \o "/" \o @] : i \in ToSet(c[k].instances)}
                        : k \in DOMAIN c},
               LAMBDA i : i.id)
  <1>1. CloudListing(c) = InstanceLines(Merged(c))
    BY DEF CloudListing, Merged
  <1>2. Holds(ReadInstances(Shown(CloudListing(c))), ToSet(Merged(c)), LAMBDA i : i.id)
    BY <1>1, MergedIs, StoreArrives
  <1>3. ToSet(Merged(c)) =
          UNION {{FullInstance(c[k], c[k].instances[i]) : i \in DOMAIN c[k].instances}
                   : k \in DOMAIN c}
    BY MergedIs DEF ToSet
  <1>4. ASSUME NEW k \in DOMAIN c
        PROVE  {FullInstance(c[k], c[k].instances[i]) : i \in DOMAIN c[k].instances} =
               {[i EXCEPT !.id = c[k].name \o "/" \o @] : i \in ToSet(c[k].instances)}
    BY DEF FullInstance, MakeFullId, ToSet
  <1>5. UNION {{FullInstance(c[k], c[k].instances[i]) : i \in DOMAIN c[k].instances}
                 : k \in DOMAIN c} =
        UNION {{[i EXCEPT !.id = c[k].name \o "/" \o @] : i \in ToSet(c[k].instances)}
                 : k \in DOMAIN c}
    <2> DEFINE F(k) == {FullInstance(c[k], c[k].instances[i]) : i \in DOMAIN c[k].instances}
               G(k) == {[i EXCEPT !.id = c[k].name \o "/" \o @] : i \in ToSet(c[k].instances)}
    <2>1. \A k \in DOMAIN c : F(k) = G(k)
      BY <1>4
    <2> HIDE DEF F, G
    <2>2. UNION {F(k) : k \in DOMAIN c} = UNION {G(k) : k \in DOMAIN c}
      BY <2>1
    <2>3. QED
      BY <2>2 DEF F, G
  <1>6. QED
    BY <1>2, <1>3, <1>5

\* The templates of a controller are read as a map that holds them.
LEMMA TemplatesArrive ==
  ASSUME NEW s, IsTemplates(s)
  PROVE  Holds(ReadTemplates(Shown(TemplateListing(s))), ToSet(s), LAMBDA t : t.name)
  <1> DEFINE map == ReadTemplates(TemplateListing(s))
  <1>1. DOMAIN map = {s[k].name : k \in DOMAIN s} /\ \A k \in DOMAIN s : map[s[k].name] = s[k]
    BY TemplatesBack
  <1>2. Shown(TemplateListing(s)) = TemplateListing(s)
    BY TemplatesBack
  <1> HIDE DEF map
  <1>3. Holds(map, ToSet(s), LAMBDA t : t.name)
    BY <1>1 DEF Holds, ToSet
  <1>4. QED
    BY <1>2, <1>3 DEF map

\* All but the first of one and more.
LEMMA TailOfMore ==
  ASSUME NEW S, NEW s \in Seq(S), NEW x
  PROVE  Tail(<<x>> \o s) = s
  <1> DEFINE T == S \cup {x}
             t == <<x>> \o s
  <1>1. s \in Seq(T) /\ <<x>> \in Seq(T) /\ Len(<<x>>) = 1
    BY SeqMonotonic
  <1>2. Len(s) \in Nat
    BY LenProperties
  <1> HIDE DEF T
  <1>3. /\ t \in Seq(T) /\ Len(t) = 1 + Len(s)
        /\ \A i \in 1 .. 1 + Len(s) : t[i] = IF i <= 1 THEN <<x>>[i] ELSE s[i - 1]
    BY <1>1, ConcatProperties
  <1> HIDE DEF t
  <1>4. t # <<>>
    BY <1>2, <1>3, EmptySeq
  <1>5. /\ Tail(t) \in Seq(T) /\ Len(Tail(t)) = Len(s)
        /\ \A i \in 1 .. Len(s) : Tail(t)[i] = t[i + 1]
    BY <1>2, <1>3, <1>4, HeadTailProperties
  <1>6. ASSUME NEW i \in 1 .. Len(s) PROVE Tail(t)[i] = s[i]
    <2>1. i + 1 \in 1 .. 1 + Len(s) /\ ~(i + 1 <= 1) /\ (i + 1) - 1 = i
      BY <1>2
    <2>2. QED
      BY <1>3, <1>5, <2>1
  <1>7. Tail(t) = s
    BY <1>1, <1>5, <1>6, SeqEqual
  <1>8. QED
    BY <1>7 DEF t

\* A controller reads the order of a client.
LEMMA OrderArrives ==
  ASSUME NEW o, o.memory \in Numbers, o.cpus \in Numbers
  PROVE  LET i == DeserializeInstance(Tail(InstantiateRequest(o.templ, o.memory, o.cpus)))
         IN  i.templ = o.templ /\ i.memory = o.memory /\ i.cpus = o.cpus
  <1> DEFINE r == [id |-> "0", templ |-> o.templ, memory |-> o.memory, cpus |-> o.cpus,
                   sshPort |-> 0, running |-> FALSE]
             d == SerializeInstance(r)
  <1>1. IsInstance(r)
    BY RecordsAssumption DEF IsInstance
  <1>2. DeserializeInstance(d) = r /\ d \in Seq({d[j] : j \in 1 .. 6})
    BY <1>1, InstanceBack
  <1>3. Tail(InstantiateRequest(o.templ, o.memory, o.cpus)) = d
    <2>1. Tail(<<"instantiate">> \o d) = d
      <3> HIDE DEF d
      <3>1. QED
        BY <1>2, TailOfMore
    <2>2. QED
      BY <2>1 DEF InstantiateRequest
  <1>4. r.templ = o.templ /\ r.memory = o.memory /\ r.cpus = o.cpus
    OBVIOUS
  <1> HIDE DEF d, r
  <1>5. DeserializeInstance(Tail(InstantiateRequest(o.templ, o.memory, o.cpus))) = r
    BY <1>2, <1>3
  <1>6. QED
    BY <1>4, <1>5

\* RecordsArriveCorrect: instances and templates of any number arrive as they are,
\* each once and under its key, and so does the order of a client, though no
\* message says how many records it has or where one ends.
THEOREM RecordsArriveCorrect ==
  ASSUME Framed, Kept
  PROVE  Spec => []RecordsArrive
  <1>1. ASSUME WireInv PROVE RecordsArrive
    <2> DEFINE p == heard["proxy"]
               h == heard["handler"]
    <2>1. ASSUME p # None
          PROVE  /\ \A s \in Stores : said["handler"] = ControllerListing(s) =>
                      Holds(ReadInstances(p), ToSet(s), LAMBDA i : i.id)
                 /\ \A c \in Clouds : said["handler"] = CloudListing(c) =>
                      Holds(ReadInstances(p),
                            UNION {{[i EXCEPT !.id = c[k].name \o "/" \o @]
                                      : i \in ToSet(c[k].instances)} : k \in DOMAIN c},
                            LAMBDA i : i.id)
                 /\ said["handler"] = TemplateListing(Templates) =>
                      Holds(ReadTemplates(p), ToSet(Templates), LAMBDA t : t.name)
      <3>1. p = Shown(said["handler"])
        BY <1>1, <2>1, Hears
      <3> HIDE DEF p
      <3>2. ASSUME NEW s \in Stores, said["handler"] = ControllerListing(s)
            PROVE  Holds(ReadInstances(p), ToSet(s), LAMBDA i : i.id)
        <4>1. IsStore(s)
          BY DEF Kept
        <4>2. p = Shown(ControllerListing(s))
          BY <3>1, <3>2
        <4>3. Holds(ReadInstances(Shown(ControllerListing(s))), ToSet(s), LAMBDA i : i.id)
          BY <4>1, StoreArrives
        <4>4. QED
          BY <4>2, <4>3
      <3>3. ASSUME NEW c \in Clouds, said["handler"] = CloudListing(c)
            PROVE  Holds(ReadInstances(p),
                         UNION {{[i EXCEPT !.id = c[k].name \o "/" \o @]
                                   : i \in ToSet(c[k].instances)} : k \in DOMAIN c},
                         LAMBDA i : i.id)
        <4>1. IsCloud(c)
          BY DEF Kept
        <4>2. p = Shown(CloudListing(c))
          BY <3>1, <3>3
        <4>3. QED
          BY <4>1, <4>2, CloudArrives
      <3>4. ASSUME said["handler"] = TemplateListing(Templates)
            PROVE  Holds(ReadTemplates(p), ToSet(Templates), LAMBDA t : t.name)
        <4>1. IsTemplates(Templates)
          BY DEF Kept
        <4>2. p = Shown(TemplateListing(Templates))
          BY <3>1, <3>4
        <4>3. QED
          BY <4>1, <4>2, TemplatesArrive
      <3>5. QED
        BY <3>2, <3>3, <3>4
    <2>2. ASSUME h # None, NEW o \in Orders,
                 said["proxy"] = InstantiateRequest(o.templ, o.memory, o.cpus)
          PROVE  LET i == DeserializeInstance(Tail(h)) IN
                 [templ |-> i.templ, memory |-> i.memory, cpus |-> i.cpus] = o
      <3>1. h = InstantiateRequest(o.templ, o.memory, o.cpus)
        BY <1>1, <2>2, Hears
      <3>2. /\ o = [templ |-> o.templ, memory |-> o.memory, cpus |-> o.cpus]
            /\ o.memory \in Numbers /\ o.cpus \in Numbers
        BY DEF Kept
      <3> HIDE DEF h
      <3> DEFINE i == DeserializeInstance(Tail(h))
      <3>3. i.templ = o.templ /\ i.memory = o.memory /\ i.cpus = o.cpus
        BY <3>1, <3>2, OrderArrives
      <3> HIDE DEF i
      <3>4. [templ |-> i.templ, memory |-> i.memory, cpus |-> i.cpus] = o
        BY <3>2, <3>3
      <3>5. QED
        BY <3>4 DEF i
    <2>3. QED
      BY <2>1, <2>2 DEF RecordsArrive
  <1>2. WireInv => RecordsArrive
    BY <1>1
  <1>3. WireInv /\ [Next]_vars => WireInv'
    BY WireStep
  <1>4. QED
    BY WireInit, <1>2, <1>3, PTL DEF Spec

=============================================================================
