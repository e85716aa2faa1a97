------------------------- MODULE CodecSelection_proofs -------------------------
(***************************************************************************)
(* Proofs about CodecSelection, for every machine, every command line and  *)
(* whatever the libraries on it list: the lists that preferences and       *)
(* capabilities are made of, what merging capabilities one after another   *)
(* says of each direction and codec, that each capability makes what it    *)
(* lists, and an invariant from which the four properties follow.          *)
(***************************************************************************)
EXTENDS CodecSelection, FiniteSetTheorems, TLAPS

\* The fold that FlattenSeq is.
Joining == INSTANCE Folding WITH Op <- LAMBDA all, s : all \o s

-----------------------------------------------------------------------------
(* Lists                                                                   *)

\* The elements of a sequence.
LEMMA Elements ==
  ASSUME NEW S, NEW s \in Seq(S)
  PROVE  /\ Len(s) \in Nat /\ DOMAIN s = 1..Len(s) /\ s = [i \in 1..Len(s) |-> s[i]]
         /\ ToSet(s) \in SUBSET S /\ \A i \in DOMAIN s : s[i] \in S /\ s[i] \in ToSet(s)
         /\ \A x \in ToSet(s) : \E i \in DOMAIN s : s[i] = x
BY DEF ToSet

\* A sequence of no element is empty, one of some element is not.
LEMMA NoElement ==
  ASSUME NEW S, NEW s \in Seq(S)
  PROVE  s = <<>> <=> ToSet(s) = {}
BY DEF ToSet

\* The elements of two sequences in one.
LEMMA Joined ==
  ASSUME NEW S, NEW s \in Seq(S), NEW r \in Seq(S)
  PROVE  s \o r \in Seq(S) /\ ToSet(s \o r) = ToSet(s) \cup ToSet(r)
<1>1. /\ s \o r \in Seq(S) /\ Len(s \o r) = Len(s) + Len(r)
      /\ \A i \in 1..Len(s) : (s \o r)[i] = s[i]
      /\ \A i \in 1..Len(r) : (s \o r)[Len(s) + i] = r[i]
      /\ Len(s) \in Nat /\ Len(r) \in Nat
  OBVIOUS
<1>2. \A i \in 1..Len(s) + Len(r) :
        i \in 1..Len(s) \/ (i - Len(s) \in 1..Len(r) /\ i = Len(s) + (i - Len(s)))
  BY <1>1
<1>3. ASSUME NEW x \in ToSet(s \o r) PROVE x \in ToSet(s) \cup ToSet(r)
  <2>1. PICK i \in 1..Len(s) + Len(r) : x = (s \o r)[i]
    BY <1>1 DEF ToSet
  <2>2. CASE i \in 1..Len(s)
    BY <1>1, <2>1, <2>2 DEF ToSet
  <2>3. CASE i - Len(s) \in 1..Len(r)
    BY <1>1, <1>2, <2>1, <2>3 DEF ToSet
  <2> QED BY <1>2, <2>2, <2>3
<1>4. ASSUME NEW x \in ToSet(s) PROVE x \in ToSet(s \o r)
  <2>1. PICK i \in 1..Len(s) : x = s[i]
    BY Elements, Zenon
  <2>2. i \in 1..Len(s \o r) /\ (s \o r)[i] = x
    BY <1>1, <2>1
  <2> QED BY <1>1, <2>2, Elements, Zenon
<1>5. ASSUME NEW x \in ToSet(r) PROVE x \in ToSet(s \o r)
  <2>1. PICK i \in 1..Len(r) : x = r[i]
    BY Elements, Zenon
  <2>2. Len(s) + i \in 1..Len(s \o r) /\ (s \o r)[Len(s) + i] = x
    BY <1>1, <2>1
  <2> QED BY <1>1, <2>2, Elements, Zenon
<1> QED BY <1>1, <1>3, <1>4, <1>5

\* One more element.
LEMMA Appended ==
  ASSUME NEW S, NEW s \in Seq(S), NEW x \in S
  PROVE  /\ Append(s, x) \in Seq(S) /\ Len(Append(s, x)) = Len(s) + 1
         /\ \A i \in 1..Len(s) : Append(s, x)[i] = s[i]
         /\ Append(s, x)[Len(s) + 1] = x
         /\ ToSet(Append(s, x)) = ToSet(s) \cup {x}
<1>1. Append(s, x) = s \o <<x>> /\ <<x>> \in Seq(S)
  OBVIOUS
<1>2. ToSet(<<x>>) = {x}
  BY DEF ToSet
<1>7. s \o <<x>> \in Seq(S) /\ ToSet(s \o <<x>>) = ToSet(s) \cup ToSet(<<x>>)
  BY <1>1, Joined, Zenon
<1>3. Append(s, x) \in Seq(S) /\ ToSet(Append(s, x)) = ToSet(s) \cup {x}
  BY <1>1, <1>2, <1>7, Zenon
<1>4. Len(s) \in Nat /\ Len(Append(s, x)) = Len(s) + 1
  OBVIOUS
<1>5. \A i \in 1..Len(s) : Append(s, x)[i] = s[i]
  BY <1>4
<1>6. Append(s, x)[Len(s) + 1] = x
  BY <1>4
<1> QED BY <1>3, <1>4, <1>5, <1>6

\* FlattenSeq is the fold of joining.
LEMMA FlattenJoins ==
  ASSUME NEW S, NEW n \in Nat, NEW q \in [1..n -> Seq(S)]
  PROVE  \E f : /\ Joining!Runs(f, q, <<>>, n)
                /\ FlattenSeq(q) = f[n]
                /\ \A k \in 0..n : f[k] \in Seq(S)
<1>1. PICK f : Joining!Runs(f, q, <<>>, n)
  BY Joining!FoldRuns
<1>2. f[0] = <<>> /\ \A k \in 1..n : f[k] = f[k - 1] \o q[k]
  BY <1>1 DEF Joining!Runs
<1> DEFINE T == {k \in Nat : k <= n => f[k] \in Seq(S)}
<1>3. \A k \in Nat : k \in T
  <2>1. 0 \in T
    <3>1. f[0] \in Seq(S)
      BY <1>2
    <3> HIDE <1>2
    <3> QED BY <3>1
  <2>2. ASSUME NEW k \in Nat, k \in T PROVE k + 1 \in T
    <3>1. CASE k + 1 <= n
      <4>1. k + 1 \in 1..n /\ (k + 1) - 1 = k /\ f[k] \in Seq(S)
        BY <3>1, <2>2
      <4>2. f[k + 1] = f[k] \o q[k + 1] /\ q[k + 1] \in Seq(S)
        BY <4>1, <1>2
      <4>3. f[k + 1] \in Seq(S)
        BY <4>1, <4>2, Joined
      <4> QED BY <4>3
    <3> QED BY <3>1
  <2> HIDE DEF T
  <2> QED BY <2>1, <2>2, Joining!Induction
<1>4. \A k \in 0..n : f[k] \in Seq(S)
  BY <1>3
<1>5. q \in Seq(Seq(S)) /\ Len(q) = n
  OBVIOUS
<1>6. CASE n = 0
  <2>1. q = <<>>
    BY <1>5, <1>6
  <2>2. FlattenSeq(q) = q
    BY <1>5, <1>6 DEF FlattenSeq
  <2> QED BY <1>1, <1>2, <1>4, <1>6, <2>1, <2>2
<1>7. CASE n # 0
  <2> DEFINE Flattens(h) == h = [i \in 1..n |-> IF i = 1 THEN q[i] ELSE h[i - 1] \o q[i]]
             g == [i \in 1..n |-> f[i]]
             c == CHOOSE h : Flattens(h)
  <2>1. Flattens(g)
    <3>1. ASSUME NEW i \in 1..n PROVE f[i] = IF i = 1 THEN q[i] ELSE g[i - 1] \o q[i]
      <4>1. f[i] = f[i - 1] \o q[i]
        BY <1>2
      <4>2. CASE i = 1
        BY <4>1, <4>2, <1>2, q[i] \in Seq(S)
      <4>3. CASE i # 1
        <5>1. i - 1 \in 1..n
          BY <4>3
        <5> QED BY <4>1, <4>3, <5>1
      <4> QED BY <4>2, <4>3
    <3> QED BY <3>1
  <2>2. Flattens(c)
    BY <2>1
  <2>3. FlattenSeq(q) = c[n]
    BY <1>5, <1>7 DEF FlattenSeq
  <2> HIDE DEF c
  <2>4. \A i \in 1..n : c[i] = IF i = 1 THEN q[i] ELSE c[i - 1] \o q[i]
    BY <2>2
  <2> DEFINE U == {k \in Nat : k + 1 <= n => c[k + 1] = f[k + 1]}
  <2>5. 0 \in U
    <3>1. 1 \in 1..n /\ 1 - 1 = 0
      BY <1>7
    <3>2. c[1] = q[1] /\ f[1] = <<>> \o q[1] /\ q[1] \in Seq(S)
      BY <3>1, <1>2, <2>4
    <3>3. f[1] = q[1]
      BY <3>2
    <3> QED BY <3>2, <3>3
  <2>6. ASSUME NEW k \in Nat, k \in U PROVE k + 1 \in U
    <3>1. CASE (k + 1) + 1 <= n
      <4> DEFINE m == (k + 1) + 1
      <4>1. m \in 1..n /\ m # 1 /\ m - 1 = k + 1 /\ k + 1 <= n
        BY <3>1
      <4>2. c[k + 1] = f[k + 1]
        BY <4>1, <2>6
      <4> HIDE DEF m
      <4>3. c[m] = c[k + 1] \o q[m] /\ f[m] = f[k + 1] \o q[m]
        BY <4>1, <2>4, <1>2
      <4>4. c[m] = f[m]
        BY <4>2, <4>3
      <4> QED BY <4>4 DEF m
    <3> QED BY <3>1
  <2> HIDE DEF U
  <2>7. n - 1 \in U
    BY <1>7, <2>5, <2>6, n - 1 \in Nat, Joining!Induction
  <2>8. c[n] = f[n]
    BY <2>7, <1>7 DEF U
  <2> QED BY <1>1, <1>4, <2>3, <2>8
<1> QED BY <1>6, <1>7

\* FlattenSeq has the elements of all.
LEMMA Flattened ==
  ASSUME NEW S, NEW n \in Nat, NEW q \in [1..n -> Seq(S)]
  PROVE  /\ FlattenSeq(q) \in Seq(S)
         /\ ToSet(FlattenSeq(q)) = UNION {ToSet(q[i]) : i \in 1..n}
<1>1. PICK f : /\ Joining!Runs(f, q, <<>>, n)
               /\ FlattenSeq(q) = f[n]
               /\ \A k \in 0..n : f[k] \in Seq(S)
  BY FlattenJoins
<1>2. f[0] = <<>> /\ \A k \in 1..n : f[k] = f[k - 1] \o q[k]
  BY <1>1 DEF Joining!Runs
<1> DEFINE T == {k \in Nat : k <= n => ToSet(f[k]) = UNION {ToSet(q[i]) : i \in 1..k}}
<1>3. 0 \in T
  <2>1. ToSet(f[0]) = {}
    BY <1>2 DEF ToSet
  <2> QED BY <2>1
<1>4. ASSUME NEW k \in Nat, k \in T PROVE k + 1 \in T
  <2>1. CASE k + 1 <= n
    <3>1. k + 1 \in 1..n /\ (k + 1) - 1 = k /\ k \in 0..n
      BY <2>1
    <3>5. f[k] \in Seq(S) /\ q[k + 1] \in Seq(S) /\ f[k + 1] = f[k] \o q[k + 1]
      BY <1>1, <1>2, <3>1
    <3>2. ToSet(f[k + 1]) = ToSet(f[k]) \cup ToSet(q[k + 1])
      BY <3>5, Joined
    <3>3. ToSet(f[k]) = UNION {ToSet(q[i]) : i \in 1..k}
      BY <1>4, <3>1
    <3>4. 1..k + 1 = (1..k) \cup {k + 1}
      OBVIOUS
    <3>6. ToSet(f[k + 1]) = UNION {ToSet(q[i]) : i \in 1..k + 1}
      BY <3>2, <3>3, <3>4
    <3> QED BY <3>6
  <2> QED BY <2>1
<1> HIDE DEF T
<1>5. n \in T
  BY <1>3, <1>4, Joining!Induction
<1>6. ToSet(f[n]) = UNION {ToSet(q[i]) : i \in 1..n}
  BY <1>5 DEF T
<1> QED BY <1>1, <1>6

\* Keeping the elements that are in T.
LEMMA KeptElements ==
  ASSUME NEW S, NEW s \in Seq(S), NEW T
  PROVE  LET kept == FlattenSeq([i \in DOMAIN s |-> IF s[i] \in T THEN <<s[i]>> ELSE <<>>])
         IN  kept \in Seq(S) /\ ToSet(kept) = ToSet(s) \cap T
<1> DEFINE q == [i \in DOMAIN s |-> IF s[i] \in T THEN <<s[i]>> ELSE <<>>]
<1>1. Len(s) \in Nat /\ DOMAIN s = 1..Len(s) /\ \A i \in DOMAIN s : s[i] \in S
  OBVIOUS
<1>2. q \in [1..Len(s) -> Seq(S)]
  BY <1>1
<1>3. FlattenSeq(q) \in Seq(S) /\ ToSet(FlattenSeq(q)) = UNION {ToSet(q[i]) : i \in 1..Len(s)}
  BY <1>1, <1>2, Flattened
<1>4. \A i \in 1..Len(s) : ToSet(q[i]) = {s[i]} \cap T
  BY <1>1 DEF ToSet
<1>5. ToSet(s) = {s[i] : i \in 1..Len(s)}
  BY <1>1 DEF ToSet
<1>6. UNION {ToSet(q[i]) : i \in 1..Len(s)} = ToSet(s) \cap T
  <2> HIDE DEF q
  <2> QED BY <1>4, <1>5
<1> QED BY <1>3, <1>6

-----------------------------------------------------------------------------
(* Preferences                                                             *)

Codecs == {"VP8", "VP9", "H264", "H265", "AV1", "Generic", "opus", "ISAC", "G722", "PCMA", "PCMU"}

EntryType == [direction : {"encoder", "decoder"}, codec : Codecs, implementation : ImplementationNames]

SameKey(a, b) == a.direction = b.direction /\ a.codec = b.codec

\* A direction and a codec has one entry at most.
OnePerKey(p) == \A i, j \in DOMAIN p : SameKey(p[i], p[j]) => i = j

\* The entries, of any implementation, that the direction and codec of e have.
Place(p, e) == SelectInSeq(p, LAMBDA x : x.direction = e.direction /\ x.codec = e.codec)

\* One step of a merge.
MergeEntry(merged, e) ==
  IF Place(merged, e) = 0 THEN Append(merged, e)
  ELSE [merged EXCEPT ![Place(merged, e)].implementation = e.implementation]

Merging == INSTANCE Folding WITH Op <- MergeEntry

\* The least of a set of indices is its Min.
LEMMA MinIsLeast ==
  ASSUME NEW I \in SUBSET Nat, I # {}
  PROVE  Min(I) \in I /\ \A i \in I : Min(I) <= i
<1>1. PICK m \in I : \A x \in I : m <= x
  BY Joining!LeastNumber
<1> QED BY <1>1 DEF Min

\* Where the first entry of a direction and codec is.
LEMMA PlaceFacts ==
  ASSUME NEW S, NEW p \in Seq(S), NEW e
  PROVE  /\ Place(p, e) \in 0..Len(p)
         /\ Place(p, e) = 0 => \A i \in DOMAIN p : ~SameKey(p[i], e)
         /\ Place(p, e) # 0 => /\ Place(p, e) \in DOMAIN p
                               /\ SameKey(p[Place(p, e)], e)
                               /\ \A i \in DOMAIN p : SameKey(p[i], e) => Place(p, e) <= i
<1> DEFINE I == {i \in 1..Len(p) : p[i].direction = e.direction /\ p[i].codec = e.codec}
<1>1. Place(p, e) = IF I # {} THEN Min(I) ELSE 0
  BY DEF Place, SelectInSeq
<1>2. Len(p) \in Nat /\ DOMAIN p = 1..Len(p)
  OBVIOUS
<1>3. CASE I = {}
  BY <1>1, <1>2, <1>3 DEF SameKey
<1>4. CASE I # {}
  <2>1. Min(I) \in I /\ \A i \in I : Min(I) <= i
    BY <1>2, <1>4, MinIsLeast, I \in SUBSET Nat
  <2> QED BY <1>1, <1>2, <1>4, <2>1 DEF SameKey
<1> QED BY <1>3, <1>4

\* An entry is what it says.
LEMMA EntryIs ==
  ASSUME NEW a \in EntryType, NEW b \in EntryType
  PROVE  /\ a = [direction |-> a.direction, codec |-> a.codec, implementation |-> a.implementation]
         /\ SameKey(a, b) => [a EXCEPT !.implementation = b.implementation] = b
<1>1. a = [direction |-> a.direction, codec |-> a.codec, implementation |-> a.implementation]
  BY DEF EntryType
<1>2. b = [direction |-> b.direction, codec |-> b.codec, implementation |-> b.implementation]
  BY DEF EntryType
<1>3. [a EXCEPT !.implementation = b.implementation]
        = [direction |-> a.direction, codec |-> a.codec, implementation |-> b.implementation]
  BY <1>1
<1> QED BY <1>1, <1>2, <1>3 DEF SameKey

\* Merging an entry replaces that of its direction and codec, or adds it.
LEMMA EntryMerges ==
  ASSUME NEW p \in Seq(EntryType), OnePerKey(p), NEW e \in EntryType
  PROVE  /\ MergeEntry(p, e) \in Seq(EntryType)
         /\ OnePerKey(MergeEntry(p, e))
         /\ ToSet(MergeEntry(p, e)) = {x \in ToSet(p) : ~SameKey(x, e)} \cup {e}
<1> DEFINE at == Place(p, e)
           q == MergeEntry(p, e)
<1>1. Len(p) \in Nat /\ DOMAIN p = 1..Len(p) /\ \A i \in DOMAIN p : p[i] \in EntryType
  OBVIOUS
<1>2. /\ at \in 0..Len(p)
      /\ at = 0 => \A i \in DOMAIN p : ~SameKey(p[i], e)
      /\ at # 0 => at \in DOMAIN p /\ SameKey(p[at], e)
  BY PlaceFacts, Zenon
<1> HIDE DEF at
<1>3. CASE at = 0
  <2>1. q = Append(p, e)
    BY <1>3 DEF at, MergeEntry
  <2>2. /\ q \in Seq(EntryType) /\ Len(q) = Len(p) + 1
        /\ \A i \in 1..Len(p) : q[i] = p[i]
        /\ q[Len(p) + 1] = e
        /\ ToSet(q) = ToSet(p) \cup {e}
    BY <2>1, Appended
  <2>3. \A x \in ToSet(p) : ~SameKey(x, e)
    BY <1>2, <1>3 DEF ToSet
  <2>4. DOMAIN q = 1..Len(p) + 1
    BY <2>2
  <2> HIDE DEF q
  <2>5. OnePerKey(q)
    <3> SUFFICES ASSUME NEW i \in 1..Len(p) + 1, NEW j \in 1..Len(p) + 1, SameKey(q[i], q[j])
                 PROVE  i = j
      BY <2>4 DEF OnePerKey
    <3>1. CASE i \in 1..Len(p) /\ j \in 1..Len(p)
      BY <3>1, <1>1, <2>2 DEF OnePerKey
    <3>2. CASE i = Len(p) + 1 /\ j \in 1..Len(p)
      BY <3>2, <1>1, <1>2, <1>3, <2>2 DEF SameKey
    <3>3. CASE j = Len(p) + 1 /\ i \in 1..Len(p)
      BY <3>3, <1>1, <1>2, <1>3, <2>2 DEF SameKey
    <3> QED BY <1>1, <3>1, <3>2, <3>3
  <2>6. ToSet(q) = {x \in ToSet(p) : ~SameKey(x, e)} \cup {e}
    BY <2>2, <2>3
  <2> QED BY <2>2, <2>5, <2>6 DEF q
<1>4. CASE at # 0
  <2>1. q = [p EXCEPT ![at].implementation = e.implementation]
    BY <1>4 DEF at, MergeEntry
  <2>2. [p[at] EXCEPT !.implementation = e.implementation] = e
    BY <1>1, <1>2, <1>4, EntryIs
  <2>3. q = [p EXCEPT ![at] = e]
    BY <2>1, <2>2
  <2> HIDE DEF q
  <2>4. /\ q \in Seq(EntryType) /\ Len(q) = Len(p) /\ DOMAIN q = DOMAIN p
        /\ q[at] = e /\ \A i \in DOMAIN p : i # at => q[i] = p[i]
    BY <1>1, <1>2, <1>4, <2>3
  <2>5. \A i \in DOMAIN p : SameKey(q[i], p[i])
    BY <1>2, <1>4, <2>4 DEF SameKey
  <2>6. OnePerKey(q)
    BY <2>4, <2>5 DEF OnePerKey, SameKey
  <2>7. ASSUME NEW x \in ToSet(q) PROVE x = e \/ (x \in ToSet(p) /\ ~SameKey(x, e))
    <3>1. PICK i \in DOMAIN p : q[i] = x
      BY <2>4 DEF ToSet
    <3>2. CASE i # at
      <4>1. x = p[i] /\ ~SameKey(p[i], p[at])
        BY <3>1, <3>2, <2>4, <1>2, <1>4 DEF OnePerKey
      <4> QED BY <4>1, <1>2, <1>4 DEF SameKey, ToSet
    <3> QED BY <3>1, <3>2, <2>4
  <2>8. ASSUME NEW x \in ToSet(p), ~SameKey(x, e) PROVE x \in ToSet(q)
    <3>1. PICK i \in DOMAIN p : p[i] = x
      BY DEF ToSet
    <3>2. i # at
      BY <3>1, <2>8, <1>2, <1>4
    <3> QED BY <3>1, <3>2, <2>4 DEF ToSet
  <2>9. e \in ToSet(q)
    BY <2>4, <1>2, <1>4 DEF ToSet
  <2>10. ToSet(q) = {x \in ToSet(p) : ~SameKey(x, e)} \cup {e}
    BY <2>7, <2>8, <2>9
  <2> QED BY <2>4, <2>6, <2>10 DEF q
<1> QED BY <1>2, <1>3, <1>4

\* Who merges the entries of one implementation has them, and of the others those of
\* directions and codecs that it has not.
LEMMA MergeFolds ==
  ASSUME NEW p \in Seq(EntryType), OnePerKey(p), NEW o \in Seq(EntryType),
         \A a, b \in ToSet(o) : SameKey(a, b) => a = b
  PROVE  LET m == Merging!Folded(o, p)
         IN  /\ m \in Seq(EntryType) /\ OnePerKey(m)
             /\ ToSet(m) = ToSet(o) \cup {x \in ToSet(p) : \A y \in ToSet(o) : ~SameKey(x, y)}
<1> DEFINE n == Len(o)
           Upto(k) == {o[i] : i \in 1..k}
<1>1. n \in Nat /\ DOMAIN o = 1..n /\ \A i \in 1..n : o[i] \in EntryType /\ o[i] \in ToSet(o)
  BY DEF ToSet
<1>2. ToSet(o) = Upto(n)
  BY <1>1 DEF ToSet
<1> HIDE DEF n
<1>3. PICK f : Merging!Runs(f, o, p, n) /\ Merging!Folded(o, p) = f[n]
  BY <1>1, Merging!FoldRuns
<1>4. f[0] = p /\ \A k \in 1..n : f[k] = MergeEntry(f[k - 1], o[k])
  BY <1>3 DEF Merging!Runs
<1> DEFINE Follows(k) ==
             /\ f[k] \in Seq(EntryType) /\ OnePerKey(f[k])
             /\ ToSet(f[k]) = Upto(k) \cup {x \in ToSet(p) : \A y \in Upto(k) : ~SameKey(x, y)}
           T == {k \in Nat : k <= n => Follows(k)}
<1>5. 0 \in T
  <2>1. Upto(0) = {}
    OBVIOUS
  <2>2. Follows(0)
    BY <1>4, <2>1
  <2> QED BY <2>2
<1>6. ASSUME NEW k \in Nat, k \in T PROVE k + 1 \in T
  <2>1. CASE k + 1 <= n
    <3>1. k + 1 \in 1..n /\ (k + 1) - 1 = k /\ k <= n
      BY <2>1, <1>1
    <3>2. Follows(k)
      BY <1>6, <3>1
    <3>3. f[k + 1] = MergeEntry(f[k], o[k + 1]) /\ o[k + 1] \in EntryType
      BY <1>1, <1>4, <3>1
    <3> DEFINE e == o[k + 1]
    <3>4. /\ f[k + 1] \in Seq(EntryType) /\ OnePerKey(f[k + 1])
          /\ ToSet(f[k + 1]) = {x \in ToSet(f[k]) : ~SameKey(x, e)} \cup {e}
      <4>1. f[k] \in Seq(EntryType) /\ OnePerKey(f[k])
        BY <3>2
      <4>2. e \in EntryType /\ f[k + 1] = MergeEntry(f[k], e)
        BY <3>3
      <4> HIDE DEF e, Follows
      <4>3. /\ MergeEntry(f[k], e) \in Seq(EntryType) /\ OnePerKey(MergeEntry(f[k], e))
            /\ ToSet(MergeEntry(f[k], e)) = {x \in ToSet(f[k]) : ~SameKey(x, e)} \cup {e}
        BY <4>1, <4>2, EntryMerges, Zenon
      <4> QED BY <4>2, <4>3
    <3>5. 1..k + 1 = (1..k) \cup {k + 1}
      OBVIOUS
    <3>6. Upto(k + 1) = Upto(k) \cup {e}
      BY <3>5
    <3>7. \A x \in Upto(k) : x \in ToSet(o)
      BY <1>1, <3>1
    <3>8. \A x \in Upto(k) : SameKey(x, e) => x = e
      BY <1>1, <3>1, <3>7
    <3> HIDE DEF Upto, e
    <3>9. ToSet(f[k + 1])
            = Upto(k + 1) \cup {x \in ToSet(p) : \A y \in Upto(k + 1) : ~SameKey(x, y)}
      <4>1. ToSet(f[k]) = Upto(k) \cup {x \in ToSet(p) : \A y \in Upto(k) : ~SameKey(x, y)}
        BY <3>2
      <4>2. ASSUME NEW x
            PROVE  x \in ToSet(f[k + 1]) <=>
                     \/ x \in Upto(k) \/ x = e
                     \/ x \in ToSet(p) /\ ~SameKey(x, e) /\ \A y \in Upto(k) : ~SameKey(x, y)
        BY <3>4, <3>8, <4>1
      <4>3. ASSUME NEW x
            PROVE  (~SameKey(x, e) /\ \A y \in Upto(k) : ~SameKey(x, y)) <=>
                     \A y \in Upto(k + 1) : ~SameKey(x, y)
        BY <3>6
      <4> QED BY <3>6, <4>2, <4>3
    <3>10. Follows(k + 1)
      BY <3>4, <3>9
    <3> QED BY <3>10
  <2> QED BY <2>1
<1> HIDE DEF T
<1>7. n \in T
  BY <1>1, <1>5, <1>6, Merging!Induction
<1>8. Follows(n)
  BY <1>1, <1>7 DEF T
<1> QED BY <1>2, <1>3, <1>8

\* Both preferences merge entry by entry.
LEMMA MergesAreFolds ==
  ASSUME NEW p, NEW o
  PROVE  Preference!Merge(p, o) = Merging!Folded(o, p)
BY DEF Preference!Merge, Preference!FoldLeft, Preference!MapThenFoldSet, Preference!Max,
       Preference!FindMut, Preference!SelectInSeq, Preference!Min, Merging!Folded,
       Merging!FoldLeft, Merging!MapThenFoldSet, Merging!Max, MergeEntry, Place, SelectInSeq, Min
LEMMA AudioMergesAreFolds ==
  ASSUME NEW p, NEW o
  PROVE  AudioPreference!Merge(p, o) = Merging!Folded(o, p)
BY DEF AudioPreference!Merge, AudioPreference!FoldLeft, AudioPreference!MapThenFoldSet,
     AudioPreference!Max,
       AudioPreference!FindMut, AudioPreference!SelectInSeq, AudioPreference!Min, Merging!Folded,
       Merging!FoldLeft, Merging!MapThenFoldSet, Merging!Max, MergeEntry, Place, SelectInSeq, Min

Directions == {"encoder", "decoder"}

EntryOf(direction, codec, implementation) ==
  [direction |-> direction, codec |-> codec, implementation |-> implementation]

\* One entry, if the direction and codec is supported.
OneIf(supported, direction, codec, implementation) ==
  IF supported THEN <<EntryOf(direction, codec, implementation)>> ELSE <<>>

LEMMA OneIfElements ==
  ASSUME NEW supported \in BOOLEAN, NEW direction \in Directions, NEW codec \in Codecs,
         NEW implementation \in ImplementationNames
  PROVE  /\ OneIf(supported, direction, codec, implementation) \in Seq(EntryType)
         /\ ToSet(OneIf(supported, direction, codec, implementation))
              = IF supported THEN {EntryOf(direction, codec, implementation)} ELSE {}
<1>1. EntryOf(direction, codec, implementation) \in EntryType
  BY DEF EntryOf, EntryType, Directions
<1>2. CASE supported
  BY <1>1, <1>2 DEF OneIf, ToSet
<1>3. CASE ~supported
  BY <1>3 DEF OneIf, ToSet
<1> QED BY <1>2, <1>3

\* Either it is supported or not.
LEMMA SupportedOrNot ==
  ASSUME NEW C, NEW d, NEW c
  PROVE  IsSupported(C, d, c) \in BOOLEAN
BY DEF IsSupported

\* The codecs of video, in their order.
LEMMA VideoTypes ==
  /\ DOMAIN VideoCodecTypes = 1..5 /\ \A i \in 1..5 : VideoCodecTypes[i] \in Codecs
  /\ ToSet(VideoCodecTypes) = {VideoCodecTypes[i] : i \in 1..5}
  /\ ToSet(VideoCodecTypes) = {"VP8", "VP9", "H264", "H265", "AV1"}
<1> DEFINE V == {"VP8", "VP9", "H264", "H265", "AV1"}
<1>1. DOMAIN VideoCodecTypes = 1..5
  BY DEF VideoCodecTypes
<1>2. \A i \in 1..5 : VideoCodecTypes[i] \in V
  BY DEF VideoCodecTypes
<1>3. /\ VideoCodecTypes[1] = "VP8" /\ VideoCodecTypes[2] = "VP9" /\ VideoCodecTypes[3] = "H264"
      /\ VideoCodecTypes[4] = "H265" /\ VideoCodecTypes[5] = "AV1"
  BY DEF VideoCodecTypes
<1>4. ToSet(VideoCodecTypes) = {VideoCodecTypes[i] : i \in 1..5}
  BY <1>1, Zenon DEF ToSet
<1>5. 1 \in 1..5 /\ 2 \in 1..5 /\ 3 \in 1..5 /\ 4 \in 1..5 /\ 5 \in 1..5
  OBVIOUS
<1>6. V \subseteq ToSet(VideoCodecTypes) /\ ToSet(VideoCodecTypes) \subseteq V
  BY <1>2, <1>3, <1>4, <1>5
<1> QED BY <1>1, <1>2, <1>4, <1>6 DEF Codecs

\* The preference of a capability has the directions and codecs that it supports.
LEMMA NewEntries ==
  ASSUME NEW C, C.implementation \in ImplementationNames
  PROVE  /\ Preference!NewFromCapability(C) \in Seq(EntryType)
         /\ \A e : e \in ToSet(Preference!NewFromCapability(C)) <=>
              \E d \in Directions, c \in ToSet(VideoCodecTypes) :
                IsSupported(C, d, c) /\ e = EntryOf(d, c, C.implementation)
<1> DEFINE Of(d, c) == OneIf(IsSupported(C, d, c), d, c, C.implementation)
           q == [i \in 1..5 |-> Of("encoder", VideoCodecTypes[i]) \o Of("decoder", VideoCodecTypes[i])]
           Here(d, c) == IF IsSupported(C, d, c) THEN {EntryOf(d, c, C.implementation)} ELSE {}
<1>1. /\ DOMAIN VideoCodecTypes = 1..5 /\ \A i \in 1..5 : VideoCodecTypes[i] \in Codecs
      /\ ToSet(VideoCodecTypes) = {VideoCodecTypes[i] : i \in 1..5}
  BY VideoTypes
<1>2. ASSUME NEW d \in Directions, NEW c \in Codecs
      PROVE  Of(d, c) \in Seq(EntryType) /\ ToSet(Of(d, c)) = Here(d, c)
  <2>1. IsSupported(C, d, c) \in BOOLEAN
    BY SupportedOrNot
  <2> QED BY <2>1, OneIfElements, Zenon
<1>3. Preference!NewFromCapability(C) = FlattenSeq(q)
  BY <1>1 DEF Preference!NewFromCapability, Preference!FlattenSeq, FlattenSeq, Preference!Entry,
       OneIf, EntryOf
<1> HIDE DEF Of
<1>4. ASSUME NEW i \in 1..5
      PROVE  /\ q[i] \in Seq(EntryType)
             /\ ToSet(q[i]) = Here("encoder", VideoCodecTypes[i]) \cup Here("decoder", VideoCodecTypes[i])
  <2>1. "encoder" \in Directions /\ "decoder" \in Directions /\ VideoCodecTypes[i] \in Codecs
    BY <1>1 DEF Directions
  <2>2. q[i] = Of("encoder", VideoCodecTypes[i]) \o Of("decoder", VideoCodecTypes[i])
    OBVIOUS
  <2>3. /\ Of("encoder", VideoCodecTypes[i]) \in Seq(EntryType)
        /\ Of("decoder", VideoCodecTypes[i]) \in Seq(EntryType)
        /\ ToSet(Of("encoder", VideoCodecTypes[i])) = Here("encoder", VideoCodecTypes[i])
        /\ ToSet(Of("decoder", VideoCodecTypes[i])) = Here("decoder", VideoCodecTypes[i])
    BY <2>1, <1>2, Zenon
  <2> HIDE DEF q, Here
  <2> QED BY <2>2, <2>3, Joined
<1>5. q = [i \in 1..5 |-> q[i]] /\ DOMAIN q = 1..5
  OBVIOUS
<1> HIDE DEF q
<1>6. q \in [1..5 -> Seq(EntryType)]
  BY <1>4, <1>5
<1>7. FlattenSeq(q) \in Seq(EntryType) /\ ToSet(FlattenSeq(q)) = UNION {ToSet(q[i]) : i \in 1..5}
  BY <1>6, Flattened, 5 \in Nat
<1>8. ASSUME NEW e
      PROVE  e \in ToSet(FlattenSeq(q)) <=>
               \E d \in Directions, i \in 1..5 : e \in Here(d, VideoCodecTypes[i])
  <2> HIDE DEF Here
  <2> QED BY <1>4, <1>7 DEF Directions
<1>9. ASSUME NEW e
      PROVE  e \in ToSet(FlattenSeq(q)) <=>
               \E d \in Directions, c \in ToSet(VideoCodecTypes) :
                 IsSupported(C, d, c) /\ e = EntryOf(d, c, C.implementation)
  BY <1>1, <1>8
<1> QED BY <1>3, <1>7, <1>9

\* The place that either preference finds.
LEMMA PlacesAreFound ==
  ASSUME NEW p, NEW e, NEW d, NEW c, d = e.direction, c = e.codec
  PROVE  Preference!FindMut(p, d, c) = Place(p, e) /\ AudioPreference!FindMut(p, d, c) = Place(p, e)
BY DEF Preference!FindMut, Preference!SelectInSeq, Preference!Min, AudioPreference!FindMut,
       AudioPreference!SelectInSeq, AudioPreference!Min, Place, SelectInSeq, Min

\* Where there is one entry at most, it is found.
LEMMA EntryIsFound ==
  ASSUME NEW p \in Seq(EntryType), OnePerKey(p), NEW e \in ToSet(p)
  PROVE  Find(p, e.direction, e.codec) = e /\ AudioFind(p, e.direction, e.codec) = e
<1>1. /\ Place(p, e) # 0 => Place(p, e) \in DOMAIN p /\ SameKey(p[Place(p, e)], e)
      /\ Place(p, e) = 0 => \A i \in DOMAIN p : ~SameKey(p[i], e)
  BY PlaceFacts, Zenon
<1>2. PICK i \in DOMAIN p : p[i] = e
  BY DEF ToSet
<1>3. SameKey(p[i], e)
  BY <1>2 DEF SameKey
<1>4. Place(p, e) # 0 /\ Place(p, e) = i
  BY <1>1, <1>2, <1>3 DEF OnePerKey, SameKey
<1>5. /\ Preference!FindMut(p, e.direction, e.codec) = Place(p, e)
      /\ AudioPreference!FindMut(p, e.direction, e.codec) = Place(p, e)
  BY PlacesAreFound
<1> QED BY <1>2, <1>4, <1>5, Zenon DEF Find, AudioFind, Preference!Find, AudioPreference!Find

\* Where the capability of an implementation is.
At(caps, n) == SelectInSeq(caps, LAMBDA c : c.implementation = n)

\* A capability that is found is one that was given, with that name.
LEMMA CapabilityFacts ==
  ASSUME NEW S, NEW caps \in Seq(S), NEW n
  PROVE  /\ FindCapability(caps, n) # NoVideo =>
              FindCapability(caps, n) \in ToSet(caps) /\ FindCapability(caps, n).implementation = n
         /\ FindAudioCapability(caps, n) # NoAudio =>
              FindAudioCapability(caps, n) \in ToSet(caps) /\ FindAudioCapability(caps, n).implementation = n
<1> DEFINE I == {i \in 1..Len(caps) : caps[i].implementation = n}
<1>1. At(caps, n) = IF I # {} THEN Min(I) ELSE 0
  BY DEF At, SelectInSeq
<1>2. FindCapability(caps, n) = IF At(caps, n) = 0 THEN NoVideo ELSE caps[At(caps, n)]
  BY DEF FindCapability, Preference!FindCapability, Preference!SelectInSeq, Preference!Min, Min,
         At, SelectInSeq
<1>3. FindAudioCapability(caps, n) = IF At(caps, n) = 0 THEN NoAudio ELSE caps[At(caps, n)]
  BY DEF FindAudioCapability, AudioPreference!FindCapability, AudioPreference!SelectInSeq,
         AudioPreference!Min, Min, At, SelectInSeq
<1>4. Len(caps) \in Nat /\ DOMAIN caps = 1..Len(caps)
  OBVIOUS
<1>5. ASSUME At(caps, n) # 0
      PROVE  At(caps, n) \in DOMAIN caps /\ caps[At(caps, n)].implementation = n
  <2>1. I # {} /\ I \in SUBSET Nat
    BY <1>1, <1>5
  <2>2. At(caps, n) \in I
    BY <1>1, <2>1, MinIsLeast
  <2> QED BY <1>4, <2>2
<1>6. At(caps, n) # 0 => caps[At(caps, n)] \in ToSet(caps)
  BY <1>5 DEF ToSet
<1> QED BY <1>2, <1>3, <1>5, <1>6, Zenon

\* In a preference that is valid each direction and codec has one entry, and a capability
\* that supports it.
LEMMA ValidPreference ==
  ASSUME NEW p \in Seq(EntryType), NEW caps, ValidateVideoCodecPreference(p, caps)
  PROVE  /\ OnePerKey(p)
         /\ \A e \in ToSet(p) :
              /\ e.codec \in ToSet(VideoCodecTypes)
              /\ FindCapability(caps, e.implementation) # NoVideo
              /\ IsSupported(FindCapability(caps, e.implementation), e.direction, e.codec)
<1>1. \A i \in DOMAIN p :
        /\ p[i].codec \in ToSet(VideoCodecTypes)
        /\ Preference!FindMut(p, p[i].direction, p[i].codec) = i
        /\ FindCapability(caps, p[i].implementation) # NoVideo
        /\ IsSupported(FindCapability(caps, p[i].implementation), p[i].direction, p[i].codec)
  BY Zenon DEF ValidateVideoCodecPreference, Preference!Valid, Preference!ValidCodec,
       FindCapability,
               Preference!ToSet, ToSet
<1>2. OnePerKey(p)
  BY <1>1 DEF OnePerKey, SameKey
<1>3. ASSUME NEW e \in ToSet(p)
      PROVE  /\ e.codec \in ToSet(VideoCodecTypes)
             /\ FindCapability(caps, e.implementation) # NoVideo
             /\ IsSupported(FindCapability(caps, e.implementation), e.direction, e.codec)
  <2>1. PICK i \in DOMAIN p : p[i] = e
    BY DEF ToSet
  <2> QED BY <1>1, <2>1, Zenon
<1> QED BY <1>2, <1>3

\* So it is for audio.
LEMMA ValidAudioPreference ==
  ASSUME NEW p \in Seq(EntryType), NEW caps, ValidateAudioCodecPreference(p, caps)
  PROVE  /\ OnePerKey(p)
         /\ \A e \in ToSet(p) :
              /\ e.codec \in ToSet(AudioCodecTypes)
              /\ FindAudioCapability(caps, e.implementation) # NoAudio
              /\ AudioIsSupported(FindAudioCapability(caps, e.implementation), e.direction, e.codec)
<1>1. \A i \in DOMAIN p :
        /\ p[i].codec \in ToSet(AudioCodecTypes)
        /\ AudioPreference!FindMut(p, p[i].direction, p[i].codec) = i
        /\ FindAudioCapability(caps, p[i].implementation) # NoAudio
        /\ AudioIsSupported(FindAudioCapability(caps, p[i].implementation), p[i].direction, p[i].codec)
  BY Zenon DEF ValidateAudioCodecPreference, AudioPreference!Valid, AudioPreference!ValidCodec,
               FindAudioCapability, AudioPreference!ToSet, ToSet
<1>2. OnePerKey(p)
  BY <1>1 DEF OnePerKey, SameKey
<1>3. ASSUME NEW e \in ToSet(p)
      PROVE  /\ e.codec \in ToSet(AudioCodecTypes)
             /\ FindAudioCapability(caps, e.implementation) # NoAudio
             /\ AudioIsSupported(FindAudioCapability(caps, e.implementation), e.direction, e.codec)
  <2>1. PICK i \in DOMAIN p : p[i] = e
    BY DEF ToSet
  <2> QED BY <1>1, <2>1, Zenon
<1> QED BY <1>2, <1>3

-----------------------------------------------------------------------------
(* What is listed                                                          *)

\* One step of a collection: what is there is not added again.
AddNewOne(all, x) == IF x \in ToSet(all) THEN all ELSE Append(all, x)

Collecting == INSTANCE Folding WITH Op <- AddNewOne

\* A step of a collection keeps each element once.
LEMMA OneIsCollected ==
  ASSUME NEW S, NEW g \in Seq(S), IsInjective(g), NEW x \in S
  PROVE  /\ AddNewOne(g, x) \in Seq(S) /\ IsInjective(AddNewOne(g, x))
         /\ ToSet(AddNewOne(g, x)) = ToSet(g) \cup {x}
<1>1. CASE x \in ToSet(g)
  BY <1>1 DEF AddNewOne
<1>2. CASE x \notin ToSet(g)
  <2> DEFINE h == Append(g, x)
  <2>1. /\ h \in Seq(S) /\ Len(h) = Len(g) + 1
        /\ \A i \in 1..Len(g) : h[i] = g[i]
        /\ h[Len(g) + 1] = x
        /\ ToSet(h) = ToSet(g) \cup {x}
    BY Appended
  <2>2. AddNewOne(g, x) = h
    BY <1>2 DEF AddNewOne
  <2>3. Len(g) \in Nat /\ DOMAIN g = 1..Len(g)
    OBVIOUS
  <2>4. /\ \A i \in DOMAIN g : g[i] # x
        /\ \A i, j \in DOMAIN g : g[i] = g[j] => i = j
    BY <1>2 DEF ToSet, IsInjective
  <2> HIDE DEF h
  <2>5. DOMAIN h = 1..Len(g) + 1
    BY <2>1
  <2>6. ASSUME NEW i \in 1..Len(g) + 1, NEW j \in 1..Len(g) + 1, h[i] = h[j] PROVE i = j
    <3>1. CASE i \in 1..Len(g) /\ j \in 1..Len(g)
      BY <2>1, <2>3, <2>4, <2>6, <3>1
    <3>2. CASE i = Len(g) + 1 /\ j \in 1..Len(g)
      BY <2>1, <2>3, <2>4, <2>6, <3>2
    <3>3. CASE j = Len(g) + 1 /\ i \in 1..Len(g)
      BY <2>1, <2>3, <2>4, <2>6, <3>3
    <3> QED BY <2>3, <3>1, <3>2, <3>3
  <2>7. IsInjective(h)
    BY <2>5, <2>6 DEF IsInjective
  <2> QED BY <2>1, <2>2, <2>7
<1> QED BY <1>1, <1>2

\* A collection has each element once.
LEMMA CollectionFolds ==
  ASSUME NEW S, NEW s \in Seq(S)
  PROVE  LET all == Collecting!Folded(s, <<>>)
         IN  all \in Seq(S) /\ IsInjective(all) /\ ToSet(all) = ToSet(s)
<1> DEFINE n == Len(s)
           Upto(k) == {s[i] : i \in 1..k}
<1>1. n \in Nat /\ DOMAIN s = 1..n /\ \A i \in 1..n : s[i] \in S
  OBVIOUS
<1>2. ToSet(s) = Upto(n)
  BY <1>1 DEF ToSet
<1> HIDE DEF n
<1>3. PICK f : Collecting!Runs(f, s, <<>>, n) /\ Collecting!Folded(s, <<>>) = f[n]
  BY <1>1, Collecting!FoldRuns
<1>4. f[0] = <<>> /\ \A k \in 1..n : f[k] = AddNewOne(f[k - 1], s[k])
  BY <1>3 DEF Collecting!Runs
<1> DEFINE Follows(k) == f[k] \in Seq(S) /\ IsInjective(f[k]) /\ ToSet(f[k]) = Upto(k)
           T == {k \in Nat : k <= n => Follows(k)}
<1>5. 0 \in T
  <2>1. Upto(0) = {} /\ ToSet(<<>>) = {}
    BY DEF ToSet
  <2>2. <<>> \in Seq(S) /\ IsInjective(<<>>)
    BY DEF IsInjective
  <2>3. Follows(0)
    BY <1>4, <2>1, <2>2, Zenon
  <2> QED BY <2>3
<1>6. ASSUME NEW k \in Nat, k \in T PROVE k + 1 \in T
  <2>1. CASE k + 1 <= n
    <3>1. k + 1 \in 1..n /\ (k + 1) - 1 = k /\ k <= n
      BY <2>1, <1>1
    <3> DEFINE x == s[k + 1]
    <3>2. f[k] \in Seq(S) /\ IsInjective(f[k]) /\ ToSet(f[k]) = Upto(k)
      BY <1>6, <3>1
    <3>3. f[k + 1] = AddNewOne(f[k], x) /\ x \in S
      BY <1>1, <1>4, <3>1
    <3>4. 1..k + 1 = (1..k) \cup {k + 1}
      OBVIOUS
    <3>5. Upto(k + 1) = Upto(k) \cup {x}
      BY <3>4
    <3> HIDE DEF Upto, x
    <3>6. /\ AddNewOne(f[k], x) \in Seq(S) /\ IsInjective(AddNewOne(f[k], x))
          /\ ToSet(AddNewOne(f[k], x)) = ToSet(f[k]) \cup {x}
      BY <3>2, <3>3, OneIsCollected
    <3>8. Follows(k + 1)
      BY <3>2, <3>3, <3>5, <3>6
    <3> QED BY <3>8
  <2> QED BY <2>1
<1> HIDE DEF T
<1>7. n \in T
  BY <1>1, <1>5, <1>6, Collecting!Induction
<1>8. Follows(n)
  BY <1>1, <1>7 DEF T
<1> QED BY <1>2, <1>3, <1>8

\* The formats of a codec.
OfThe(s, c) == Kept(s, LAMBDA f : f.codec = c)

LEMMA OfCodec ==
  ASSUME NEW S, NEW s \in Seq(S), NEW c
  PROVE  OfThe(s, c) \in Seq(S) /\ ToSet(OfThe(s, c)) = {f \in ToSet(s) : f.codec = c}
<1> DEFINE T == {f \in ToSet(s) : f.codec = c}
           q == [i \in DOMAIN s |-> IF s[i] \in T THEN <<s[i]>> ELSE <<>>]
           r == [i \in DOMAIN s |-> IF s[i].codec = c THEN <<s[i]>> ELSE <<>>]
<1>1. \A i \in DOMAIN s : s[i] \in T <=> s[i].codec = c
  BY DEF ToSet
<1>2. q = r
  BY <1>1
<1>3. OfThe(s, c) = FlattenSeq(r)
  BY DEF OfThe, Kept
<1>4. FlattenSeq(q) \in Seq(S) /\ ToSet(FlattenSeq(q)) = ToSet(s) \cap T
  BY KeptElements, Zenon
<1> HIDE DEF q, r
<1> QED BY <1>2, <1>3, <1>4

\* The entries of a preference at the indices in I list, each of its codec, what has[i] has.
Listing(p, I, has) ==
  FlattenSeq([i \in DOMAIN p |->
    IF i \in I THEN OfThe(has[i], p[i].codec) ELSE <<>>])

\* It has f if that has f for one of them.
Lists(p, I, has, f) == \E i \in I : f \in ToSet(has[i]) /\ f.codec = p[i].codec

\* Each of them once.
Collected(p, I, has) == Collecting!Folded(Listing(p, I, has), <<>>)

LEMMA ListingCollects ==
  ASSUME NEW S, NEW p \in Seq(EntryType), NEW I \in SUBSET DOMAIN p, NEW has,
         \A i \in I : has[i] \in Seq(S)
  PROVE  /\ Collected(p, I, has) \in Seq(S) /\ IsInjective(Collected(p, I, has))
         /\ \A f : f \in ToSet(Collected(p, I, has)) <=> Lists(p, I, has, f)
<1> DEFINE n == Len(p)
           Part(i) == OfThe(has[i], p[i].codec)
           q == [i \in 1..n |-> IF i \in I THEN Part(i) ELSE <<>>]
<1>1. n \in Nat /\ DOMAIN p = 1..n
  OBVIOUS
<1>2. ASSUME NEW i \in I
      PROVE  Part(i) \in Seq(S) /\ ToSet(Part(i)) = {f \in ToSet(has[i]) : f.codec = p[i].codec}
  <2>1. has[i] \in Seq(S)
    OBVIOUS
  <2> QED BY <2>1, OfCodec
<1>3. Listing(p, I, has) = FlattenSeq(q)
  BY <1>1 DEF Listing
<1> HIDE DEF Part, n
<1>4. ToSet(<<>>) = {} /\ <<>> \in Seq(S)
  BY DEF ToSet
<1>5. \A i \in 1..n : /\ q[i] \in Seq(S)
                      /\ ToSet(q[i]) = IF i \in I THEN ToSet(Part(i)) ELSE {}
  BY <1>2, <1>4
<1>6. q = [i \in 1..n |-> q[i]]
  OBVIOUS
<1> HIDE DEF q
<1>7. q \in [1..n -> Seq(S)]
  BY <1>5, <1>6
<1>8. FlattenSeq(q) \in Seq(S) /\ ToSet(FlattenSeq(q)) = UNION {ToSet(q[i]) : i \in 1..n}
  BY <1>1, <1>7, Flattened
<1>9. ASSUME NEW f
      PROVE  f \in ToSet(FlattenSeq(q)) <=> \E i \in I : f \in ToSet(has[i]) /\ f.codec = p[i].codec
  BY <1>1, <1>2, <1>5, <1>8
<1> DEFINE all == Collecting!Folded(FlattenSeq(q), <<>>)
<1>10. all \in Seq(S) /\ IsInjective(all) /\ ToSet(all) = ToSet(FlattenSeq(q))
  BY <1>8, CollectionFolds, Zenon
<1> HIDE DEF all
<1>11. \A f : f \in ToSet(all) <=> Lists(p, I, has, f)
  BY <1>9, <1>10 DEF Lists
<1> QED BY <1>3, <1>10, <1>11 DEF all, Collected

\* A list of capabilities of which each lists formats for both directions.
Listed(caps, direction) == UNION {ToSet(caps[i][direction]) : i \in DOMAIN caps}

\* A format is offered where the implementation of an entry lists it for the entry's codec.
Offered(p, caps, d, f) ==
  \E e \in ToSet(p) :
    /\ e.direction = d /\ f.codec = e.codec
    /\ FindCapability(caps, e.implementation) # NoVideo
    /\ f \in ToSet(FindCapability(caps, e.implementation)[d])

\* What is collected is what is offered.
LEMMA FormatsAreCollected ==
  ASSUME NEW p \in Seq(EntryType), NEW d, NEW R, NEW caps \in Seq(R),
         \A i \in DOMAIN caps : caps[i][d] \in Seq(ToSet(caps[i][d]))
  PROVE  /\ CollectSupportedFormats(p, caps, d) \in Seq(Listed(caps, d))
         /\ IsInjective(CollectSupportedFormats(p, caps, d))
         /\ \A f : f \in ToSet(CollectSupportedFormats(p, caps, d)) <=> Offered(p, caps, d, f)
<1> DEFINE Cap(i) == FindCapability(caps, p[i].implementation)
           I == {i \in DOMAIN p : p[i].direction = d /\ Cap(i) # NoVideo}
           has == [i \in I |-> Cap(i)[d]]
           formats == CollectSupportedFormats(p, caps, d)
<1>1. ASSUME NEW i \in I PROVE has[i] = Cap(i)[d] /\ has[i] \in Seq(Listed(caps, d))
  <2>1. Cap(i) \in ToSet(caps)
    BY CapabilityFacts, Zenon
  <2>2. PICK j \in DOMAIN caps : caps[j] = Cap(i)
    BY <2>1 DEF ToSet
  <2>3. ToSet(caps[j][d]) \subseteq Listed(caps, d)
    BY DEF Listed
  <2>4. caps[j][d] \in Seq(Listed(caps, d))
    <3> DEFINE A == ToSet(caps[j][d])
               B == Listed(caps, d)
               s == caps[j][d]
    <3>1. s \in Seq(A)
      OBVIOUS
    <3>2. A \subseteq B
      BY <2>3
    <3> HIDE DEF A, B, s
    <3>3. s \in Seq(B)
      BY <3>1, <3>2
    <3> QED BY <3>3 DEF B, s
  <2> QED BY <2>2, <2>4
<1>2. formats = Collected(p, I, has)
  <2> DEFINE q == [i \in DOMAIN p |-> IF i \in I THEN OfThe(has[i], p[i].codec) ELSE <<>>]
             r == [i \in DOMAIN p |-> IF p[i].direction # d \/ Cap(i) = NoVideo THEN <<>>
                                      ELSE OfThe(Cap(i)[d], p[i].codec)]
  <2>1. q = r
    BY Zenon
  <2>2. formats = Collecting!Folded(FlattenSeq(r), <<>>)
    BY DEF CollectSupportedFormats, OfThe, FoldLeft, MapThenFoldSet, Max, AddNewOne,
         Collecting!Folded,
           Collecting!FoldLeft, Collecting!MapThenFoldSet, Collecting!Max
  <2>3. Listing(p, I, has) = FlattenSeq(q)
    BY DEF Listing
  <2> HIDE DEF q, r, formats
  <2> QED BY <2>1, <2>2, <2>3 DEF Collected
<1>3. /\ formats \in Seq(Listed(caps, d)) /\ IsInjective(formats)
      /\ \A f : f \in ToSet(formats) <=> Lists(p, I, has, f)
  <2>1. I \in SUBSET DOMAIN p /\ \A i \in I : has[i] \in Seq(Listed(caps, d))
    BY <1>1
  <2> HIDE DEF I, has, formats
  <2>2. /\ Collected(p, I, has) \in Seq(Listed(caps, d)) /\ IsInjective(Collected(p, I, has))
        /\ \A f : f \in ToSet(Collected(p, I, has)) <=> Lists(p, I, has, f)
    BY <2>1, ListingCollects, Zenon
  <2> QED BY <1>2, <2>2, Zenon
<1>4. ASSUME NEW f PROVE Lists(p, I, has, f) <=> Offered(p, caps, d, f)
  <2>1. ToSet(p) = {p[i] : i \in DOMAIN p}
    BY DEF ToSet
  <2>2. \A i \in I : has[i] = Cap(i)[d]
    OBVIOUS
  <2> HIDE DEF has
  <2> QED BY <2>1, <2>2 DEF Lists, Offered
<1> HIDE DEF I, has, formats
<1> QED BY <1>3, <1>4, Zenon DEF formats

-----------------------------------------------------------------------------
(* Capabilities                                                            *)

\* Of finitely many numbers one is greatest.
LEMMA GreatestOf ==
  ASSUME NEW n \in Nat, NEW sh, \A i \in 1..n : sh[i] \in Nat, NEW I \in SUBSET (1..n), I # {}
  PROVE  \E m \in I : \A j \in I : sh[j] <= sh[m]
<1> DEFINE T == {k \in Nat : k <= n => \A J \in SUBSET (1..k) :
                               J # {} => \E m \in J : \A j \in J : sh[j] <= sh[m]}
<1>1. 0 \in T
  <2>1. 1..0 = {}
    OBVIOUS
  <2> QED BY <2>1
<1>2. ASSUME NEW k \in Nat, k \in T PROVE k + 1 \in T
  <2>1. ASSUME k + 1 <= n, NEW J \in SUBSET (1..k + 1), J # {}
        PROVE  \E m \in J : \A j \in J : sh[j] <= sh[m]
    <3> DEFINE H == J \ {k + 1}
    <3>1. H \in SUBSET (1..k) /\ \A j \in J : j \in H \/ j = k + 1
      OBVIOUS
    <3>2. \A j \in J : sh[j] \in Nat
      BY <2>1
    <3>3. CASE H = {}
      <4>1. J = {k + 1}
        BY <2>1, <3>1, <3>3
      <4> QED BY <3>2, <4>1
    <3>4. CASE H # {}
      <4>1. PICK m \in H : \A j \in H : sh[j] <= sh[m]
        <5>1. k <= n /\ H \in SUBSET (1..k) /\ H # {}
          BY <2>1, <3>1, <3>4
        <5> HIDE DEF H
        <5>2. \A A \in SUBSET (1..k) : A # {} => \E m \in A : \A j \in A : sh[j] <= sh[m]
          BY <1>2, <5>1
        <5> QED BY <5>1, <5>2
      <4>2. CASE k + 1 \in J /\ sh[m] <= sh[k + 1]
        <5>1. \A j \in J : sh[j] <= sh[k + 1]
          BY <3>1, <3>2, <4>1, <4>2
        <5> QED BY <4>2, <5>1
      <4>3. CASE ~(k + 1 \in J /\ sh[m] <= sh[k + 1])
        <5>1. \A j \in J : sh[j] <= sh[m]
          BY <3>1, <3>2, <4>1, <4>3
        <5> QED BY <5>1
      <4> QED BY <4>2, <4>3
    <3> QED BY <3>3, <3>4
  <2> QED BY <2>1
<1> HIDE DEF T
<1>3. n \in T
  BY <1>1, <1>2, Joining!Induction
<1> QED BY <1>3 DEF T

\* Of a list of formats the match is one of the codec, if there is one.
LEMMA MatchIsListed ==
  ASSUME NEW s, AreFormats(s), NEW format
  PROVE  /\ FuzzyMatch(s, format) # NoVideo <=> \E f \in ToSet(s) : f.codec = format.codec
         /\ FuzzyMatch(s, format) # NoVideo =>
              FuzzyMatch(s, format) \in ToSet(s) /\ FuzzyMatch(s, format).codec = format.codec
<1> DEFINE Shared(i) == Cardinality(s[i].parameters \cap format.parameters)
           named == {i \in DOMAIN s : s[i].codec = format.codec}
           best == {i \in named : \A j \in named : Shared(j) <= Shared(i)}
           n == Len(s)
           sh == [i \in 1..n |-> Shared(i)]
<1>1. /\ s \in Seq(ToSet(s))
      /\ \A f \in ToSet(s) : IsFiniteSet(f.parameters) /\ f # NoVideo
  BY DEF AreFormats
<1>2. n \in Nat /\ DOMAIN s = 1..n /\ ToSet(s) = {s[i] : i \in DOMAIN s}
  BY <1>1 DEF ToSet
<1>3. FuzzyMatch(s, format) = IF named = {} THEN NoVideo
                              ELSE s[CHOOSE i \in best : \A j \in best : i <= j]
  BY DEF FuzzyMatch
<1>4. named = {} <=> ~\E f \in ToSet(s) : f.codec = format.codec
  BY <1>2
<1>5. ASSUME named # {}
      PROVE  \E i \in named : FuzzyMatch(s, format) = s[i]
  <2>1. ASSUME NEW i \in 1..n PROVE sh[i] = Shared(i) /\ sh[i] \in Nat
    <3>1. IsFiniteSet(s[i].parameters)
      BY <1>1, <1>2
    <3>2. IsFiniteSet(s[i].parameters \cap format.parameters)
      BY <3>1, FS_Intersection
    <3> QED BY <3>2, FS_CardinalityType
  <2> HIDE DEF n, sh, Shared
  <2>2. named \in SUBSET (1..n)
    BY <1>2
  <2>3. PICK m \in named : \A j \in named : sh[j] <= sh[m]
    BY <1>2, <1>5, <2>1, <2>2, GreatestOf
  <2>4. m \in best
    BY <2>1, <2>2, <2>3
  <2>5. best \in SUBSET Nat /\ best \subseteq named
    BY <2>2, <1>2
  <2> HIDE DEF best, named
  <2>6. PICK l \in best : \A j \in best : l <= j
    BY <2>4, <2>5, Joining!LeastNumber
  <2>7. (CHOOSE i \in best : \A j \in best : i <= j) \in best
    BY <2>6
  <2> QED BY <1>3, <1>5, <2>5, <2>7
<1>6. \A i \in named : s[i] \in ToSet(s) /\ s[i].codec = format.codec
  BY <1>2
<1> HIDE DEF named, best
<1>7. CASE named = {}
  BY <1>3, <1>4, <1>7
<1>8. CASE named # {}
  BY <1>1, <1>4, <1>5, <1>6, <1>8
<1> QED BY <1>7, <1>8

\* A capability that makes each format it lists, for the codec of that format.
Makes(C) ==
  /\ C.implementation \in ImplementationNames
  /\ C = Capability(C.implementation, C.encoder, C.decoder)
  /\ AreFormats(C.encoder) /\ AreFormats(C.decoder)
  /\ \A d \in Directions : \A f \in ToSet(C[d]) : CreateVideo(C, d, f) = Made(C, f.codec)
  /\ IsPassthrough(C) => \E f : C = NewPassthrough(f)

\* A passthrough lists its one format, for the encoder.
LEMMA PassthroughLists ==
  ASSUME NEW f
  PROVE  /\ NewPassthrough(f).implementation = "mp4-passthrough"
         /\ NewPassthrough(f)["encoder"] = <<f>> /\ NewPassthrough(f).encoder = <<f>>
         /\ NewPassthrough(f)["decoder"] = <<>> /\ NewPassthrough(f).decoder = <<>>
         /\ <<f>>[1] = f /\ ToSet(<<f>>) = {f} /\ ToSet(<<>>) = {}
<1>1. NewPassthrough(f) = [implementation |-> "mp4-passthrough", encoder |-> <<f>>, decoder |-> <<>>]
  BY DEF NewPassthrough, Capability
<1>2. <<f>>[1] = f /\ ToSet(<<f>>) = {f} /\ ToSet(<<>>) = {}
  BY DEF ToSet
<1> QED BY <1>1, <1>2

\* What is supported is what is listed.
LEMMA SupportsWhatItLists ==
  ASSUME NEW C, Makes(C), NEW d \in Directions, NEW c
  PROVE  IsSupported(C, d, c) <=> \E f \in ToSet(C[d]) : f.codec = c
<1>1. AreFormats(C[d])
  BY DEF Makes, Directions
<1>2. CASE IsPassthrough(C)
  <2>1. PICK f : C = NewPassthrough(f)
    BY <1>2 DEF Makes
  <2>2. IsSupported(C, d, c) <=> d = "encoder" /\ c = f.codec
    BY <1>2, <2>1, PassthroughLists DEF IsSupported
  <2>3. ToSet(C[d]) = IF d = "encoder" THEN {f} ELSE {}
    BY <2>1, PassthroughLists DEF Directions
  <2> QED BY <2>2, <2>3
<1>3. CASE ~IsPassthrough(C)
  <2>1. IsSupported(C, d, c) <=> FuzzyMatch(C[d], Bare(c)) # NoVideo
    BY <1>3 DEF IsSupported, ResolveSdpFormat
  <2>2. Bare(c).codec = c
    BY DEF Bare
  <2> QED BY <1>1, <2>1, <2>2, MatchIsListed
<1> QED BY <1>2, <1>3

\* What is listed is resolved to a format of its codec that is listed.
LEMMA ResolvesWhatItLists ==
  ASSUME NEW C, Makes(C), NEW d \in Directions, NEW f \in ToSet(C[d])
  PROVE  /\ ResolveSdpFormat(C, d, f) \in ToSet(C[d])
         /\ ResolveSdpFormat(C, d, f).codec = f.codec
         /\ ResolveSdpFormat(C, d, f) # NoVideo
<1>1. AreFormats(C[d])
  BY DEF Makes, Directions
<1>2. \A g \in ToSet(C[d]) : g # NoVideo
  BY <1>1 DEF AreFormats
<1>3. /\ FuzzyMatch(C[d], f) # NoVideo
      /\ FuzzyMatch(C[d], f) \in ToSet(C[d]) /\ FuzzyMatch(C[d], f).codec = f.codec
  BY <1>1, MatchIsListed
<1>4. CASE IsPassthrough(C) /\ d = "encoder"
  <2>1. PICK r : C = NewPassthrough(r)
    BY <1>4 DEF Makes
  <2>2. C.encoder[1] = r /\ ToSet(C[d]) = {r}
    BY <1>4, <2>1, PassthroughLists
  <2>3. f = r /\ f.codec = r.codec /\ r.parameters \subseteq f.parameters
    BY <2>2
  <2>4. ResolveSdpFormat(C, d, f) \in {r, FuzzyMatch(C[d], f)}
    BY <1>4, <2>2, <2>3 DEF ResolveSdpFormat, Unless
  <2> QED BY <1>2, <1>3, <2>2, <2>3, <2>4
<1>5. CASE ~(IsPassthrough(C) /\ d = "encoder")
  <2>1. ResolveSdpFormat(C, d, f) = FuzzyMatch(C[d], f)
    BY <1>5 DEF ResolveSdpFormat
  <2> QED BY <1>3, <2>1
<1> QED BY <1>4, <1>5

\* A sequence is one of its elements.
LEMMA OwnElements ==
  ASSUME NEW S, NEW s \in Seq(S)
  PROVE  s \in Seq(ToSet(s))
<1>1. Len(s) \in Nat /\ s \in [1..Len(s) -> ToSet(s)]
  BY DEF ToSet
<1> QED BY <1>1

\* The one format that a codec has by default.
LEMMA OneFormat ==
  ASSUME NEW c \in ToSet(VideoCodecTypes)
  PROVE  /\ AreFormats(FormatsForCodec(c))
         /\ \A f \in ToSet(FormatsForCodec(c)) : f.codec = c
<1>1. AreFormats(FormatsForCodec(c))
  <2>1. PICK i \in DOMAIN VideoCodecTypes : VideoCodecTypes[i] = c
    BY VideoTypes, Zenon
  <2> QED BY <2>1, SelectionAssumption
<1> DEFINE ps == CASE c = "H264" -> {"level-asymmetry-allowed", "packetization-mode"}
                   [] c = "VP9" -> {"profile-id"}
                   [] OTHER -> {}
           r == [codec |-> c, parameters |-> ps]
<1>2. FormatsForCodec(c) = <<r>>
  BY DEF FormatsForCodec
<1>3. r.codec = c
  OBVIOUS
<1> HIDE DEF r
<1>4. ToSet(<<r>>) = {r}
  BY DEF ToSet
<1> QED BY <1>1, <1>2, <1>3, <1>4

\* What a vendor's library is asked for: formats of the codecs that it names and supports.
LEMMA VendorFormats ==
  ASSUME NEW n \in Nat, NEW named, DOMAIN named = 1..n,
         \A i \in 1..n : named[i] \in ToSet(VideoCodecTypes), NEW supported
  PROVE  /\ AreFormats(CollectFormats(named, supported))
         /\ \A f \in ToSet(CollectFormats(named, supported)) :
              f.codec \in supported /\ \E i \in 1..n : f.codec = named[i]
<1> DEFINE All == UNION {ToSet(FormatsForCodec(c)) : c \in ToSet(VideoCodecTypes)}
           q == [i \in 1..n |-> IF named[i] \in supported THEN FormatsForCodec(named[i]) ELSE <<>>]
<1>1. CollectFormats(named, supported) = FlattenSeq(q)
  BY DEF CollectFormats
<1>2. ASSUME NEW c \in ToSet(VideoCodecTypes)
      PROVE  /\ FormatsForCodec(c) \in Seq(All)
             /\ \A f \in ToSet(FormatsForCodec(c)) :
                  f \in All /\ f.codec = c /\ IsFiniteSet(f.parameters) /\ f # NoVideo
  <2>1. AreFormats(FormatsForCodec(c)) /\ \A f \in ToSet(FormatsForCodec(c)) : f.codec = c
    BY OneFormat
  <2> DEFINE s == FormatsForCodec(c)
  <2>2. s \in Seq(ToSet(s)) /\ \A f \in ToSet(s) : IsFiniteSet(f.parameters) /\ f # NoVideo
    BY <2>1 DEF AreFormats
  <2>3. ToSet(s) \subseteq All
    OBVIOUS
  <2> HIDE DEF All, s
  <2>4. s \in Seq(All)
    BY <2>2, <2>3
  <2> QED BY <2>1, <2>2, <2>3, <2>4 DEF s
<1>3. ToSet(<<>>) = {} /\ <<>> \in Seq(All)
  BY DEF ToSet
<1>4. \A i \in 1..n : /\ q[i] \in Seq(All)
                      /\ q[i] = IF named[i] \in supported THEN FormatsForCodec(named[i]) ELSE <<>>
  BY <1>2, <1>3
<1>5. q = [i \in 1..n |-> q[i]]
  OBVIOUS
<1> HIDE DEF q, All
<1>6. q \in [1..n -> Seq(All)]
  BY <1>4, <1>5
<1> DEFINE s == FlattenSeq(q)
<1>7. s \in Seq(All) /\ ToSet(s) = UNION {ToSet(q[i]) : i \in 1..n}
  BY <1>6, Flattened
<1>8. s \in Seq(ToSet(s))
  BY <1>7, OwnElements
<1> HIDE DEF s
<1>9. ASSUME NEW f \in ToSet(s)
      PROVE  /\ f.codec \in supported /\ \E i \in 1..n : f.codec = named[i]
             /\ IsFiniteSet(f.parameters) /\ f # NoVideo
  <2>1. PICK i \in 1..n : f \in ToSet(q[i])
    BY <1>7
  <2>2. named[i] \in supported /\ f \in ToSet(FormatsForCodec(named[i]))
    BY <1>3, <1>4, <2>1
  <2> QED BY <1>2, <2>2
<1> QED BY <1>1, <1>8, <1>9 DEF AreFormats, s

\* The implementations that sumomo knows.
LEMMA ImplementationsAre ==
  /\ ToSet(Implementations) = {"internal", "internal-apple", "amf", "nvcodec", "vpl", "v4l2", "openh264"}
  /\ DOMAIN Implementations = 1..7
  /\ ImplementationNames = ToSet(Implementations) \cup {"mp4-passthrough"}
  /\ "mp4-passthrough" \notin ToSet(Implementations)
<1> DEFINE I == {"internal", "internal-apple", "amf", "nvcodec", "vpl", "v4l2", "openh264"}
<1>1. DOMAIN Implementations = 1..7
  BY DEF Implementations
<1>2. \A i \in 1..7 : Implementations[i] \in I
  BY DEF Implementations
<1>3. /\ Implementations[1] = "internal" /\ Implementations[2] = "internal-apple"
      /\ Implementations[3] = "amf" /\ Implementations[4] = "nvcodec" /\ Implementations[5] = "vpl"
      /\ Implementations[6] = "v4l2" /\ Implementations[7] = "openh264"
  BY DEF Implementations
<1>4. ToSet(Implementations) = {Implementations[i] : i \in 1..7}
  BY <1>1, Zenon DEF ToSet
<1>5. 1 \in 1..7 /\ 2 \in 1..7 /\ 3 \in 1..7 /\ 4 \in 1..7 /\ 5 \in 1..7 /\ 6 \in 1..7 /\ 7 \in 1..7
  OBVIOUS
<1>6. I \subseteq ToSet(Implementations) /\ ToSet(Implementations) \subseteq I
  BY <1>2, <1>3, <1>4, <1>5
<1>7. ToSet(Implementations) = I
  BY <1>6
<1> QED BY <1>1, <1>7 DEF ImplementationNames

\* A capability that is not a passthrough's.
LEMMA CapabilityIs ==
  ASSUME NEW n \in ToSet(Implementations), NEW encoder, NEW decoder,
         AreFormats(encoder), AreFormats(decoder),
         \A f \in ToSet(encoder) :
           CreateVideo(Capability(n, encoder, decoder), "encoder", f)
             = Made(Capability(n, encoder, decoder), f.codec),
         \A f \in ToSet(decoder) :
           CreateVideo(Capability(n, encoder, decoder), "decoder", f)
             = Made(Capability(n, encoder, decoder), f.codec)
  PROVE  Makes(Capability(n, encoder, decoder))
<1> DEFINE C == Capability(n, encoder, decoder)
<1>1. /\ C.implementation = n /\ C.encoder = encoder /\ C.decoder = decoder
      /\ C["encoder"] = encoder /\ C["decoder"] = decoder
  BY DEF Capability
<1>2. n \in ImplementationNames /\ ~IsPassthrough(C)
  BY <1>1, ImplementationsAre DEF IsPassthrough
<1>3. \A d \in Directions : \A f \in ToSet(C[d]) : CreateVideo(C, d, f) = Made(C, f.codec)
  <2> HIDE DEF C
  <2> QED BY <1>1 DEF Directions, C
<1> HIDE DEF C
<1> QED BY <1>1, <1>2, <1>3 DEF Makes, C

\* libwebrtc's factories make what they list.
LEMMA InternalMakes ==
  ASSUME NEW n \in {"internal", "internal-apple"}, NEW encoder, NEW decoder,
         AreFormats(encoder), AreFormats(decoder)
  PROVE  Makes(Capability(n, encoder, decoder))
<1> DEFINE C == Capability(n, encoder, decoder)
<1>1. C.implementation = n /\ C["encoder"] = encoder /\ C["decoder"] = decoder
  BY DEF Capability
<1>2. n \in ToSet(Implementations)
  BY ImplementationsAre
<1> HIDE DEF C
<1>3. ASSUME NEW d, NEW f \in ToSet(C[d]) PROVE CreateVideo(C, d, f) = Made(C, f.codec)
  <2>1. CreateVideo(C, d, f) = CreateInternal(C, d, f)
    BY <1>1 DEF CreateVideo, IsPassthrough
  <2> QED BY <2>1, Zenon DEF CreateInternal, MadeIf, Unless
<1> QED BY <1>1, <1>2, <1>3, CapabilityIs DEF C

\* The formats that NVIDIA's library is asked for.
LEMMA NvCodecLists ==
  ASSUME NEW S
  PROVE  /\ AreFormats(NvCodecFormats(S))
         /\ \A f \in ToSet(NvCodecFormats(S)) :
              f.codec \in S /\ f.codec \in {"H264", "H265", "AV1", "VP8", "VP9"}
<1> DEFINE named == <<"H264", "H265", "AV1", "VP8", "VP9">>
<1>1. DOMAIN named = 1..5 /\ \A i \in 1..5 : named[i] \in {"H264", "H265", "AV1", "VP8", "VP9"}
  OBVIOUS
<1>2. NvCodecFormats(S) = CollectFormats(named, S)
  BY DEF NvCodecFormats
<1> HIDE DEF named
<1>3. \A i \in 1..5 : named[i] \in ToSet(VideoCodecTypes)
  BY <1>1, VideoTypes
<1>4. /\ AreFormats(CollectFormats(named, S))
      /\ \A f \in ToSet(CollectFormats(named, S)) : \E i \in 1..5 : f.codec = named[i]
  BY <1>1, <1>3, VendorFormats, 5 \in Nat
<1>5. \A f \in ToSet(CollectFormats(named, S)) : f.codec \in S
  BY <1>1, <1>3, VendorFormats, 5 \in Nat
<1> QED BY <1>1, <1>2, <1>4, <1>5

\* Of the vendors the codecs that a handler is configured for are the ones that are named.
LEMMA NvCodecMakes ==
  ASSUME NEW E, NEW D, E \cap {"VP8", "VP9"} = {}
  PROVE  Makes(Capability("nvcodec", NvCodecFormats(E), NvCodecFormats(D)))
<1> DEFINE C == Capability("nvcodec", NvCodecFormats(E), NvCodecFormats(D))
<1>1. C.implementation = "nvcodec"
  BY DEF Capability
<1> HIDE DEF C
<1>2. ASSUME NEW d, NEW f, f.codec \in NvCodecConfigs[d]
      PROVE  CreateVideo(C, d, f) = Made(C, f.codec)
  <2>1. CreateVideo(C, d, f) = CreateNvCodec(C, d, f)
    BY <1>1 DEF CreateVideo, IsPassthrough
  <2> QED BY <2>1, <1>2, Zenon DEF CreateNvCodec, MadeIf, Unless
<1>3. /\ NvCodecConfigs["encoder"] = {"H264", "H265", "AV1"}
      /\ NvCodecConfigs["decoder"] = {"H264", "H265", "AV1", "VP8", "VP9"}
  BY DEF NvCodecConfigs
<1>4. /\ \A f \in ToSet(NvCodecFormats(E)) : f.codec \in NvCodecConfigs["encoder"]
      /\ \A f \in ToSet(NvCodecFormats(D)) : f.codec \in NvCodecConfigs["decoder"]
  BY <1>3, NvCodecLists
<1>5. AreFormats(NvCodecFormats(E)) /\ AreFormats(NvCodecFormats(D))
  BY NvCodecLists
<1>6. "nvcodec" \in ToSet(Implementations)
  BY ImplementationsAre
<1> QED BY <1>2, <1>4, <1>5, <1>6, CapabilityIs DEF C

LEMMA VplMakes ==
  ASSUME NEW E, NEW D
  PROVE  Makes(Capability("vpl", VplFormats(E), VplFormats(D)))
<1> DEFINE C == Capability("vpl", VplFormats(E), VplFormats(D))
           named == <<"H264", "H265", "VP9", "AV1">>
<1>1. /\ C.implementation = "vpl"
      /\ C["encoder"] = VplFormats(E) /\ C["decoder"] = VplFormats(D)
  BY DEF Capability
<1>2. DOMAIN named = 1..4 /\ \A i \in 1..4 : named[i] \in {"H264", "H265", "VP9", "AV1"}
  OBVIOUS
<1>3. \A i \in 1..4 : named[i] \in ToSet(VideoCodecTypes)
  BY <1>2, VideoTypes
<1> HIDE DEF C
<1>4. ASSUME NEW S
      PROVE  /\ AreFormats(VplFormats(S))
             /\ \A f \in ToSet(VplFormats(S)) : f.codec \in {"H264", "H265", "VP9", "AV1"}
  <2>0. VplFormats(S) = CollectFormats(named, S)
    BY DEF VplFormats
  <2> HIDE DEF named
  <2>1. /\ AreFormats(CollectFormats(named, S))
        /\ \A f \in ToSet(CollectFormats(named, S)) : \E i \in 1..4 : f.codec = named[i]
    BY <1>2, <1>3, VendorFormats, 4 \in Nat
  <2> QED BY <1>2, <2>0, <2>1
<1>5. ASSUME NEW d \in Directions, NEW f, f.codec \in {"H264", "H265", "VP9", "AV1"}
      PROVE  CreateVideo(C, d, f) = Made(C, f.codec)
  <2>1. CreateVideo(C, d, f) = CreateVpl(C, d, f)
    BY <1>1 DEF CreateVideo, IsPassthrough
  <2>2. f.codec \in VplConfigs[d]
    BY <1>5 DEF VplConfigs, Directions
  <2> QED BY <2>1, <2>2, Zenon DEF CreateVpl, MadeIf, Unless
<1>6. "vpl" \in ToSet(Implementations) /\ "encoder" \in Directions /\ "decoder" \in Directions
  BY ImplementationsAre DEF Directions
<1> QED BY <1>4, <1>5, <1>6, CapabilityIs DEF C

LEMMA AmfMakes ==
  ASSUME NEW E, NEW D
  PROVE  Makes(Capability("amf", AmfFormats(E), AmfFormats(D)))
<1> DEFINE C == Capability("amf", AmfFormats(E), AmfFormats(D))
           named == <<"H264", "H265", "AV1">>
<1>1. /\ C.implementation = "amf"
      /\ C["encoder"] = AmfFormats(E) /\ C["decoder"] = AmfFormats(D)
  BY DEF Capability
<1>2. DOMAIN named = 1..3 /\ \A i \in 1..3 : named[i] \in {"H264", "H265", "AV1"}
  OBVIOUS
<1>3. \A i \in 1..3 : named[i] \in ToSet(VideoCodecTypes)
  BY <1>2, VideoTypes
<1> HIDE DEF C
<1>4. ASSUME NEW S
      PROVE  /\ AreFormats(AmfFormats(S))
             /\ \A f \in ToSet(AmfFormats(S)) : f.codec \in {"H264", "H265", "AV1"}
  <2>0. AmfFormats(S) = CollectFormats(named, S)
    BY DEF AmfFormats
  <2> HIDE DEF named
  <2>1. /\ AreFormats(CollectFormats(named, S))
        /\ \A f \in ToSet(CollectFormats(named, S)) : \E i \in 1..3 : f.codec = named[i]
    BY <1>2, <1>3, VendorFormats, 3 \in Nat
  <2> QED BY <1>2, <2>0, <2>1
<1>5. ASSUME NEW d \in Directions, NEW f, f.codec \in {"H264", "H265", "AV1"}
      PROVE  CreateVideo(C, d, f) = Made(C, f.codec)
  <2>1. CreateVideo(C, d, f) = CreateAmf(C, d, f)
    BY <1>1 DEF CreateVideo, IsPassthrough
  <2>2. f.codec \in AmfConfigs[d]
    BY <1>5 DEF AmfConfigs, Directions
  <2> QED BY <2>1, <2>2, Zenon DEF CreateAmf, MadeIf, Unless
<1>6. "amf" \in ToSet(Implementations) /\ "encoder" \in Directions /\ "decoder" \in Directions
  BY ImplementationsAre DEF Directions
<1> QED BY <1>4, <1>5, <1>6, CapabilityIs DEF C

LEMMA V4l2Makes == Makes(Capability("v4l2", V4l2Formats, V4l2Formats))
<1> DEFINE C == Capability("v4l2", V4l2Formats, V4l2Formats)
<1>1. C.implementation = "v4l2"
  BY DEF Capability
<1>2. AreFormats(V4l2Formats) /\ \A f \in ToSet(V4l2Formats) : f.codec = "H264"
  <2>1. "H264" \in ToSet(VideoCodecTypes)
    BY VideoTypes
  <2> QED BY <2>1, OneFormat, Zenon DEF V4l2Formats
<1> HIDE DEF C
<1>3. ASSUME NEW d, NEW f, f.codec = "H264"
      PROVE  CreateVideo(C, d, f) = Made(C, f.codec)
  <2>1. CreateVideo(C, d, f) = CreateV4l2(C, d, f)
    BY <1>1 DEF CreateVideo, IsPassthrough
  <2> QED BY <2>1, <1>3, Zenon DEF CreateV4l2, MadeIf, Unless
<1>4. "v4l2" \in ToSet(Implementations)
  BY ImplementationsAre
<1> QED BY <1>2, <1>3, <1>4, CapabilityIs DEF C

LEMMA Openh264Makes == Makes(Capability("openh264", Openh264Formats, Openh264Formats))
<1> DEFINE C == Capability("openh264", Openh264Formats, Openh264Formats)
<1>1. C.implementation = "openh264"
  BY DEF Capability
<1>2. AreFormats(Openh264Formats) /\ \A f \in ToSet(Openh264Formats) : f.codec = "H264"
  <2>1. "H264" \in ToSet(VideoCodecTypes)
    BY VideoTypes
  <2> QED BY <2>1, OneFormat, Zenon DEF Openh264Formats
<1> HIDE DEF C
<1>3. ASSUME NEW d, NEW f, f.codec = "H264"
      PROVE  CreateVideo(C, d, f) = Made(C, f.codec)
  <2>1. CreateVideo(C, d, f) = CreateOpenh264(C, d, f)
    BY <1>1 DEF CreateVideo, IsPassthrough
  <2> QED BY <2>1, <1>3, Zenon DEF CreateOpenh264, MadeIf, Unless
<1>4. "openh264" \in ToSet(Implementations)
  BY ImplementationsAre
<1> QED BY <1>2, <1>3, <1>4, CapabilityIs DEF C

\* A passthrough makes its one format.
LEMMA PassthroughMakes ==
  ASSUME NEW f, AreFormats(<<f>>)
  PROVE  Makes(NewPassthrough(f)) /\ IsPassthrough(NewPassthrough(f))
<1> DEFINE C == NewPassthrough(f)
<1>1. /\ C.implementation = "mp4-passthrough" /\ C["encoder"] = <<f>> /\ C.encoder = <<f>>
      /\ C["decoder"] = <<>> /\ C.decoder = <<>>
      /\ <<f>>[1] = f /\ ToSet(<<f>>) = {f} /\ ToSet(<<>>) = {}
  BY PassthroughLists
<1>2. C = Capability(C.implementation, C.encoder, C.decoder)
  BY DEF NewPassthrough, Capability
<1> HIDE DEF C
<1>3. "mp4-passthrough" \in ImplementationNames /\ AreFormats(<<>>)
  BY <1>1, ImplementationsAre DEF AreFormats
<1>4. CreateVideo(C, "encoder", f) = Made(C, f.codec)
  <2>1. CreateVideo(C, "encoder", f) = CreatePassthrough(C, "encoder", f)
    BY <1>1 DEF CreateVideo, IsPassthrough
  <2> QED BY <2>1, <1>1, Zenon DEF CreatePassthrough, MadeIf, Unless
<1>5. \A d \in Directions : \A g \in ToSet(C[d]) : CreateVideo(C, d, g) = Made(C, g.codec)
  BY <1>1, <1>4 DEF Directions
<1> QED BY <1>1, <1>2, <1>3, <1>5 DEF Makes, IsPassthrough, C

-----------------------------------------------------------------------------
(* Audio                                                                   *)

\* The codecs of audio, in their order.
LEMMA AudioTypes ==
  /\ DOMAIN AudioCodecTypes = 1..5 /\ \A i \in 1..5 : AudioCodecTypes[i] \in Codecs
  /\ ToSet(AudioCodecTypes) \in SUBSET Codecs
<1>1. DOMAIN AudioCodecTypes = 1..5
  BY DEF AudioCodecTypes
<1>2. \A i \in 1..5 : AudioCodecTypes[i] \in {"opus", "ISAC", "G722", "PCMA", "PCMU"}
  BY DEF AudioCodecTypes
<1>3. \A i \in 1..5 : AudioCodecTypes[i] \in Codecs
  BY <1>2 DEF Codecs
<1>4. ToSet(AudioCodecTypes) = {AudioCodecTypes[i] : i \in 1..5}
  BY <1>1, Zenon DEF ToSet
<1> QED BY <1>1, <1>3, <1>4

\* The specs of the format's codec.
LEMMA MatchingIs ==
  ASSUME NEW S, NEW s \in Seq(S), NEW format
  PROVE  /\ Matching(s, format) = OfThe(s, format.codec)
         /\ Matching(s, format) \in Seq(S)
         /\ ToSet(Matching(s, format)) = {x \in ToSet(s) : x.codec = format.codec}
<1>1. Matching(s, format) = OfThe(s, format.codec)
  BY DEF Matching, OfThe, Kept
<1> QED BY <1>1, OfCodec

\* A spec is offered where the implementation of an entry lists it for the entry's codec.
AudioOffered(p, caps, d, f) ==
  \E e \in ToSet(p) :
    /\ e.direction = d /\ f.codec = e.codec
    /\ FindAudioCapability(caps, e.implementation) # NoAudio
    /\ f \in ToSet(FindAudioCapability(caps, e.implementation)[d])

LEMMA SpecsAreCollected ==
  ASSUME NEW p \in Seq(EntryType), NEW d, NEW R, NEW caps \in Seq(R),
         \A i \in DOMAIN caps : caps[i][d] \in Seq(ToSet(caps[i][d]))
  PROVE  /\ CollectAudioCodecSpecs(p, caps, d) \in Seq(Listed(caps, d))
         /\ IsInjective(CollectAudioCodecSpecs(p, caps, d))
         /\ \A f : f \in ToSet(CollectAudioCodecSpecs(p, caps, d)) <=> AudioOffered(p, caps, d, f)
<1> DEFINE Cap(i) == FindAudioCapability(caps, p[i].implementation)
           I == {i \in DOMAIN p : p[i].direction = d /\ Cap(i) # NoAudio}
           has == [i \in I |-> Cap(i)[d]]
           formats == CollectAudioCodecSpecs(p, caps, d)
<1>1. ASSUME NEW i \in I PROVE has[i] = Cap(i)[d] /\ has[i] \in Seq(Listed(caps, d))
  <2>1. Cap(i) \in ToSet(caps)
    BY CapabilityFacts, Zenon
  <2>2. PICK j \in DOMAIN caps : caps[j] = Cap(i)
    BY <2>1 DEF ToSet
  <2>3. ToSet(caps[j][d]) \subseteq Listed(caps, d)
    BY DEF Listed
  <2>4. caps[j][d] \in Seq(Listed(caps, d))
    <3> DEFINE A == ToSet(caps[j][d])
               B == Listed(caps, d)
               s == caps[j][d]
    <3>1. s \in Seq(A)
      OBVIOUS
    <3>2. A \subseteq B
      BY <2>3
    <3> HIDE DEF A, B, s
    <3>3. s \in Seq(B)
      BY <3>1, <3>2
    <3> QED BY <3>3 DEF B, s
  <2> QED BY <2>2, <2>4
<1>2. formats = Collected(p, I, has)
  <2> DEFINE q == [i \in DOMAIN p |-> IF i \in I THEN OfThe(has[i], p[i].codec) ELSE <<>>]
             r == [i \in DOMAIN p |-> IF p[i].direction # d \/ Cap(i) = NoAudio THEN <<>>
                                      ELSE Matching(Cap(i)[d], [codec |-> p[i].codec])]
  <2>1. q = r
    <3>1. ASSUME NEW i \in I
          PROVE  OfThe(has[i], p[i].codec) = Matching(Cap(i)[d], [codec |-> p[i].codec])
      <4> DEFINE m == [codec |-> p[i].codec]
                 h == Cap(i)[d]
      <4>1. m.codec = p[i].codec /\ h \in Seq(Listed(caps, d)) /\ has[i] = h
        BY <1>1
      <4> HIDE DEF m, h
      <4>2. Matching(h, m) = OfThe(h, m.codec)
        BY <4>1, MatchingIs, Zenon
      <4> QED BY <4>1, <4>2, Zenon DEF m, h
    <3>2. \A i \in DOMAIN p : i \in I <=> ~(p[i].direction # d \/ Cap(i) = NoAudio)
      OBVIOUS
    <3> HIDE DEF I, has, Cap
    <3> QED BY <3>1, <3>2, Zenon
  <2>2. formats = Collecting!Folded(FlattenSeq(r), <<>>)
    BY DEF CollectAudioCodecSpecs, FoldLeft, MapThenFoldSet, Max, AddNewOne, Collecting!Folded,
           Collecting!FoldLeft, Collecting!MapThenFoldSet, Collecting!Max
  <2>3. Listing(p, I, has) = FlattenSeq(q)
    BY DEF Listing
  <2> HIDE DEF q, r, formats
  <2> QED BY <2>1, <2>2, <2>3 DEF Collected
<1>3. /\ formats \in Seq(Listed(caps, d)) /\ IsInjective(formats)
      /\ \A f : f \in ToSet(formats) <=> Lists(p, I, has, f)
  <2>1. I \in SUBSET DOMAIN p /\ \A i \in I : has[i] \in Seq(Listed(caps, d))
    BY <1>1
  <2> HIDE DEF I, has, formats
  <2>2. /\ Collected(p, I, has) \in Seq(Listed(caps, d)) /\ IsInjective(Collected(p, I, has))
        /\ \A f : f \in ToSet(Collected(p, I, has)) <=> Lists(p, I, has, f)
    BY <2>1, ListingCollects, Zenon
  <2> QED BY <1>2, <2>2, Zenon
<1>4. ASSUME NEW f PROVE Lists(p, I, has, f) <=> AudioOffered(p, caps, d, f)
  <2>1. ToSet(p) = {p[i] : i \in DOMAIN p}
    BY DEF ToSet
  <2>2. \A i \in I : has[i] = Cap(i)[d]
    OBVIOUS
  <2> HIDE DEF has
  <2> QED BY <2>1, <2>2 DEF Lists, AudioOffered
<1> HIDE DEF I, has, formats
<1> QED BY <1>3, <1>4, Zenon DEF formats

\* The preference of a capability of audio.
LEMMA NewAudioEntries ==
  ASSUME NEW C, C.implementation \in ImplementationNames
  PROVE  AudioPreference!NewFromCapability(C) \in Seq(EntryType)
<1> DEFINE Of(d, c) == OneIf(AudioIsSupported(C, d, c), d, c, C.implementation)
           q == [i \in 1..5 |-> Of("encoder", AudioCodecTypes[i]) \o Of("decoder", AudioCodecTypes[i])]
<1>1. ASSUME NEW d \in Directions, NEW c \in Codecs PROVE Of(d, c) \in Seq(EntryType)
  <2>1. AudioIsSupported(C, d, c) \in BOOLEAN
    BY DEF AudioIsSupported
  <2> QED BY <2>1, OneIfElements, Zenon
<1>2. DOMAIN AudioCodecTypes = 1..5 /\ \A i \in 1..5 : AudioCodecTypes[i] \in Codecs
  BY AudioTypes
<1>3. AudioPreference!NewFromCapability(C) = FlattenSeq(q)
  BY <1>2 DEF AudioPreference!NewFromCapability, AudioPreference!FlattenSeq, FlattenSeq,
       AudioPreference!Entry, OneIf, EntryOf
<1> HIDE DEF Of
<1>4. ASSUME NEW i \in 1..5 PROVE q[i] \in Seq(EntryType)
  <2>1. "encoder" \in Directions /\ "decoder" \in Directions /\ AudioCodecTypes[i] \in Codecs
    BY <1>2 DEF Directions
  <2>2. q[i] = Of("encoder", AudioCodecTypes[i]) \o Of("decoder", AudioCodecTypes[i])
    OBVIOUS
  <2>3. /\ Of("encoder", AudioCodecTypes[i]) \in Seq(EntryType)
        /\ Of("decoder", AudioCodecTypes[i]) \in Seq(EntryType)
    BY <2>1, <1>1, Zenon
  <2> HIDE DEF q
  <2> QED BY <2>2, <2>3, Joined
<1>5. q = [i \in 1..5 |-> q[i]] /\ DOMAIN q = 1..5
  OBVIOUS
<1> HIDE DEF q
<1>6. q \in [1..5 -> Seq(EntryType)]
  BY <1>4, <1>5
<1> QED BY <1>3, <1>6, Flattened, 5 \in Nat

\* Merging keeps entries.
LEMMA MergeKeepsEntries ==
  ASSUME NEW p \in Seq(EntryType), NEW o \in Seq(EntryType)
  PROVE  Merging!Folded(o, p) \in Seq(EntryType)
<1>1. ASSUME NEW q \in Seq(EntryType), NEW e \in EntryType
      PROVE  MergeEntry(q, e) \in Seq(EntryType)
  <2>1. CASE Place(q, e) = 0
    BY <2>1, Appended DEF MergeEntry
  <2>2. CASE Place(q, e) # 0
    <3>1. Place(q, e) \in DOMAIN q /\ SameKey(q[Place(q, e)], e)
      BY <2>2, PlaceFacts, Zenon
    <3>2. [q[Place(q, e)] EXCEPT !.implementation = e.implementation] = e
      BY <3>1, EntryIs
    <3>3. MergeEntry(q, e) = [q EXCEPT ![Place(q, e)] = e]
      BY <2>2, <3>2 DEF MergeEntry
    <3> QED BY <3>1, <3>3
  <2> QED BY <2>1, <2>2
<1>2. DOMAIN o = 1..Len(o) /\ Len(o) \in Nat /\ \A k \in 1..Len(o) : o[k] \in EntryType
  OBVIOUS
<1>3. \A q \in Seq(EntryType) : \A k \in 1..Len(o) : MergeEntry(q, o[k]) \in Seq(EntryType)
  BY <1>1, <1>2
<1> HIDE DEF MergeEntry
<1> QED BY <1>2, <1>3, Merging!FoldKeeps

-----------------------------------------------------------------------------
(* What the command line says                                              *)

\* Of the first n capabilities of has the last that supports it has an entry for each
\* direction and codec.
Says(has, n, e) ==
  \E i \in 1..n, d \in Directions, c \in ToSet(VideoCodecTypes) :
    /\ e = EntryOf(d, c, has[i].implementation) /\ IsSupported(has[i], d, c)
    /\ \A j \in i + 1..n : ~IsSupported(has[j], d, c)

ToldBy(p, has, n) ==
  /\ p \in Seq(EntryType) /\ OnePerKey(p)
  /\ \A e : e \in ToSet(p) <=> Says(has, n, e)

\* Nothing is told by none.
LEMMA NothingTold ==
  ASSUME NEW has
  PROVE  ToldBy(<<>>, has, 0)
<1>1. ToSet(<<>>) = {} /\ OnePerKey(<<>>) /\ <<>> \in Seq(EntryType)
  BY DEF ToSet, OnePerKey
<1>2. \A e : ~Says(has, 0, e)
  BY DEF Says
<1> QED BY <1>1, <1>2 DEF ToldBy

\* Entries of the same direction and codec have that of one.
LEMMA SameKeys ==
  ASSUME NEW d, NEW c, NEW i, NEW e, NEW a, NEW b, NEW j
  PROVE  /\ SameKey(EntryOf(d, c, i), EntryOf(a, b, j)) <=> d = a /\ c = b
         /\ EntryOf(d, c, i).direction = d /\ EntryOf(d, c, i).codec = c
         /\ EntryOf(d, c, i).implementation = i
BY DEF SameKey, EntryOf

\* Merging the next capability tells by one more.
LEMMA ToldByNext ==
  ASSUME NEW has, NEW n \in Nat, NEW p, ToldBy(p, has, n),
         has[n + 1].implementation \in ImplementationNames
  PROVE  ToldBy(Merge(p, NewFromCapability(has[n + 1])), has, n + 1)
<1> DEFINE C == has[n + 1]
           o == NewFromCapability(C)
           m == Merge(p, o)
           Supports(d, c) == IsSupported(C, d, c)
<1>1. /\ o \in Seq(EntryType)
      /\ \A e : e \in ToSet(o) <=>
           \E d \in Directions, c \in ToSet(VideoCodecTypes) :
             Supports(d, c) /\ e = EntryOf(d, c, C.implementation)
  <2>1. o = Preference!NewFromCapability(C)
    BY DEF NewFromCapability
  <2> HIDE DEF o, C
  <2> QED BY <2>1, NewEntries, Zenon DEF C
<1>2. p \in Seq(EntryType) /\ OnePerKey(p) /\ \A e : e \in ToSet(p) <=> Says(has, n, e)
  BY DEF ToldBy
<1> HIDE DEF o, Supports
<1>3. ASSUME NEW a \in ToSet(o), NEW b \in ToSet(o), SameKey(a, b) PROVE a = b
  <2>1. PICK d \in Directions, c \in ToSet(VideoCodecTypes) : a = EntryOf(d, c, C.implementation)
    BY <1>1
  <2>2. PICK f \in Directions, g \in ToSet(VideoCodecTypes) : b = EntryOf(f, g, C.implementation)
    BY <1>1
  <2>3. d = f /\ c = g
    BY <1>3, <2>1, <2>2, SameKeys
  <2> QED BY <2>1, <2>2, <2>3
<1>4. /\ m \in Seq(EntryType) /\ OnePerKey(m)
      /\ ToSet(m) = ToSet(o) \cup {x \in ToSet(p) : \A y \in ToSet(o) : ~SameKey(x, y)}
  <2>1. m = Merging!Folded(o, p)
    BY MergesAreFolds DEF Merge
  <2> HIDE DEF m
  <2> QED BY <1>1, <1>2, <1>3, <2>1, MergeFolds
<1> HIDE DEF m
<1>5. ASSUME NEW d, NEW c, NEW x \in ToSet(p), NEW i,
             x = EntryOf(d, c, i), d \in Directions, c \in ToSet(VideoCodecTypes)
      PROVE  (\A y \in ToSet(o) : ~SameKey(x, y)) <=> ~Supports(d, c)
  <2>1. ASSUME Supports(d, c) PROVE \E y \in ToSet(o) : SameKey(x, y)
    <3>1. EntryOf(d, c, C.implementation) \in ToSet(o)
      BY <1>1, <1>5, <2>1
    <3> QED BY <3>1, <1>5, SameKeys
  <2>2. ASSUME NEW y \in ToSet(o), SameKey(x, y) PROVE Supports(d, c)
    <3>1. PICK a \in Directions, b \in ToSet(VideoCodecTypes) :
            Supports(a, b) /\ y = EntryOf(a, b, C.implementation)
      BY <1>1
    <3>2. a = d /\ b = c
      BY <1>5, <2>2, <3>1, SameKeys
    <3> QED BY <3>1, <3>2
  <2> QED BY <2>1, <2>2
<1>6. ASSUME NEW e, Says(has, n + 1, e) PROVE e \in ToSet(m)
  <2>1. PICK i \in 1..n + 1, d \in Directions, c \in ToSet(VideoCodecTypes) :
          /\ e = EntryOf(d, c, has[i].implementation) /\ IsSupported(has[i], d, c)
          /\ \A j \in i + 1..n + 1 : ~IsSupported(has[j], d, c)
    BY <1>6 DEF Says
  <2>2. CASE i = n + 1
    BY <1>1, <1>4, <2>1, <2>2 DEF Supports
  <2>3. CASE i # n + 1
    <3>1. i \in 1..n /\ n + 1 \in i + 1..n + 1 /\ \A j \in i + 1..n : j \in i + 1..n + 1
      BY <2>3
    <3>2. Says(has, n, e) /\ ~Supports(d, c)
      BY <2>1, <3>1 DEF Says, Supports
    <3> QED BY <1>2, <1>4, <1>5, <2>1, <3>2
  <2> QED BY <2>2, <2>3
<1>7. ASSUME NEW e \in ToSet(m) PROVE Says(has, n + 1, e)
  <2>1. CASE e \in ToSet(o)
    <3>1. PICK d \in Directions, c \in ToSet(VideoCodecTypes) :
            Supports(d, c) /\ e = EntryOf(d, c, C.implementation)
      BY <1>1, <2>1
    <3>2. n + 1 \in 1..n + 1 /\ (n + 1) + 1..n + 1 = {}
      OBVIOUS
    <3> QED BY <3>1, <3>2 DEF Says, Supports
  <2>2. CASE e \in ToSet(p) /\ \A y \in ToSet(o) : ~SameKey(e, y)
    <3>1. PICK i \in 1..n, d \in Directions, c \in ToSet(VideoCodecTypes) :
            /\ e = EntryOf(d, c, has[i].implementation) /\ IsSupported(has[i], d, c)
            /\ \A j \in i + 1..n : ~IsSupported(has[j], d, c)
      BY <1>2, <2>2 DEF Says
    <3>2. ~Supports(d, c)
      BY <1>5, <2>2, <3>1
    <3>3. i \in 1..n + 1 /\ \A j \in i + 1..n + 1 : j \in i + 1..n \/ j = n + 1
      OBVIOUS
    <3> QED BY <3>1, <3>2, <3>3 DEF Says, Supports
  <2> QED BY <1>4, <2>1, <2>2
<1>8. ToldBy(m, has, n + 1)
  BY <1>4, <1>6, <1>7 DEF ToldBy
<1> QED BY <1>8 DEF m, o

\* One that supports nothing changes nothing.
LEMMA ToldByIdle ==
  ASSUME NEW has, NEW n \in Nat, NEW p, ToldBy(p, has, n),
         \A d \in Directions, c \in ToSet(VideoCodecTypes) : ~IsSupported(has[n + 1], d, c)
  PROVE  ToldBy(p, has, n + 1)
<1>1. ASSUME NEW e, Says(has, n + 1, e) PROVE Says(has, n, e)
  <2>1. PICK i \in 1..n + 1, d \in Directions, c \in ToSet(VideoCodecTypes) :
          /\ e = EntryOf(d, c, has[i].implementation) /\ IsSupported(has[i], d, c)
          /\ \A j \in i + 1..n + 1 : ~IsSupported(has[j], d, c)
    BY <1>1 DEF Says
  <2>2. i \in 1..n /\ \A j \in i + 1..n : j \in i + 1..n + 1
    BY <2>1
  <2> QED BY <2>1, <2>2 DEF Says
<1>2. ASSUME NEW e, Says(has, n, e) PROVE Says(has, n + 1, e)
  <2>1. PICK i \in 1..n, d \in Directions, c \in ToSet(VideoCodecTypes) :
          /\ e = EntryOf(d, c, has[i].implementation) /\ IsSupported(has[i], d, c)
          /\ \A j \in i + 1..n : ~IsSupported(has[j], d, c)
    BY <1>2 DEF Says
  <2>2. i \in 1..n + 1 /\ \A j \in i + 1..n + 1 : j \in i + 1..n \/ j = n + 1
    OBVIOUS
  <2> QED BY <2>1, <2>2 DEF Says
<1> QED BY <1>1, <1>2 DEF ToldBy

\* What --video-codec-list reports of one probe.
ReportedOne(preference, probe) ==
  IF probe.capability = NoVideo THEN preference
  ELSE Merge(preference, NewFromCapability(probe.capability))

Reporting == INSTANCE Folding WITH Op <- ReportedOne

\* A report of probes that find each capability, or none where it supports nothing, tells
\* what they say.
LEMMA ReportTells ==
  ASSUME NEW has, NEW m \in Nat, NEW probes, DOMAIN probes = 1..m,
         \A i \in 1..m :
           /\ has[i] # NoVideo /\ has[i].implementation \in ImplementationNames
           /\ \/ probes[i].capability = has[i]
              \/ /\ probes[i].capability = NoVideo
                 /\ \A d \in Directions, c \in ToSet(VideoCodecTypes) : ~IsSupported(has[i], d, c)
  PROVE  ToldBy(Reporting!Folded(probes, <<>>), has, m)
<1>1. PICK f : Reporting!Runs(f, probes, <<>>, m) /\ Reporting!Folded(probes, <<>>) = f[m]
  BY Reporting!FoldRuns
<1>2. f[0] = <<>> /\ \A k \in 1..m : f[k] = ReportedOne(f[k - 1], probes[k])
  BY <1>1 DEF Reporting!Runs
<1> DEFINE T == {k \in Nat : k <= m => ToldBy(f[k], has, k)}
<1>3. 0 \in T
  BY <1>2, NothingTold
<1>4. ASSUME NEW k \in Nat, k \in T PROVE k + 1 \in T
  <2>1. ASSUME k + 1 <= m PROVE ToldBy(f[k + 1], has, k + 1)
    <3>1. k + 1 \in 1..m /\ (k + 1) - 1 = k /\ ToldBy(f[k], has, k)
      BY <1>4, <2>1
    <3>2. f[k + 1] = ReportedOne(f[k], probes[k + 1])
      BY <1>2, <3>1
    <3>3. ASSUME probes[k + 1].capability = has[k + 1]
          PROVE  ToldBy(f[k + 1], has, k + 1)
      <4>1. f[k + 1] = Merge(f[k], NewFromCapability(has[k + 1]))
        BY <3>1, <3>2, <3>3 DEF ReportedOne
      <4> QED BY <3>1, <4>1, ToldByNext
    <3>4. ASSUME probes[k + 1].capability = NoVideo,
                 \A d \in Directions, c \in ToSet(VideoCodecTypes) : ~IsSupported(has[k + 1], d, c)
          PROVE  ToldBy(f[k + 1], has, k + 1)
      <4>1. f[k + 1] = f[k]
        BY <3>2, <3>4 DEF ReportedOne
      <4> QED BY <3>1, <3>4, <4>1, ToldByIdle
    <3> QED BY <3>1, <3>3, <3>4
  <2> QED BY <2>1
<1> HIDE DEF T
<1>5. m \in T
  BY <1>3, <1>4, Reporting!Induction
<1> QED BY <1>1, <1>5 DEF T

-----------------------------------------------------------------------------
(* The configuration                                                       *)

\* The capability of an implementation that sumomo names makes what it lists, and has its
\* name.
LEMMA NewCapabilityMakes ==
  ASSUME machine \in Machines, NEW n \in ToSet(Implementations), NewCapability(n) # NoVideo
  PROVE  /\ Makes(NewCapability(n)) /\ NewCapability(n).implementation = n
         /\ n \in ImplementationNames /\ ~IsPassthrough(NewCapability(n))
<1> DEFINE device == machine.devices[n]
           C == NewCapability(n)
<1>1. n \in {"internal", "internal-apple", "amf", "nvcodec", "vpl", "v4l2", "openh264"}
  BY ImplementationsAre
<1>2. \A a, b, c : Capability(a, b, c).implementation = a
  BY DEF Capability
<1>3. n \in ImplementationNames /\ n # "mp4-passthrough"
  BY ImplementationsAre
<1>4. Makes(C) /\ C.implementation = n
  <2>1. CASE n = "internal"
    <3>1. C = Capability(n, device.encoder, device.decoder)
      BY <2>1 DEF NewCapability, NewInternal, Vendors
    <3>2. AreFormats(device.encoder) /\ AreFormats(device.decoder)
      <4>1. machine.devices["internal"] # NoVideo
        BY SelectionAssumption
      <4>2. /\ AreFormats(machine.devices["internal"]["encoder"])
            /\ AreFormats(machine.devices["internal"]["decoder"])
        BY <4>1, SelectionAssumption
      <4> QED BY <2>1, <4>2
    <3> QED BY <1>2, <2>1, <3>1, <3>2, InternalMakes
  <2>2. CASE n = "internal-apple"
    <3>1. device # NoVideo /\ C = Capability(n, device.encoder, device.decoder)
      BY <2>2 DEF NewCapability, NewInternalApple, Vendors, Unless
    <3>2. AreFormats(device.encoder) /\ AreFormats(device.decoder)
      <4>1. machine.devices["internal-apple"] # NoVideo
        BY <2>2, <3>1
      <4>2. /\ AreFormats(machine.devices["internal-apple"]["encoder"])
            /\ AreFormats(machine.devices["internal-apple"]["decoder"])
        BY <4>1, SelectionAssumption
      <4> QED BY <2>2, <4>2
    <3> QED BY <1>2, <2>2, <3>1, <3>2, InternalMakes
  <2>3. CASE n = "amf"
    <3>1. C = Capability("amf", AmfFormats(device.encoder), AmfFormats(device.decoder))
      BY <2>3 DEF NewCapability, NewAmf, Unless
    <3> QED BY <1>2, <2>3, <3>1, AmfMakes
  <2>4. CASE n = "nvcodec"
    <3>1. /\ device # NoVideo
          /\ C = Capability("nvcodec", NvCodecFormats(device.encoder), NvCodecFormats(device.decoder))
      BY <2>4 DEF NewCapability, NewNvCodec, Unless
    <3>2. device.encoder \cap {"VP8", "VP9"} = {}
      BY <2>4, <3>1, SelectionAssumption
    <3> QED BY <1>2, <2>4, <3>1, <3>2, NvCodecMakes
  <2>5. CASE n = "vpl"
    <3>1. C = Capability("vpl", VplFormats(device.encoder), VplFormats(device.decoder))
      BY <2>5 DEF NewCapability, NewVpl, Unless
    <3> QED BY <1>2, <2>5, <3>1, VplMakes
  <2>6. CASE n = "v4l2"
    <3>1. C = Capability("v4l2", V4l2Formats, V4l2Formats)
      BY <2>6 DEF NewCapability, NewV4l2, Unless
    <3> QED BY <1>2, <2>6, <3>1, V4l2Makes
  <2>7. CASE n = "openh264"
    <3>1. C = Capability("openh264", Openh264Formats, Openh264Formats)
      BY <2>7 DEF NewCapability, NewOpenh264, Unless, Vendors
    <3> QED BY <1>2, <2>7, <3>1, Openh264Makes
  <2> QED BY <1>1, <2>1, <2>2, <2>3, <2>4, <2>5, <2>6, <2>7
<1> QED BY <1>3, <1>4 DEF IsPassthrough

\* A capability that a context of this command line may have.
Capable(C) ==
  Makes(C) /\ (IsPassthrough(C) => args.mp4 # NoVideo /\ C = NewPassthrough(args.mp4))

Fields == {"preference", "capabilities", "audioPreference", "audioCapabilities"}

ConfigOK(c) ==
  /\ DOMAIN c = Fields
  /\ c.preference \in Seq(EntryType) /\ c.audioPreference \in Seq(EntryType)
  /\ c.capabilities \in Seq(ToSet(c.capabilities)) /\ \A C \in ToSet(c.capabilities) : Capable(C)
  /\ c.audioCapabilities \in Seq({NewInternalAudio(machine.audio)})

\* What adding a capability changes.
LEMMA AddedIs ==
  ASSUME NEW c, DOMAIN c = Fields, NEW C
  PROVE  /\ DOMAIN Added(c, C) = Fields
         /\ Added(c, C).preference = Merge(c.preference, NewFromCapability(C))
         /\ Added(c, C).capabilities = Append(c.capabilities, C)
         /\ Added(c, C).audioPreference = c.audioPreference
         /\ Added(c, C).audioCapabilities = c.audioCapabilities
<1> DEFINE m == Merge(c.preference, NewFromCapability(C))
           l == Append(c.capabilities, C)
<1>1. Added(c, C) = [c EXCEPT !.preference = m, !.capabilities = l]
  BY DEF Added
<1> HIDE DEF m, l
<1>2. /\ DOMAIN [c EXCEPT !.preference = m, !.capabilities = l] = Fields
      /\ [c EXCEPT !.preference = m, !.capabilities = l].preference = m
      /\ [c EXCEPT !.preference = m, !.capabilities = l].capabilities = l
      /\ [c EXCEPT !.preference = m, !.capabilities = l].audioPreference = c.audioPreference
      /\ [c EXCEPT !.preference = m, !.capabilities = l].audioCapabilities = c.audioCapabilities
  BY DEF Fields
<1> QED BY <1>1, <1>2 DEF m, l

\* More capabilities.
LEMMA CapabilitiesAppended ==
  ASSUME NEW s, s \in Seq(ToSet(s)), NEW x
  PROVE  Append(s, x) \in Seq(ToSet(Append(s, x))) /\ ToSet(Append(s, x)) = ToSet(s) \cup {x}
<1> DEFINE B == ToSet(s) \cup {x}
           A == ToSet(s)
<1>1. s \in Seq(B)
  <2>1. A \subseteq B /\ s \in Seq(A)
    OBVIOUS
  <2> HIDE DEF A, B
  <2> QED BY <2>1
<1>2. x \in B
  OBVIOUS
<1> HIDE DEF B
<1>3. Append(s, x) \in Seq(B) /\ ToSet(Append(s, x)) = ToSet(s) \cup {x}
  BY <1>1, <1>2, Appended
<1> QED BY <1>3, OwnElements

\* Adding one keeps a configuration's types.
LEMMA AddedIsOK ==
  ASSUME NEW c, ConfigOK(c), NEW C, Capable(C)
  PROVE  ConfigOK(Added(c, C))
<1> DEFINE o == NewFromCapability(C)
<1>1. /\ DOMAIN c = Fields /\ c.preference \in Seq(EntryType)
      /\ c.capabilities \in Seq(ToSet(c.capabilities)) /\ \A D \in ToSet(c.capabilities) : Capable(D)
  BY DEF ConfigOK
<1>2. o \in Seq(EntryType)
  <2>1. C.implementation \in ImplementationNames
    BY DEF Capable, Makes
  <2> QED BY <2>1, NewEntries, Zenon DEF NewFromCapability
<1>3. Merge(c.preference, o) \in Seq(EntryType)
  <2> HIDE DEF o
  <2>1. Merge(c.preference, o) = Merging!Folded(o, c.preference)
    BY MergesAreFolds DEF Merge
  <2> QED BY <1>1, <1>2, <2>1, MergeKeepsEntries
<1>4. /\ Append(c.capabilities, C) \in Seq(ToSet(Append(c.capabilities, C)))
      /\ ToSet(Append(c.capabilities, C)) = ToSet(c.capabilities) \cup {C}
  BY <1>1, CapabilitiesAppended, Zenon
<1>5. /\ DOMAIN Added(c, C) = Fields
      /\ Added(c, C).preference = Merge(c.preference, o)
      /\ Added(c, C).capabilities = Append(c.capabilities, C)
      /\ Added(c, C).audioPreference = c.audioPreference
      /\ Added(c, C).audioCapabilities = c.audioCapabilities
  BY <1>1, AddedIs
<1>6. c.audioPreference \in Seq(EntryType) /\ c.audioCapabilities \in Seq({NewInternalAudio(machine.audio)})
  BY DEF ConfigOK
<1>7. \A D \in ToSet(Append(c.capabilities, C)) : Capable(D)
  BY <1>1, <1>4
<1> HIDE DEF o
<1> QED BY <1>3, <1>4, <1>5, <1>6, <1>7 DEF ConfigOK

\* So does adding WebRTC's audio, which leaves video as it is.
LEMMA WithAudioIsOK ==
  ASSUME NEW c, ConfigOK(c)
  PROVE  /\ ConfigOK(WithAudio(c))
         /\ WithAudio(c).preference = c.preference /\ WithAudio(c).capabilities = c.capabilities
<1> DEFINE internal == NewInternalAudio(machine.audio)
           o == AudioNewFromCapability(internal)
           m == AudioMerge(<<>>, o)
           w == [c EXCEPT !.audioPreference = m, !.audioCapabilities = <<internal>>]
<1>1. WithAudio(c) = w
  BY DEF WithAudio
<1>2. o \in Seq(EntryType)
  <2>1. internal.implementation \in ImplementationNames
    BY ImplementationsAre DEF NewInternalAudio
  <2> HIDE DEF internal
  <2> QED BY <2>1, NewAudioEntries, Zenon DEF AudioNewFromCapability
<1> HIDE DEF o
<1>3. m \in Seq(EntryType)
  <2>1. m = Merging!Folded(o, <<>>) /\ <<>> \in Seq(EntryType)
    BY AudioMergesAreFolds DEF AudioMerge
  <2> HIDE DEF m
  <2> QED BY <1>2, <2>1, MergeKeepsEntries
<1> HIDE DEF m, internal
<1>4. <<internal>> \in Seq({internal})
  OBVIOUS
<1>5. /\ DOMAIN c = Fields /\ c.preference \in Seq(EntryType)
      /\ c.capabilities \in Seq(ToSet(c.capabilities)) /\ \A D \in ToSet(c.capabilities) : Capable(D)
  BY DEF ConfigOK
<1>6. /\ DOMAIN w = Fields /\ w.preference = c.preference /\ w.capabilities = c.capabilities
      /\ w.audioPreference = m /\ w.audioCapabilities = <<internal>>
  BY <1>5 DEF Fields
<1> HIDE DEF w
<1> QED BY <1>1, <1>3, <1>4, <1>5, <1>6 DEF ConfigOK, internal

-----------------------------------------------------------------------------
(* The invariant                                                           *)

\* The capabilities of the implementations that the command line selects, in its order.
Has == [i \in DOMAIN SelectedImplementations |-> NewCapability(SelectedImplementations[i])]

\* How many of them were added.
Told == Len(SelectedImplementations) - Len(remaining)

\* The entry of the file that is sent.
Sent == EntryOf("encoder", args.mp4.codec, "mp4-passthrough")

SelectionTypes ==
  /\ machine \in Machines /\ args \in Arguments /\ step \in Steps
  /\ ConfigOK(config)
  /\ remaining \in Seq(ToSet(Implementations))
  /\ DOMAIN connect = {"video", "capturer"}

\* What was added so far is what the first of the names say, and the others remain.
AddedSoFar ==
  /\ Told \in Nat
  /\ \A k \in 1..Len(remaining) : remaining[k] = SelectedImplementations[Told + k]
  /\ ToldBy(config.preference, Has, Told)
  /\ \A i \in 1..Told : Has[i] # NoVideo

\* All were; of the encoders a file's is left alone.
BuiltAsTold ==
  /\ \A i \in DOMAIN Has : Has[i] # NoVideo
  /\ args.mp4 = NoVideo => ToldBy(config.preference, Has, Len(SelectedImplementations))
  /\ args.mp4 # NoVideo =>
       \A e : e \in ToSet(config.preference) <=>
                \/ e.direction = "decoder" /\ Says(Has, Len(SelectedImplementations), e)
                \/ e = Sent

IsValid ==
  /\ ValidateVideoCodecPreference(config.preference, config.capabilities)
  /\ ValidateAudioCodecPreference(config.audioPreference, config.audioCapabilities)

SendsFile ==
  args.mp4 # NoVideo =>
    /\ Sent \in ToSet(config.preference)
    /\ \A e \in ToSet(config.preference) : e.direction = "encoder" => e = Sent

SelectionInv ==
  /\ SelectionTypes
  /\ step \in {"typed", "checked"} => config.preference = <<>> /\ config.capabilities = <<>>
  /\ step \in {"checked", "adding", "built"} => Parses(args.implementations)
  /\ step = "adding" => AddedSoFar
  /\ step = "built" => BuiltAsTold
  /\ step \in {"created", "created edited", "connecting"} => IsValid
  /\ step \in {"created", "connecting"} => SendsFile
  /\ step = "connecting" => connect = [video |-> Video, capturer |-> Capturer]

\* What the machine and the arguments say does not change.
LEMMA WordsStay ==
  ASSUME UNCHANGED <<machine, args>>
  PROVE  /\ SelectedImplementations' = SelectedImplementations /\ Has' = Has /\ Sent' = Sent
         /\ ConfigOK(config') => ConfigOK(config)'
<1>1. \A n : NewCapability(n)' = NewCapability(n)
  BY DEF NewCapability
<1>2. SelectedImplementations' = SelectedImplementations
  BY DEF SelectedImplementations, Probe, NewCapability
<1>3. Has' = Has
  BY <1>1, <1>2, Zenon DEF Has
<1>4. Sent' = Sent
  BY DEF Sent
<1>5. ConfigOK(config') => ConfigOK(config)'
  BY DEF ConfigOK, Capable
<1> QED BY <1>2, <1>3, <1>4, <1>5

\* The selected implementations are known.
LEMMA SelectedAre ==
  ASSUME args \in Arguments, Parses(args.implementations)
  PROVE  /\ SelectedImplementations \in Seq(ToSet(Implementations))
         /\ Len(SelectedImplementations) \in Nat
         /\ DOMAIN SelectedImplementations = 1..Len(SelectedImplementations)
         /\ DOMAIN Has = 1..Len(SelectedImplementations)
         /\ \A i \in 1..Len(SelectedImplementations) :
              /\ SelectedImplementations[i] \in ToSet(Implementations)
              /\ Has[i] = NewCapability(SelectedImplementations[i])
<1>1. SelectedImplementations \in Seq(ToSet(Implementations))
  <2>1. CASE args.implementations # AutoSelection
    <3>1. /\ args.implementations \in Seq(ToSet(args.implementations))
          /\ ToSet(args.implementations) \subseteq ToSet(Implementations)
      BY <2>1, SelectionAssumption DEF Parses
    <3> DEFINE A == ToSet(args.implementations)
               B == ToSet(Implementations)
               s == args.implementations
    <3>2. s \in Seq(A) /\ A \subseteq B
      BY <3>1
    <3>3. SelectedImplementations = s
      BY <2>1 DEF SelectedImplementations
    <3> HIDE DEF A, B, s
    <3>4. s \in Seq(B)
      BY <3>2
    <3> QED BY <3>3, <3>4 DEF B
  <2>2. CASE args.implementations = AutoSelection
    <3>1. SelectedImplementations \in {<<"internal">>, <<"internal", "internal-apple">>}
      BY <2>2 DEF SelectedImplementations
    <3>2. "internal" \in ToSet(Implementations) /\ "internal-apple" \in ToSet(Implementations)
      BY ImplementationsAre
    <3> DEFINE B == ToSet(Implementations)
    <3> HIDE DEF B
    <3>3. <<"internal">> \in Seq(B) /\ <<"internal", "internal-apple">> \in Seq(B)
      BY <3>2 DEF B
    <3> QED BY <3>1, <3>3 DEF B
  <2> QED BY <2>1, <2>2
<1> QED BY <1>1 DEF Has

\* A capability that supports nothing tells nothing.
LEMMA ToldByNothing ==
  ASSUME NEW has, NEW n, NEW p, ToldBy(p, has, n), NEW C, C.implementation \in ImplementationNames,
         \A d \in Directions, c \in ToSet(VideoCodecTypes) : ~IsSupported(C, d, c)
  PROVE  ToldBy(Merge(p, NewFromCapability(C)), has, n)
<1> DEFINE o == NewFromCapability(C)
           m == Merge(p, o)
<1>1. o \in Seq(EntryType) /\ ToSet(o) = {}
  <2>1. o = Preference!NewFromCapability(C)
    BY DEF NewFromCapability
  <2> HIDE DEF o
  <2>2. /\ o \in Seq(EntryType)
        /\ \A e : e \in ToSet(o) <=> \E d \in Directions, c \in ToSet(VideoCodecTypes) :
                    IsSupported(C, d, c) /\ e = EntryOf(d, c, C.implementation)
    BY <2>1, NewEntries, Zenon
  <2> QED BY <2>2
<1>2. m = Merging!Folded(o, p)
  BY MergesAreFolds DEF Merge
<1>3. p \in Seq(EntryType) /\ OnePerKey(p) /\ \A e : e \in ToSet(p) <=> Says(has, n, e)
  BY DEF ToldBy
<1> HIDE DEF o, m
<1>4. /\ m \in Seq(EntryType) /\ OnePerKey(m)
      /\ ToSet(m) = ToSet(o) \cup {x \in ToSet(p) : \A y \in ToSet(o) : ~SameKey(x, y)}
  BY <1>1, <1>2, <1>3, MergeFolds
<1>5. ToldBy(m, has, n)
  BY <1>1, <1>3, <1>4 DEF ToldBy
<1> QED BY <1>5 DEF m, o

\* The initial states keep the invariant.
LEMMA SelectionStarts == SelectionInit => SelectionInv
<1> SUFFICES ASSUME SelectionInit PROVE SelectionInv
  OBVIOUS
<1>1. /\ machine \in Machines /\ args \in Arguments /\ step = "typed" /\ remaining = <<>>
      /\ config = [preference |-> <<>>, capabilities |-> <<>>,
                   audioPreference |-> <<>>, audioCapabilities |-> <<>>]
      /\ connect = NoConnect
  BY DEF SelectionInit
<1>2. ToSet(<<>>) = {} /\ \A S : <<>> \in Seq(S)
  BY DEF ToSet
<1>3. ConfigOK(config)
  BY <1>1, <1>2 DEF ConfigOK, Fields
<1>4. DOMAIN connect = {"video", "capturer"} /\ step \in Steps /\ remaining \in Seq(ToSet(Implementations))
  BY <1>1, <1>2 DEF NoConnect, Steps
<1> QED BY <1>1, <1>3, <1>4 DEF SelectionInv, SelectionTypes

\* The internal implementation is always there.
LEMMA InternalIsThere ==
  ASSUME machine \in Machines
  PROVE  NewCapability("internal") # NoVideo
BY SelectionAssumption DEF NewCapability, Vendors

\* The default is what selecting the internal implementations says.
LEMMA DefaultIsTold ==
  ASSUME machine \in Machines, args \in Arguments, args.implementations = AutoSelection,
         ConfigOK(config), config.preference = <<>>
  PROVE  /\ ConfigOK(Default)
         /\ ToldBy(Default.preference, Has, Len(SelectedImplementations))
         /\ \A i \in DOMAIN Has : Has[i] # NoVideo
<1> DEFINE I == NewCapability("internal")
           A == NewCapability("internal-apple")
           c == Added(WithAudio(config), I)
           d == Added(c, A)
<1>1. I # NoVideo /\ Makes(I) /\ I.implementation \in ImplementationNames /\ ~IsPassthrough(I)
  <2>1. "internal" \in ToSet(Implementations)
    BY ImplementationsAre
  <2> QED BY <2>1, InternalIsThere, NewCapabilityMakes, Zenon
<1>2. ASSUME A # NoVideo
      PROVE  Makes(A) /\ A.implementation \in ImplementationNames /\ ~IsPassthrough(A)
  <2>1. "internal-apple" \in ToSet(Implementations)
    BY ImplementationsAre
  <2> QED BY <1>2, <2>1, NewCapabilityMakes, Zenon
<1>3. Capable(I) /\ (A # NoVideo => Capable(A))
  BY <1>1, <1>2 DEF Capable
<1>4. Default = IF A = NoVideo THEN c ELSE d
  BY DEF Default
<1> HIDE DEF I, A
<1>5. ConfigOK(WithAudio(config)) /\ WithAudio(config).preference = <<>>
  BY WithAudioIsOK
<1>6. ConfigOK(c) /\ c.preference = Merge(<<>>, NewFromCapability(I))
  BY <1>3, <1>5, AddedIsOK, AddedIs DEF ConfigOK
<1> HIDE DEF c
<1>7. A # NoVideo => ConfigOK(d) /\ d.preference = Merge(c.preference, NewFromCapability(A))
  BY <1>3, <1>6, AddedIsOK, AddedIs DEF ConfigOK
<1> HIDE DEF d
<1> DEFINE many == A # NoVideo /\ HasAnyCodecSupport(A)
<1>8. SelectedImplementations = IF many THEN <<"internal", "internal-apple">> ELSE <<"internal">>
  BY DEF SelectedImplementations, Probe, Unless, A
<1>9. \A e \in Directions, k \in ToSet(VideoCodecTypes) :
        ~HasAnyCodecSupport(A) => ~IsSupported(A, e, k)
  BY VideoTypes DEF HasAnyCodecSupport, Directions
<1>10. 0 \in Nat /\ 0 + 1 = 1 /\ 1 \in Nat /\ 1 + 1 = 2
  OBVIOUS
<1>11. CASE many
  <2>1. /\ Len(SelectedImplementations) = 2 /\ Has[1] = I /\ Has[2] = A
        /\ DOMAIN Has = 1..2
    BY <1>8, <1>11 DEF Has, I, A
  <2>2. ToldBy(c.preference, Has, 1)
    BY <1>1, <1>6, <1>10, <2>1, NothingTold, ToldByNext
  <2>3. ToldBy(d.preference, Has, 2)
    BY <1>2, <1>7, <1>10, <1>11, <2>1, <2>2, ToldByNext
  <2> QED BY <1>1, <1>4, <1>7, <1>11, <2>1, <2>3
<1>12. CASE ~many
  <2>1. Len(SelectedImplementations) = 1 /\ Has[1] = I /\ DOMAIN Has = 1..1
    BY <1>8, <1>12 DEF Has, I
  <2>2. ToldBy(c.preference, Has, 1)
    BY <1>1, <1>6, <1>10, <2>1, NothingTold, ToldByNext
  <2>3. A # NoVideo => ToldBy(d.preference, Has, 1)
    BY <1>2, <1>7, <1>9, <1>12, <2>2, ToldByNothing
  <2> QED BY <1>1, <1>4, <1>6, <1>7, <2>1, <2>2, <2>3
<1> QED BY <1>11, <1>12

-----------------------------------------------------------------------------
(* The steps                                                               *)

\* What no step after it has to say anything of.
LEMMA RefuseKeeps == SelectionInv /\ Refuse => SelectionInv'
<1> SUFFICES ASSUME SelectionInv, Refuse PROVE SelectionInv'
  OBVIOUS
<1>1. step' = "refused" /\ UNCHANGED <<machine, args, remaining, config, connect>>
  BY DEF Refuse
<1>2. ConfigOK(config)'
  BY <1>1, WordsStay DEF SelectionInv, SelectionTypes
<1>3. SelectionTypes'
  BY <1>1, <1>2 DEF SelectionInv, SelectionTypes, Steps
<1> QED BY <1>1, <1>3 DEF SelectionInv

LEMMA CheckArgumentsKeeps == SelectionInv /\ CheckArguments => SelectionInv'
<1> SUFFICES ASSUME SelectionInv, CheckArguments PROVE SelectionInv'
  OBVIOUS
<1>1. CASE Refuse
  BY <1>1, RefuseKeeps
<1>2. CASE ~Refuse
  <2>1. /\ step = "typed" /\ step' = "checked" /\ Parses(args.implementations)
        /\ UNCHANGED <<machine, args, remaining, config, connect>>
    BY <1>2 DEF CheckArguments
  <2>2. ConfigOK(config)'
    BY <2>1, WordsStay DEF SelectionInv, SelectionTypes
  <2>3. SelectionTypes'
    BY <2>1, <2>2 DEF SelectionInv, SelectionTypes, Steps
  <2>4. Parses(args.implementations)'
    BY <2>1 DEF Parses
  <2> QED BY <2>1, <2>3, <2>4 DEF SelectionInv
<1> QED BY <1>1, <1>2

LEMMA BeginKeeps == SelectionInv /\ Begin => SelectionInv'
<1> SUFFICES ASSUME SelectionInv, Begin PROVE SelectionInv'
  OBVIOUS
<1>1. /\ step = "checked" /\ step' = "adding" /\ UNCHANGED <<machine, args, connect>>
      /\ Parses(args.implementations) /\ ConfigOK(config) /\ config.preference = <<>>
      /\ machine \in Machines /\ args \in Arguments
  BY DEF Begin, SelectionInv, SelectionTypes
<1>2. /\ SelectedImplementations' = SelectedImplementations /\ Has' = Has
      /\ (ConfigOK(config') => ConfigOK(config)')
  BY <1>1, WordsStay
<1>3. /\ SelectedImplementations \in Seq(ToSet(Implementations))
      /\ Len(SelectedImplementations) \in Nat
      /\ DOMAIN Has = 1..Len(SelectedImplementations)
  BY <1>1, SelectedAre
<1>4. Parses(args.implementations)'
  BY <1>1 DEF Parses
<1>5. CASE args.implementations = AutoSelection
  <2>1. remaining' = <<>> /\ config' = Default
    BY <1>5 DEF Begin
  <2>2. /\ ConfigOK(Default)
        /\ ToldBy(Default.preference, Has, Len(SelectedImplementations))
        /\ \A i \in DOMAIN Has : Has[i] # NoVideo
    BY <1>1, <1>5, DefaultIsTold
  <2>3. Told' = Len(SelectedImplementations)
    BY <1>2, <1>3, <2>1 DEF Told
  <2>4. AddedSoFar'
    BY <1>2, <1>3, <2>1, <2>2, <2>3 DEF AddedSoFar
  <2>5. ConfigOK(config)' /\ remaining' \in Seq(ToSet(Implementations))
    BY <1>2, <2>1, <2>2
  <2>6. SelectionTypes'
    BY <1>1, <2>5 DEF SelectionInv, SelectionTypes, Steps
  <2> QED BY <1>1, <1>4, <2>4, <2>6 DEF SelectionInv
<1>6. CASE args.implementations # AutoSelection
  <2>1. /\ remaining' = SelectedImplementations /\ config' = WithAudio(config)
    BY <1>6 DEF Begin, SelectedImplementations
  <2>2. ConfigOK(config') /\ config'.preference = <<>>
    BY <1>1, <2>1, WithAudioIsOK
  <2>3. Told' = 0
    BY <1>2, <1>3, <2>1 DEF Told
  <2>4. ToldBy(<<>>, Has, 0)
    BY NothingTold
  <2>5. AddedSoFar'
    BY <1>2, <1>3, <2>1, <2>2, <2>3, <2>4 DEF AddedSoFar
  <2>6. ConfigOK(config)' /\ remaining' \in Seq(ToSet(Implementations))
    BY <1>2, <1>3, <2>1, <2>2
  <2>7. SelectionTypes'
    BY <1>1, <2>6 DEF SelectionInv, SelectionTypes, Steps
  <2> QED BY <1>1, <1>4, <2>5, <2>7 DEF SelectionInv
<1> QED BY <1>5, <1>6

LEMMA AddSelectedKeeps == SelectionInv /\ AddSelected => SelectionInv'
<1> SUFFICES ASSUME SelectionInv, AddSelected PROVE SelectionInv'
  OBVIOUS
<1>1. CASE Refuse
  BY <1>1, RefuseKeeps
<1>2. CASE ~Refuse
  <2> DEFINE C == NewCapability(Head(remaining))
  <2>1. /\ step = "adding" /\ remaining # <<>> /\ C # NoVideo
        /\ config' = Added(config, C) /\ remaining' = Tail(remaining)
        /\ UNCHANGED <<machine, args, step, connect>>
    BY <1>2 DEF AddSelected
  <2>2. /\ machine \in Machines /\ args \in Arguments /\ Parses(args.implementations)
        /\ ConfigOK(config) /\ AddedSoFar /\ remaining \in Seq(ToSet(Implementations))
    BY <2>1 DEF SelectionInv, SelectionTypes
  <2>3. /\ SelectedImplementations' = SelectedImplementations /\ Has' = Has
        /\ (ConfigOK(config') => ConfigOK(config)')
    BY <2>1, WordsStay
  <2>4. /\ Len(SelectedImplementations) \in Nat
        /\ \A i \in 1..Len(SelectedImplementations) :
             /\ SelectedImplementations[i] \in ToSet(Implementations)
             /\ Has[i] = NewCapability(SelectedImplementations[i])
    BY <2>2, SelectedAre
  <2>5. /\ Len(remaining) \in Nat /\ Len(remaining) >= 1 /\ Head(remaining) = remaining[1]
        /\ Tail(remaining) \in Seq(ToSet(Implementations))
        /\ Len(Tail(remaining)) = Len(remaining) - 1
        /\ \A k \in 1..Len(Tail(remaining)) : Tail(remaining)[k] = remaining[k + 1]
    <3> DEFINE B == ToSet(Implementations)
    <3> HIDE DEF B
    <3>1. remaining \in Seq(B) /\ remaining # <<>>
      BY <2>1, <2>2 DEF B
    <3>2. /\ Len(remaining) \in Nat /\ Len(remaining) >= 1 /\ Head(remaining) = remaining[1]
          /\ Tail(remaining) \in Seq(B)
          /\ Len(Tail(remaining)) = Len(remaining) - 1
          /\ \A k \in 1..Len(Tail(remaining)) : Tail(remaining)[k] = remaining[k + 1]
      BY <3>1
    <3> QED BY <3>2 DEF B
  <2>6. /\ Told \in Nat /\ Told = Len(SelectedImplementations) - Len(remaining)
        /\ \A k \in 1..Len(remaining) : remaining[k] = SelectedImplementations[Told + k]
        /\ ToldBy(config.preference, Has, Told)
        /\ \A i \in 1..Told : Has[i] # NoVideo
    BY <2>2 DEF AddedSoFar, Told
  <2>7. Told' = Told + 1
    BY <2>1, <2>3, <2>4, <2>5, <2>6 DEF Told
  <2>8. /\ Told + 1 \in 1..Len(SelectedImplementations)
        /\ Head(remaining) = SelectedImplementations[Told + 1]
    BY <2>4, <2>5, <2>6
  <2>9. Has[Told + 1] = C /\ Head(remaining) \in ToSet(Implementations)
    BY <2>4, <2>8
  <2>10. Makes(C) /\ ~IsPassthrough(C) /\ C.implementation \in ImplementationNames
    BY <2>1, <2>2, <2>9, NewCapabilityMakes
  <2> HIDE DEF C
  <2>11. Capable(C)
    BY <2>10 DEF Capable
  <2>12. ConfigOK(config') /\ config'.preference = Merge(config.preference, NewFromCapability(C))
    BY <2>1, <2>2, <2>11, AddedIsOK, AddedIs DEF ConfigOK
  <2>13. ToldBy(config'.preference, Has, Told + 1)
    BY <2>6, <2>9, <2>10, <2>12, ToldByNext
  <2>14. \A k \in 1..Len(remaining') : remaining'[k] = SelectedImplementations[(Told + 1) + k]
    <3> SUFFICES ASSUME NEW k \in 1..Len(remaining')
                 PROVE  remaining'[k] = SelectedImplementations[(Told + 1) + k]
      OBVIOUS
    <3>1. remaining'[k] = remaining[k + 1] /\ k + 1 \in 1..Len(remaining)
      BY <2>1, <2>5
    <3>2. remaining[k + 1] = SelectedImplementations[Told + (k + 1)]
      BY <2>6, <3>1
    <3>3. Told + (k + 1) = (Told + 1) + k
      BY <2>6
    <3> QED BY <3>1, <3>2, <3>3
  <2>15. \A i \in 1..Told + 1 : Has[i] # NoVideo
    BY <2>1, <2>6, <2>9
  <2>16. AddedSoFar'
    <3>1. Told + 1 \in Nat
      BY <2>6
    <3> QED BY <3>1, <2>3, <2>7, <2>13, <2>14, <2>15 DEF AddedSoFar
  <2>17. ConfigOK(config)' /\ remaining' \in Seq(ToSet(Implementations))
    BY <2>1, <2>3, <2>5, <2>12
  <2>18. SelectionTypes'
    BY <2>1, <2>17 DEF SelectionInv, SelectionTypes
  <2>19. Parses(args.implementations)'
    BY <2>1, <2>2 DEF Parses
  <2> QED BY <2>1, <2>16, <2>18, <2>19 DEF SelectionInv
<1> QED BY <1>1, <1>2

\* The encoders of the other implementations go where a file is sent.
LEMMA AddPassthroughKeeps == SelectionInv /\ AddPassthrough => SelectionInv'
<1> SUFFICES ASSUME SelectionInv, AddPassthrough PROVE SelectionInv'
  OBVIOUS
<1> DEFINE L == Len(SelectedImplementations)
           C == NewPassthrough(args.mp4)
           added == Added(config, C)
           q == added.preference
           kept == Kept(q, LAMBDA e : e.direction = "decoder" \/ e.implementation = "mp4-passthrough")
<1>1. /\ step = "adding" /\ remaining = <<>> /\ step' = "built"
      /\ config' = IF args.mp4 = NoVideo THEN config ELSE [added EXCEPT !.preference = kept]
      /\ UNCHANGED <<machine, args, remaining, connect>>
  BY DEF AddPassthrough
<1> HIDE DEF kept
<1>2. /\ machine \in Machines /\ args \in Arguments /\ Parses(args.implementations)
      /\ ConfigOK(config) /\ AddedSoFar
  BY <1>1 DEF SelectionInv, SelectionTypes
<1>3. /\ SelectedImplementations' = SelectedImplementations /\ Has' = Has /\ Sent' = Sent
      /\ (ConfigOK(config') => ConfigOK(config)')
  BY <1>1, WordsStay
<1>4. /\ L \in Nat /\ DOMAIN Has = 1..L
      /\ \A i \in 1..L : /\ SelectedImplementations[i] \in ToSet(Implementations)
                         /\ Has[i] = NewCapability(SelectedImplementations[i])
  BY <1>2, SelectedAre
<1>5. Told = L
  BY <1>1, <1>4 DEF Told
<1>6. ToldBy(config.preference, Has, L) /\ \A i \in DOMAIN Has : Has[i] # NoVideo
  BY <1>2, <1>4, <1>5 DEF AddedSoFar
<1>7. Parses(args.implementations)'
  BY <1>1, <1>2 DEF Parses
<1>8. ASSUME ConfigOK(config'), BuiltAsTold' PROVE SelectionInv'
  <2>1. SelectionTypes'
    BY <1>1, <1>3, <1>8 DEF SelectionInv, SelectionTypes, Steps
  <2> QED BY <1>1, <1>7, <1>8, <2>1 DEF SelectionInv
<1>9. CASE args.mp4 = NoVideo
  <2>1. BuiltAsTold'
    BY <1>1, <1>3, <1>6, <1>9 DEF BuiltAsTold
  <2> QED BY <1>1, <1>2, <1>8, <1>9, <2>1
<1>10. CASE args.mp4 # NoVideo
  <2> DEFINE p == config.preference
             o == NewFromCapability(C)
  <2>1. /\ AreFormats(<<args.mp4>>) /\ args.mp4.codec \in ToSet(VideoCodecTypes)
    BY <1>2, <1>10, SelectionAssumption
  <2>2. Makes(C) /\ IsPassthrough(C)
    BY <2>1, PassthroughMakes
  <2>3. Capable(C) /\ C.implementation \in ImplementationNames /\ C.implementation = "mp4-passthrough"
    BY <1>10, <2>2 DEF Capable, Makes, IsPassthrough
  <2>4. /\ ToSet(C["encoder"]) = {args.mp4} /\ ToSet(C["decoder"]) = {}
    BY PassthroughLists
  <2> HIDE DEF C
  <2>5. \A d \in Directions, c \in ToSet(VideoCodecTypes) :
          IsSupported(C, d, c) <=> d = "encoder" /\ c = args.mp4.codec
    BY <2>2, <2>4, SupportsWhatItLists DEF Directions
  <2>6. o \in Seq(EntryType) /\ \A e : e \in ToSet(o) <=> e = Sent
    <3>1. o = Preference!NewFromCapability(C)
      BY DEF NewFromCapability
    <3> HIDE DEF o
    <3>2. /\ o \in Seq(EntryType)
          /\ \A e : e \in ToSet(o) <=> \E d \in Directions, c \in ToSet(VideoCodecTypes) :
                      IsSupported(C, d, c) /\ e = EntryOf(d, c, C.implementation)
      BY <2>3, <3>1, NewEntries, Zenon
    <3>3. "encoder" \in Directions
      BY DEF Directions
    <3> QED BY <2>1, <2>3, <2>5, <3>2, <3>3 DEF Sent
  <2>7. /\ ConfigOK(added) /\ added.preference = Merge(p, o)
    BY <1>2, <2>3, AddedIsOK, AddedIs DEF ConfigOK
  <2> HIDE DEF added, o
  <2>8. p \in Seq(EntryType) /\ OnePerKey(p) /\ \A e : e \in ToSet(p) <=> Says(Has, L, e)
    BY <1>6 DEF ToldBy
  <2>9. /\ q \in Seq(EntryType)
        /\ ToSet(q) = ToSet(o) \cup {x \in ToSet(p) : \A y \in ToSet(o) : ~SameKey(x, y)}
    <3>1. q = Merging!Folded(o, p)
      BY <2>7, MergesAreFolds DEF Merge
    <3> QED BY <2>6, <2>8, <3>1, MergeFolds
  <2>10. kept \in Seq(EntryType) /\ \A e : e \in ToSet(kept) <=>
           e \in ToSet(q) /\ (e.direction = "decoder" \/ e.implementation = "mp4-passthrough")
    <3> DEFINE T == {e \in ToSet(q) : e.direction = "decoder" \/ e.implementation = "mp4-passthrough"}
               r == [i \in DOMAIN q |-> IF q[i] \in T THEN <<q[i]>> ELSE <<>>]
               s == [i \in DOMAIN q |-> IF q[i].direction = "decoder" \/ q[i].implementation = "mp4-passthrough"
                                        THEN <<q[i]>> ELSE <<>>]
    <3>1. \A i \in DOMAIN q : q[i] \in T <=> q[i].direction = "decoder" \/ q[i].implementation = "mp4-passthrough"
      BY DEF ToSet
    <3>2. kept = FlattenSeq(s)
      BY DEF kept, Kept
    <3> HIDE DEF q
    <3>3. r = s
      BY <3>1
    <3>4. FlattenSeq(r) \in Seq(EntryType) /\ ToSet(FlattenSeq(r)) = ToSet(q) \cap T
      BY <2>9, KeptElements, Zenon
    <3> HIDE DEF r, s
    <3> QED BY <3>2, <3>3, <3>4
  <2> HIDE DEF q
  <2>11. ASSUME NEW e, Says(Has, L, e)
         PROVE  /\ e.implementation # "mp4-passthrough"
                /\ e.direction = "decoder" \/ e.direction = "encoder"
    <3>1. PICK i \in 1..L, d \in Directions, c \in ToSet(VideoCodecTypes) :
            e = EntryOf(d, c, Has[i].implementation)
      BY <2>11 DEF Says
    <3>2. Has[i].implementation \in ToSet(Implementations)
      BY <1>2, <1>4, <1>6, NewCapabilityMakes
    <3> QED BY <3>1, <3>2, SameKeys, ImplementationsAre DEF Directions
  <2>12. Sent.direction = "encoder" /\ Sent.implementation = "mp4-passthrough"
    BY SameKeys DEF Sent
  <2>13. ASSUME NEW e
         PROVE  e \in ToSet(kept) <=> (e.direction = "decoder" /\ Says(Has, L, e)) \/ e = Sent
    <3>1. CASE e = Sent
      BY <2>6, <2>9, <2>10, <2>12, <3>1
    <3>2. CASE e # Sent /\ e.direction = "decoder"
      <4>1. \A y \in ToSet(o) : ~SameKey(e, y)
        BY <2>6, <2>12, <3>2 DEF SameKey
      <4> QED BY <2>6, <2>8, <2>9, <2>10, <3>2, <4>1
    <3>3. CASE e # Sent /\ e.direction # "decoder"
      BY <2>6, <2>8, <2>9, <2>10, <2>11, <3>3
    <3> QED BY <3>1, <3>2, <3>3
  <2>14. config' = [added EXCEPT !.preference = kept]
    BY <1>1, <1>10
  <2>15. /\ config'.preference = kept /\ DOMAIN config' = Fields
         /\ config'.capabilities = added.capabilities
         /\ config'.audioPreference = added.audioPreference
         /\ config'.audioCapabilities = added.audioCapabilities
    <3>1. DOMAIN added = Fields
      BY <2>7 DEF ConfigOK
    <3> QED BY <2>14, <3>1 DEF Fields
  <2>16. ConfigOK(config')
    BY <2>7, <2>10, <2>15 DEF ConfigOK
  <2>17. BuiltAsTold'
    BY <1>1, <1>3, <1>6, <1>10, <2>13, <2>15 DEF BuiltAsTold
  <2> QED BY <1>8, <2>16, <2>17
<1> QED BY <1>9, <1>10

\* An entry whose implementation is set is still one.
LEMMA ImplementationIsSet ==
  ASSUME NEW p \in Seq(EntryType), NEW k, NEW i \in ImplementationNames
  PROVE  [p EXCEPT ![k].implementation = i] \in Seq(EntryType)
<1> DEFINE q == [p EXCEPT ![k].implementation = i]
<1>1. \A e \in EntryType : [e EXCEPT !.implementation = i] \in EntryType
  BY DEF EntryType
<1>2. Len(p) \in Nat /\ DOMAIN p = 1..Len(p) /\ \A j \in 1..Len(p) : p[j] \in EntryType
  OBVIOUS
<1>3. CASE k \in DOMAIN p
  <2> DEFINE e == [p[k] EXCEPT !.implementation = i]
  <2>1. e \in EntryType
    BY <1>1, <1>2, <1>3
  <2>2. q = [p EXCEPT ![k] = e]
    OBVIOUS
  <2> HIDE DEF e, q
  <2>3. q \in Seq(EntryType)
    BY <1>2, <1>3, <2>1, <2>2
  <2> QED BY <2>3 DEF q
<1>4. CASE k \notin DOMAIN p
  <2>1. q = p
    BY <1>2, <1>4
  <2> QED BY <2>1
<1> QED BY <1>3, <1>4

\* Asking for an entry that is not there adds one.
LEMMA GottenEntries ==
  ASSUME NEW p \in Seq(EntryType), NEW d \in Directions, NEW c \in Codecs,
         NEW i \in ImplementationNames
  PROVE  /\ GetOrAdd(p, d, c, i) \in Seq(EntryType) /\ AudioGetOrAdd(p, d, c, i) \in Seq(EntryType)
         /\ Preference!Entry(d, c, i) \in EntryType
<1>1. Preference!Entry(d, c, i) \in EntryType /\ AudioPreference!Entry(d, c, i) \in EntryType
  BY DEF Preference!Entry, AudioPreference!Entry, EntryType, Directions
<1>2. /\ Append(p, Preference!Entry(d, c, i)) \in Seq(EntryType)
      /\ Append(p, AudioPreference!Entry(d, c, i)) \in Seq(EntryType)
  BY <1>1
<1> QED BY <1>1, <1>2, Zenon DEF GetOrAdd, AudioGetOrAdd, Preference!GetOrAdd,
     AudioPreference!GetOrAdd

\* Edits of a configuration.
LEMMA EditsAreOK ==
  ASSUME NEW c, ConfigOK(c), NEW v \in Seq(EntryType)
  PROVE  /\ ConfigOK([c EXCEPT !.preference = v])
         /\ ConfigOK([c EXCEPT !.audioPreference = v])
         /\ ConfigOK([c EXCEPT !.capabilities = @ \o @])
<1>1. /\ DOMAIN c = Fields
      /\ c.preference \in Seq(EntryType) /\ c.audioPreference \in Seq(EntryType)
      /\ c.capabilities \in Seq(ToSet(c.capabilities)) /\ \A C \in ToSet(c.capabilities) : Capable(C)
      /\ c.audioCapabilities \in Seq({NewInternalAudio(machine.audio)})
  BY DEF ConfigOK
<1>2. ConfigOK([c EXCEPT !.preference = v])
  <2> DEFINE w == [c EXCEPT !.preference = v]
  <2>1. /\ DOMAIN w = Fields /\ w.preference = v /\ w.capabilities = c.capabilities
        /\ w.audioPreference = c.audioPreference /\ w.audioCapabilities = c.audioCapabilities
    BY <1>1 DEF Fields
  <2> HIDE DEF w
  <2>2. ConfigOK(w)
    BY <1>1, <2>1 DEF ConfigOK
  <2> QED BY <2>2 DEF w
<1>3. ConfigOK([c EXCEPT !.audioPreference = v])
  <2> DEFINE w == [c EXCEPT !.audioPreference = v]
  <2>1. /\ DOMAIN w = Fields /\ w.preference = c.preference /\ w.capabilities = c.capabilities
        /\ w.audioPreference = v /\ w.audioCapabilities = c.audioCapabilities
    BY <1>1 DEF Fields
  <2> HIDE DEF w
  <2>2. ConfigOK(w)
    BY <1>1, <2>1 DEF ConfigOK
  <2> QED BY <2>2 DEF w
<1>4. ConfigOK([c EXCEPT !.capabilities = @ \o @])
  <2> DEFINE s == c.capabilities
             r == s \o s
             w == [c EXCEPT !.capabilities = r]
  <2>1. [c EXCEPT !.capabilities = @ \o @] = w
    OBVIOUS
  <2>2. s \in Seq(ToSet(s))
    BY <1>1
  <2> HIDE DEF s
  <2>3. r \in Seq(ToSet(r)) /\ ToSet(r) = ToSet(s)
    <3>1. r \in Seq(ToSet(s)) /\ ToSet(r) = ToSet(s) \cup ToSet(s)
      BY <2>2, Joined
    <3> HIDE DEF r
    <3> QED BY <3>1, OwnElements
  <2> HIDE DEF r
  <2>4. /\ DOMAIN w = Fields /\ w.preference = c.preference /\ w.capabilities = r
        /\ w.audioPreference = c.audioPreference /\ w.audioCapabilities = c.audioCapabilities
    BY <1>1 DEF Fields
  <2> HIDE DEF w
  <2>5. \A C \in ToSet(r) : Capable(C)
    BY <1>1, <2>3 DEF s
  <2>6. ConfigOK(w)
    BY <1>1, <2>3, <2>4, <2>5 DEF ConfigOK
  <2> QED BY <2>1, <2>6
<1> QED BY <1>2, <1>3, <1>4

LEMMA ApplicationEditsKeeps == SelectionInv /\ ApplicationEdits => SelectionInv'
<1> SUFFICES ASSUME SelectionInv, ApplicationEdits PROVE SelectionInv'
  OBVIOUS
<1>1. /\ step = "built" /\ step' = "edited" /\ UNCHANGED <<machine, args, remaining, connect>>
      /\ ConfigOK(config)
  BY DEF ApplicationEdits, SelectionInv, SelectionTypes
<1>2. config.preference \in Seq(EntryType) /\ config.audioPreference \in Seq(EntryType)
  BY <1>1 DEF ConfigOK
<1>3. PICK d \in {"encoder", "decoder"}, i \in {"internal", "nvcodec", "openh264"} :
        \/ \E c \in {"Generic", "VP8", "H264", "AV1"} : config' \in Edits(d, c, i)
        \/ \E c \in {"opus", "ISAC"} : config' \in AudioEdits(d, c, i)
  BY DEF ApplicationEdits
<1>4. d \in Directions /\ i \in ImplementationNames
  BY ImplementationsAre DEF Directions
<1>5. ASSUME NEW c \in {"Generic", "VP8", "H264", "AV1"}, config' \in Edits(d, c, i)
      PROVE  ConfigOK(config')
  <2> DEFINE gotten == GetOrAdd(config.preference, d, c, i)
             set == Preference!FindMut(gotten, d, c)
             edited == [gotten EXCEPT ![set].implementation = i]
             appended == Append(config.preference, Preference!Entry(d, c, i))
  <2>1. c \in Codecs
    BY DEF Codecs
  <2>2. gotten \in Seq(EntryType) /\ Preference!Entry(d, c, i) \in EntryType
    BY <1>2, <1>4, <2>1, GottenEntries
  <2>3. \/ config' = [config EXCEPT !.preference = edited]
        \/ config' = [config EXCEPT !.preference = appended]
        \/ config' = [config EXCEPT !.capabilities = @ \o @]
    BY <1>5 DEF Edits
  <2>4. appended \in Seq(EntryType)
    BY <1>2, <2>2
  <2> HIDE DEF gotten, set, appended
  <2>5. edited \in Seq(EntryType)
    BY <1>4, <2>2, ImplementationIsSet
  <2> HIDE DEF edited
  <2> QED BY <1>1, <2>3, <2>4, <2>5, EditsAreOK
<1>6. ASSUME NEW c \in {"opus", "ISAC"}, config' \in AudioEdits(d, c, i)
      PROVE  ConfigOK(config')
  <2> DEFINE gotten == AudioGetOrAdd(config.audioPreference, d, c, i)
             e == Preference!Entry(d, c, i)
             merged == AudioMerge(config.audioPreference, <<e>>)
  <2>1. c \in Codecs
    BY DEF Codecs
  <2>2. gotten \in Seq(EntryType) /\ e \in EntryType
    BY <1>2, <1>4, <2>1, GottenEntries
  <2>3. \/ config' = [config EXCEPT !.audioPreference = gotten]
        \/ config' = [config EXCEPT !.audioPreference = merged]
    BY <1>6 DEF AudioEdits
  <2> HIDE DEF gotten, e
  <2>4. merged \in Seq(EntryType)
    <3>1. <<e>> \in Seq(EntryType)
      BY <2>2
    <3>2. merged = Merging!Folded(<<e>>, config.audioPreference)
      BY AudioMergesAreFolds DEF AudioMerge
    <3> QED BY <1>2, <3>1, <3>2, MergeKeepsEntries
  <2> HIDE DEF merged
  <2> QED BY <1>1, <2>2, <2>3, <2>4, EditsAreOK
<1>7. ConfigOK(config)'
  BY <1>1, <1>3, <1>5, <1>6, WordsStay
<1>8. SelectionTypes'
  BY <1>1, <1>7 DEF SelectionInv, SelectionTypes, Steps
<1> QED BY <1>1, <1>8 DEF SelectionInv

LEMMA NewContextKeeps == SelectionInv /\ NewContext => SelectionInv'
<1> SUFFICES ASSUME SelectionInv, NewContext PROVE SelectionInv'
  OBVIOUS
<1>1. CASE Refuse
  BY <1>1, RefuseKeeps
<1>2. CASE ~Refuse
  <2>1. /\ step \in {"built", "edited"} /\ IsValid
        /\ step' = IF step = "built" THEN "created" ELSE "created edited"
        /\ UNCHANGED <<machine, args, remaining, config, connect>>
    BY <1>2 DEF NewContext, IsValid
  <2>2. ConfigOK(config)' /\ Sent' = Sent
    BY <2>1, WordsStay DEF SelectionInv, SelectionTypes
  <2>3. SelectionTypes'
    BY <2>1, <2>2 DEF SelectionInv, SelectionTypes, Steps
  <2>4. IsValid'
    BY <2>1 DEF IsValid
  <2>5. step = "built" => SendsFile'
    <3> SUFFICES ASSUME step = "built", args.mp4 # NoVideo
                 PROVE  /\ Sent \in ToSet(config.preference)
                        /\ \A e \in ToSet(config.preference) : e.direction = "encoder" => e = Sent
      BY <2>1, <2>2 DEF SendsFile
    <3>1. \A e : e \in ToSet(config.preference) <=>
                   \/ e.direction = "decoder" /\ Says(Has, Len(SelectedImplementations), e)
                   \/ e = Sent
      BY DEF SelectionInv, BuiltAsTold
    <3> QED BY <3>1
  <2> QED BY <2>1, <2>3, <2>4, <2>5 DEF SelectionInv
<1> QED BY <1>1, <1>2

LEMMA BuildConnectionKeeps == SelectionInv /\ BuildConnection => SelectionInv'
<1> SUFFICES ASSUME SelectionInv, BuildConnection PROVE SelectionInv'
  OBVIOUS
<1>1. CASE Refuse
  BY <1>1, RefuseKeeps
<1>2. CASE ~Refuse
  <2>1. /\ step = "created" /\ step' = "connecting"
        /\ connect' = [video |-> Video, capturer |-> Capturer]
        /\ UNCHANGED <<machine, args, remaining, config>>
    BY <1>2 DEF BuildConnection
  <2>2. ConfigOK(config)' /\ Sent' = Sent
    BY <2>1, WordsStay DEF SelectionInv, SelectionTypes
  <2>3. SelectionTypes'
    BY <2>1, <2>2 DEF SelectionInv, SelectionTypes, Steps
  <2>4. IsValid' /\ SendsFile'
    BY <2>1, <2>2 DEF SelectionInv, IsValid, SendsFile
  <2>5. Video' = Video /\ Capturer' = Capturer
    BY <2>1 DEF Video, Capturer, WantsSend, VideoEnabled, H264Params
  <2> QED BY <2>1, <2>3, <2>4, <2>5 DEF SelectionInv
<1> QED BY <1>1, <1>2

LEMMA SelectionRestKeeps == SelectionInv /\ UNCHANGED selectionVars => SelectionInv'
<1> SUFFICES ASSUME SelectionInv, UNCHANGED selectionVars PROVE SelectionInv'
  OBVIOUS
<1>1. UNCHANGED <<machine, args, step, remaining, config, connect>>
  BY DEF selectionVars
<1>2. /\ SelectedImplementations' = SelectedImplementations /\ Has' = Has /\ Sent' = Sent
      /\ ConfigOK(config') => ConfigOK(config)'
  BY <1>1, WordsStay
<1>3. SelectionTypes'
  BY <1>1, <1>2 DEF SelectionInv, SelectionTypes
<1>4. AddedSoFar => AddedSoFar'
  BY <1>1, <1>2 DEF AddedSoFar, Told
<1>5. BuiltAsTold => BuiltAsTold'
  BY <1>1, <1>2 DEF BuiltAsTold
<1>6. (IsValid => IsValid') /\ (SendsFile => SendsFile')
  BY <1>1, <1>2 DEF IsValid, SendsFile
<1>7. Parses(args.implementations) => Parses(args.implementations)'
  BY <1>1 DEF Parses
<1>8. Video' = Video /\ Capturer' = Capturer
  BY <1>1 DEF Video, Capturer, WantsSend, VideoEnabled, H264Params
<1> QED BY <1>1, <1>3, <1>4, <1>5, <1>6, <1>7, <1>8 DEF SelectionInv

\* SelectionInv is inductive.
LEMMA SelectionKeeps == SelectionInv /\ [SelectionNext]_selectionVars => SelectionInv'
BY CheckArgumentsKeeps, BeginKeeps, AddSelectedKeeps, AddPassthroughKeeps,
     ApplicationEditsKeeps,
   NewContextKeeps, BuildConnectionKeeps, SelectionRestKeeps DEF SelectionNext

LEMMA SelectionInvHolds == SelectionSpec => []SelectionInv
BY SelectionStarts, SelectionKeeps, PTL DEF SelectionSpec

-----------------------------------------------------------------------------
(* What the properties follow from                                         *)

\* The invariant has the types.
LEMMA TypesFollow == SelectionInv => SelectionTypeOK
<1> SUFFICES ASSUME SelectionInv PROVE SelectionTypeOK
  OBVIOUS
<1>1. /\ machine \in Machines /\ args \in Arguments /\ step \in Steps
      /\ remaining \in Seq(ToSet(Implementations))
      /\ DOMAIN connect = {"video", "capturer"}
      /\ DOMAIN config = Fields
      /\ config.preference \in Seq(EntryType) /\ config.audioPreference \in Seq(EntryType)
      /\ \A C \in ToSet(config.capabilities) : Makes(C)
      /\ config.audioCapabilities \in Seq({NewInternalAudio(machine.audio)})
  BY DEF SelectionInv, SelectionTypes, ConfigOK, Capable
<1>2. ToSet(remaining) \subseteq ToSet(Implementations)
  <2> DEFINE B == ToSet(Implementations)
  <2> HIDE DEF B
  <2>1. remaining \in Seq(B)
    BY <1>1 DEF B
  <2>2. ToSet(remaining) \subseteq B
    BY <2>1, Elements, Zenon
  <2> QED BY <2>2 DEF B
<1>3. /\ \A e \in ToSet(config.preference) : e \in EntryType
      /\ \A e \in ToSet(config.audioPreference) : e \in EntryType
  BY <1>1, Elements, Zenon
<1>4. \A e \in EntryType : DOMAIN e = {"direction", "codec", "implementation"}
  BY DEF EntryType
<1>5. \A C \in ToSet(config.capabilities) : DOMAIN C = {"implementation", "encoder", "decoder"}
  BY <1>1 DEF Makes, Capability
<1>6. \A C \in ToSet(config.audioCapabilities) : DOMAIN C = {"implementation", "encoder", "decoder"}
  <2>1. \A C \in ToSet(config.audioCapabilities) : C \in {NewInternalAudio(machine.audio)}
    BY <1>1, Elements, Zenon
  <2> QED BY <2>1 DEF NewInternalAudio
<1> QED BY <1>1, <1>2, <1>3, <1>4, <1>5, <1>6, Zenon DEF SelectionTypeOK, Fields

\* None is neither an entry nor what is made.
LEMMA NoneIsNothing ==
  ASSUME NEW e \in EntryType
  PROVE  e.codec \in ToSet(VideoCodecTypes) \cup ToSet(AudioCodecTypes) => e # NoVideo /\ e # NoAudio
<1>1. /\ e.direction \in {"encoder", "decoder"} /\ e.implementation \in ImplementationNames
      /\ e = [direction |-> e.direction, codec |-> e.codec, implementation |-> e.implementation]
  BY DEF EntryType
<1> DEFINE V == ToSet(VideoCodecTypes) \cup ToSet(AudioCodecTypes)
           E == [direction : {"encoder", "decoder"}, codec : V, implementation : ImplementationNames]
<1>2. {NoVideo, NoAudio} \cap E = {}
  BY SelectionAssumption
<1> HIDE DEF V
<1>3. e.codec \in V => e \in E
  BY <1>1
<1> HIDE DEF E
<1>4. e.codec \in V => e # NoVideo /\ e # NoAudio
  BY <1>2, <1>3
<1> QED BY <1>4 DEF V

\* The lists of capabilities that a valid context has.
LEMMA ListsAreLists ==
  ASSUME SelectionInv, NEW d \in Directions
  PROVE  /\ \A i \in DOMAIN config.capabilities :
              config.capabilities[i][d] \in Seq(ToSet(config.capabilities[i][d]))
         /\ \A i \in DOMAIN config.audioCapabilities :
              config.audioCapabilities[i][d] \in Seq(ToSet(config.audioCapabilities[i][d]))
<1>1. /\ config.capabilities \in Seq(ToSet(config.capabilities))
      /\ \A C \in ToSet(config.capabilities) : Makes(C)
      /\ config.audioCapabilities \in Seq({NewInternalAudio(machine.audio)})
      /\ machine \in Machines
  BY DEF SelectionInv, SelectionTypes, ConfigOK, Capable
<1>2. ASSUME NEW i \in DOMAIN config.capabilities
      PROVE  config.capabilities[i][d] \in Seq(ToSet(config.capabilities[i][d]))
  <2>1. config.capabilities[i] \in ToSet(config.capabilities)
    BY DEF ToSet
  <2>2. AreFormats(config.capabilities[i][d])
    BY <1>1, <2>1 DEF Makes, Directions
  <2> QED BY <2>2 DEF AreFormats
<1>3. ASSUME NEW i \in DOMAIN config.audioCapabilities
      PROVE  config.audioCapabilities[i][d] \in Seq(ToSet(config.audioCapabilities[i][d]))
  <2>1. config.audioCapabilities[i] = NewInternalAudio(machine.audio)
    BY <1>1
  <2>2. NewInternalAudio(machine.audio)[d] = machine.audio[d]
    BY DEF NewInternalAudio, Directions
  <2>3. machine.audio[d] \in Seq(ToSet(machine.audio[d]))
    BY <1>1, SelectionAssumption DEF Directions
  <2> QED BY <2>1, <2>2, <2>3
<1> QED BY <1>2, <1>3

\* A format that is offered is made by the implementation of its codec's entry.
LEMMA OfferedIsMade ==
  ASSUME SelectionInv, IsValid, NEW d \in Directions, NEW f,
         Offered(config.preference, config.capabilities, d, f)
  PROVE  LET made == CreateByPreference(config.preference, config.capabilities, d, f)
         IN  /\ made # NoVideo /\ made.codec = f.codec
             /\ Preference!Entry(d, made.codec, made.implementation) \in ToSet(config.preference)
<1> DEFINE p == config.preference
           caps == config.capabilities
           made == CreateByPreference(p, caps, d, f)
<1>1. PICK e \in ToSet(p) :
        /\ e.direction = d /\ f.codec = e.codec
        /\ FindCapability(caps, e.implementation) # NoVideo
        /\ f \in ToSet(FindCapability(caps, e.implementation)[d])
  BY DEF Offered
<1> DEFINE C == FindCapability(caps, e.implementation)
           r == ResolveSdpFormat(C, d, f)
<1>2. /\ p \in Seq(EntryType) /\ caps \in Seq(ToSet(caps)) /\ \A D \in ToSet(caps) : Makes(D)
  BY DEF SelectionInv, SelectionTypes, ConfigOK, Capable
<1>3. OnePerKey(p) /\ e.codec \in ToSet(VideoCodecTypes) /\ e \in EntryType
  <2>1. ValidateVideoCodecPreference(p, caps)
    BY DEF IsValid
  <2>2. OnePerKey(p) /\ e.codec \in ToSet(VideoCodecTypes)
    BY <1>2, <2>1, ValidPreference, Zenon
  <2> QED BY <1>2, <2>2, Elements, Zenon
<1>4. Find(p, d, f.codec) = e /\ e # NoVideo
  BY <1>1, <1>2, <1>3, EntryIsFound, NoneIsNothing
<1>5. C \in ToSet(caps) /\ C.implementation = e.implementation
  BY <1>1, <1>2, CapabilityFacts
<1>6. Makes(C)
  BY <1>2, <1>5
<1>7. C # NoVideo /\ f \in ToSet(C[d])
  BY <1>1
<1> HIDE DEF C
<1>8. r \in ToSet(C[d]) /\ r.codec = f.codec /\ r # NoVideo
  BY <1>6, <1>7, ResolvesWhatItLists
<1>9. made = CreateVideo(C, d, r)
  BY <1>4, <1>7, <1>8, Zenon DEF CreateByPreference, C
<1>10. CreateVideo(C, d, r) = Made(C, r.codec)
  BY <1>6, <1>8 DEF Makes
<1> HIDE DEF r, made
<1>11. made = [implementation |-> e.implementation, codec |-> e.codec]
  BY <1>1, <1>5, <1>8, <1>9, <1>10 DEF Made
<1>12. made # NoVideo
  <2> DEFINE V == ToSet(VideoCodecTypes)
             M == [implementation : ImplementationNames, codec : V]
  <2>1. e.implementation \in ImplementationNames /\ e.codec \in V
    BY <1>3 DEF EntryType
  <2>2. NoVideo \notin M
    BY SelectionAssumption
  <2> HIDE DEF V
  <2>3. made \in M
    BY <1>11, <2>1
  <2> HIDE DEF M
  <2> QED BY <2>2, <2>3
<1>13. Preference!Entry(d, made.codec, made.implementation) = e
  BY <1>1, <1>3, <1>11, EntryIs DEF Preference!Entry
<1>14. made.codec = f.codec
  BY <1>1, <1>11
<1> QED BY <1>12, <1>13, <1>14 DEF made

\* What a created context advertises is made.
LEMMA AdvertisedFollows == SelectionInv => AdvertisedIsMade
<1> SUFFICES ASSUME SelectionInv, step \in {"created", "created edited"}, NEW d \in {"encoder", "decoder"}
             PROVE  LET formats == CollectSupportedFormats(config.preference, config.capabilities, d)
                    IN  /\ IsInjective(formats)
                        /\ \A i \in DOMAIN formats :
                             LET made == CreateByPreference(config.preference, config.capabilities,
                                                            d, formats[i])
                             IN  /\ made # NoVideo
                                 /\ made.codec = formats[i].codec
                                 /\ Preference!Entry(d, made.codec, made.implementation)
                                      \in ToSet(config.preference)
                        /\ \A e \in ToSet(config.preference) : e.direction = d =>
                             \E i \in DOMAIN formats : formats[i].codec = e.codec
  BY Zenon DEF AdvertisedIsMade
<1> DEFINE p == config.preference
           caps == config.capabilities
           formats == CollectSupportedFormats(p, caps, d)
<1>1. d \in Directions /\ IsValid
  BY DEF SelectionInv, Directions
<1>2. /\ p \in Seq(EntryType) /\ caps \in Seq(ToSet(caps)) /\ \A D \in ToSet(caps) : Makes(D)
  BY DEF SelectionInv, SelectionTypes, ConfigOK, Capable
<1>3. \A i \in DOMAIN caps : caps[i][d] \in Seq(ToSet(caps[i][d]))
  BY <1>1, ListsAreLists
<1>4. /\ formats \in Seq(Listed(caps, d)) /\ IsInjective(formats)
      /\ \A f : f \in ToSet(formats) <=> Offered(p, caps, d, f)
  BY <1>2, <1>3, FormatsAreCollected
<1>5. \A i \in DOMAIN formats : Offered(p, caps, d, formats[i])
  <2> HIDE DEF formats
  <2> QED BY <1>4 DEF ToSet
<1>6. ASSUME NEW e \in ToSet(p), e.direction = d
      PROVE  \E i \in DOMAIN formats : formats[i].codec = e.codec
  <2> DEFINE C == FindCapability(caps, e.implementation)
  <2>1. ValidateVideoCodecPreference(p, caps)
    BY <1>1 DEF IsValid
  <2>2. C # NoVideo /\ IsSupported(C, d, e.codec)
    BY <1>2, <1>6, <2>1, ValidPreference
  <2>3. Makes(C)
    BY <1>2, <2>2, CapabilityFacts
  <2> HIDE DEF C
  <2>4. PICK f \in ToSet(C[d]) : f.codec = e.codec
    BY <1>1, <2>2, <2>3, SupportsWhatItLists
  <2>5. Offered(p, caps, d, f)
    BY <1>6, <2>2, <2>4 DEF Offered, C
  <2>6. f \in ToSet(formats)
    BY <1>4, <2>5
  <2> HIDE DEF formats
  <2> QED BY <2>4, <2>6 DEF ToSet
<1>7. ASSUME NEW i \in DOMAIN formats
      PROVE  LET made == CreateByPreference(p, caps, d, formats[i])
             IN  /\ made # NoVideo /\ made.codec = formats[i].codec
                 /\ Preference!Entry(d, made.codec, made.implementation) \in ToSet(p)
  BY <1>1, <1>5, OfferedIsMade, Zenon
<1> QED BY <1>4, <1>6, <1>7, Zenon

\* So it is for audio: the spec that is offered is made with its parameters.
LEMMA AudioOfferedIsMade ==
  ASSUME SelectionInv, IsValid, NEW d \in Directions, NEW f,
         AudioOffered(config.audioPreference, config.audioCapabilities, d, f)
  PROVE  /\ QueryByPreference(config.audioPreference, config.audioCapabilities, d, f) # NoAudio
         /\ CreateAudioByPreference(config.audioPreference, config.audioCapabilities, d, f)
              = [implementation |-> "internal", format |-> f]
<1> DEFINE p == config.audioPreference
           caps == config.audioCapabilities
           internal == NewInternalAudio(machine.audio)
           list == machine.audio[d]
<1>1. PICK e \in ToSet(p) :
        /\ e.direction = d /\ f.codec = e.codec
        /\ FindAudioCapability(caps, e.implementation) # NoAudio
        /\ f \in ToSet(FindAudioCapability(caps, e.implementation)[d])
  BY DEF AudioOffered
<1>2. p \in Seq(EntryType) /\ caps \in Seq({internal}) /\ machine \in Machines
  BY DEF SelectionInv, SelectionTypes, ConfigOK
<1>3. OnePerKey(p) /\ e.codec \in ToSet(AudioCodecTypes) /\ e \in EntryType
  <2>1. ValidateAudioCodecPreference(p, caps)
    BY DEF IsValid
  <2>2. OnePerKey(p) /\ e.codec \in ToSet(AudioCodecTypes)
    BY <1>2, <2>1, ValidAudioPreference, Zenon
  <2> QED BY <1>2, <2>2, Elements, Zenon
<1>4. AudioFind(p, d, f.codec) = e /\ e # NoAudio
  BY <1>1, <1>2, <1>3, EntryIsFound, NoneIsNothing
<1>5. FindAudioCapability(caps, e.implementation) = internal /\ internal # NoAudio
  <2>1. FindAudioCapability(caps, e.implementation) \in ToSet(caps)
    BY <1>1, <1>2, CapabilityFacts
  <2>2. \A C \in ToSet(caps) : C \in {internal}
    BY <1>2, Elements, Zenon
  <2> QED BY <1>1, <2>1, <2>2
<1>6. AudioImplementation(p, caps, d, f) = internal
  BY <1>4, <1>5, Zenon DEF AudioImplementation
<1>7. internal[d] = list /\ internal.implementation = "internal"
  BY DEF NewInternalAudio, Directions
<1>8. list \in Seq(ToSet(list)) /\ NoAudio \notin ToSet(list)
  BY <1>2, SelectionAssumption DEF Directions
<1>9. f \in ToSet(list)
  BY <1>1, <1>5, <1>7
<1> DEFINE specs == Matching(list, f)
           S == ToSet(list)
<1> HIDE DEF internal, list
<1>10. specs \in Seq(S) /\ f \in ToSet(specs)
  <2>1. list \in Seq(S)
    BY <1>8
  <2>2. specs = OfThe(list, f.codec)
    BY DEF specs, Matching, OfThe, Kept
  <2> HIDE DEF S, specs
  <2>3. OfThe(list, f.codec) \in Seq(S) /\ f \in ToSet(OfThe(list, f.codec))
    BY <1>9, <2>1, OfCodec
  <2> QED BY <2>2, <2>3
<1> HIDE DEF specs
<1>11. specs # <<>> /\ specs[1] # NoAudio /\ f # NoAudio
  <2>1. f \in ToSet(specs)
    BY <1>10
  <2> HIDE DEF S
  <2>2. specs # <<>>
    BY <1>10, <2>1, NoElement
  <2>3. 1 \in DOMAIN specs
    BY <1>10, <2>2
  <2>4. specs[1] \in S
    BY <1>10, <2>3
  <2> QED BY <1>8, <1>9, <2>2, <2>4 DEF S
<1>12. QueryInternal(internal, d, f) # NoAudio
  BY <1>7, <1>11 DEF QueryInternal, specs
<1>13. CreateAudio(internal, d, f) = [implementation |-> "internal", format |-> f]
  BY <1>7, <1>11 DEF CreateAudio, specs
<1>14. QueryByPreference(p, caps, d, f) # NoAudio
  BY <1>5, <1>6, <1>12, Zenon DEF QueryByPreference
<1>15. CreateAudioByPreference(p, caps, d, f) = [implementation |-> "internal", format |-> f]
  BY <1>5, <1>6, <1>13, Zenon DEF CreateAudioByPreference
<1> QED BY <1>14, <1>15

LEMMA AudioAdvertisedFollows == SelectionInv => AudioAdvertisedIsMade
<1> SUFFICES ASSUME SelectionInv, step \in {"created", "created edited"}, NEW d \in {"encoder", "decoder"}
             PROVE  LET p == config.audioPreference
                        caps == config.audioCapabilities
                        specs == CollectAudioCodecSpecs(p, caps, d)
                    IN  /\ \A i \in DOMAIN specs :
                             /\ QueryByPreference(p, caps, d, specs[i]) # NoAudio
                             /\ CreateAudioByPreference(p, caps, d, specs[i])
                                  = [implementation |-> "internal", format |-> specs[i]]
                        /\ \A e \in ToSet(p) : e.direction = d =>
                             \E i \in DOMAIN specs : specs[i].codec = e.codec
  BY Zenon DEF AudioAdvertisedIsMade
<1> DEFINE p == config.audioPreference
           caps == config.audioCapabilities
           internal == NewInternalAudio(machine.audio)
           specs == CollectAudioCodecSpecs(p, caps, d)
<1>1. d \in Directions /\ IsValid
  BY DEF SelectionInv, Directions
<1>2. p \in Seq(EntryType) /\ caps \in Seq({internal})
  BY DEF SelectionInv, SelectionTypes, ConfigOK
<1>3. \A i \in DOMAIN caps : caps[i][d] \in Seq(ToSet(caps[i][d]))
  BY <1>1, ListsAreLists
<1> HIDE DEF internal
<1>4. /\ specs \in Seq(Listed(caps, d))
      /\ \A f : f \in ToSet(specs) <=> AudioOffered(p, caps, d, f)
  BY <1>2, <1>3, SpecsAreCollected
<1>5. \A i \in DOMAIN specs : AudioOffered(p, caps, d, specs[i])
  <2> HIDE DEF specs
  <2> QED BY <1>4 DEF ToSet
<1>6. ASSUME NEW e \in ToSet(p), e.direction = d
      PROVE  \E i \in DOMAIN specs : specs[i].codec = e.codec
  <2> DEFINE C == FindAudioCapability(caps, e.implementation)
  <2>1. ValidateAudioCodecPreference(p, caps)
    BY <1>1 DEF IsValid
  <2>2. C # NoAudio /\ AudioIsSupported(C, d, e.codec)
    BY <1>2, <1>6, <2>1, ValidAudioPreference
  <2>3. PICK i \in DOMAIN C[d] : C[d][i].codec = e.codec
    BY <2>2 DEF AudioIsSupported
  <2>4. C[d][i] \in ToSet(C[d])
    BY <2>3 DEF ToSet
  <2>5. AudioOffered(p, caps, d, C[d][i])
    BY <1>6, <2>2, <2>3, <2>4 DEF AudioOffered
  <2>6. C[d][i] \in ToSet(specs)
    BY <1>4, <2>5
  <2> HIDE DEF specs, C
  <2> QED BY <2>3, <2>6 DEF ToSet
<1>7. ASSUME NEW i \in DOMAIN specs
      PROVE  /\ QueryByPreference(p, caps, d, specs[i]) # NoAudio
             /\ CreateAudioByPreference(p, caps, d, specs[i])
                  = [implementation |-> "internal", format |-> specs[i]]
  BY <1>1, <1>5, AudioOfferedIsMade, Zenon
<1> QED BY <1>6, <1>7, Zenon

-----------------------------------------------------------------------------
(* The command line                                                        *)

\* The entries of a direction that SelectionIsAsTold names.
ChosenFor(direction, codec) ==
  {Preference!Entry(direction, codec, SelectedImplementations[i]) :
     i \in {i \in DOMAIN SelectedImplementations :
             /\ IsSupported(NewCapability(SelectedImplementations[i]), direction, codec)
             /\ \A j \in DOMAIN SelectedImplementations :
                  j > i => ~IsSupported(NewCapability(SelectedImplementations[j]), direction, codec)}}

AllChosen(direction) == UNION {ChosenFor(direction, codec) : codec \in ToSet(VideoCodecTypes)}

\* They are what the selected implementations say.
LEMMA ChosenAreSaid ==
  ASSUME args \in Arguments, Parses(args.implementations),
         \A i \in DOMAIN Has : Has[i].implementation = SelectedImplementations[i],
         NEW d \in Directions
  PROVE  \A e : e \in AllChosen(d) <=> e.direction = d /\ Says(Has, Len(SelectedImplementations), e)
<1> DEFINE L == Len(SelectedImplementations)
           Able(i, c) == IsSupported(Has[i], d, c)
<1>1. /\ L \in Nat /\ DOMAIN SelectedImplementations = 1..L /\ DOMAIN Has = 1..L
      /\ \A i \in 1..L : Has[i] = NewCapability(SelectedImplementations[i])
  BY SelectedAre
<1> HIDE DEF L
<1>2. ASSUME NEW e, NEW c \in ToSet(VideoCodecTypes)
      PROVE  e \in ChosenFor(d, c) <=>
               \E i \in 1..L : /\ e = EntryOf(d, c, SelectedImplementations[i]) /\ Able(i, c)
                               /\ \A j \in 1..L : j > i => ~Able(j, c)
  BY <1>1 DEF ChosenFor, EntryOf, Preference!Entry
<1>3. ASSUME NEW e, e \in AllChosen(d) PROVE e.direction = d /\ Says(Has, L, e)
  <2>1. PICK c \in ToSet(VideoCodecTypes) : e \in ChosenFor(d, c)
    BY <1>3 DEF AllChosen
  <2>2. PICK i \in 1..L : /\ e = EntryOf(d, c, SelectedImplementations[i]) /\ Able(i, c)
                          /\ \A j \in 1..L : j > i => ~Able(j, c)
    BY <1>2, <2>1
  <2>3. Has[i].implementation = SelectedImplementations[i] /\ \A j \in i + 1..L : j \in 1..L /\ j > i
    BY <1>1
  <2> QED BY <2>2, <2>3 DEF Says, EntryOf
<1>4. ASSUME NEW e, e.direction = d, Says(Has, L, e) PROVE e \in AllChosen(d)
  <2>1. PICK i \in 1..L, f \in Directions, c \in ToSet(VideoCodecTypes) :
          /\ e = EntryOf(f, c, Has[i].implementation) /\ IsSupported(Has[i], f, c)
          /\ \A j \in i + 1..L : ~IsSupported(Has[j], f, c)
    BY <1>4 DEF Says
  <2>2. f = d
    BY <1>4, <2>1 DEF EntryOf
  <2>3. Has[i].implementation = SelectedImplementations[i] /\ \A j \in 1..L : j > i => j \in i + 1..L
    BY <1>1
  <2>4. e \in ChosenFor(d, c)
    BY <1>2, <2>1, <2>2, <2>3
  <2> QED BY <2>4 DEF AllChosen
<1> QED BY <1>3, <1>4 DEF L

\* What has no codec is said to support none.
LEMMA SupportsNone ==
  ASSUME NEW C, ~HasAnyCodecSupport(C)
  PROVE  \A d \in Directions, c \in ToSet(VideoCodecTypes) : ~IsSupported(C, d, c)
<1> SUFFICES ASSUME NEW d \in Directions, NEW c \in ToSet(VideoCodecTypes) PROVE ~IsSupported(C, d, c)
  OBVIOUS
<1>1. PICK i \in DOMAIN VideoCodecTypes : VideoCodecTypes[i] = c
  BY DEF ToSet
<1> QED BY <1>1, Zenon DEF HasAnyCodecSupport, Directions

\* The report is a fold over what probing finds of the selected implementations.
SelectedProbes == [i \in DOMAIN SelectedImplementations |-> Probe(SelectedImplementations[i])]

LEMMA ReportIs == PreferenceReport = Reporting!Folded(SelectedProbes, <<>>)
BY DEF PreferenceReport, SelectedProbes, FoldLeft, MapThenFoldSet, Max, ReportedOne,
       Reporting!Folded, Reporting!FoldLeft, Reporting!MapThenFoldSet, Reporting!Max

\* A probe finds what is selected, or nothing where that supports nothing.
LEMMA ReportIsAsTold ==
  ASSUME machine \in Machines, args \in Arguments, Parses(args.implementations),
         \A i \in DOMAIN Has : Has[i] # NoVideo
  PROVE  /\ ToldBy(PreferenceReport, Has, Len(SelectedImplementations))
         /\ \A i \in DOMAIN Has : Has[i].implementation = SelectedImplementations[i]
<1> DEFINE L == Len(SelectedImplementations)
<1>1. /\ L \in Nat /\ DOMAIN SelectedImplementations = 1..L /\ DOMAIN Has = 1..L
      /\ \A i \in 1..L : /\ Has[i] = NewCapability(SelectedImplementations[i])
                         /\ SelectedImplementations[i] \in ToSet(Implementations)
  BY SelectedAre
<1> HIDE DEF L
<1>2. ASSUME NEW i \in 1..L
      PROVE  Has[i].implementation = SelectedImplementations[i] /\ Has[i].implementation \in ImplementationNames
  BY <1>1, NewCapabilityMakes
<1>3. ASSUME NEW i \in 1..L
      PROVE  \/ SelectedProbes[i].capability = Has[i]
             \/ /\ SelectedProbes[i].capability = NoVideo
                /\ \A d \in Directions, c \in ToSet(VideoCodecTypes) : ~IsSupported(Has[i], d, c)
  <2>1. SelectedProbes[i] = Probe(SelectedImplementations[i])
    BY <1>1 DEF SelectedProbes
  <2>2. \/ SelectedProbes[i].capability = Has[i]
        \/ SelectedProbes[i].capability = NoVideo /\ ~HasAnyCodecSupport(Has[i])
    BY <1>1, <2>1 DEF Probe, Unless
  <2> QED BY <2>2, SupportsNone
<1>4. DOMAIN SelectedProbes = 1..L
  BY <1>1 DEF SelectedProbes
<1>5. ToldBy(Reporting!Folded(SelectedProbes, <<>>), Has, L)
  BY <1>1, <1>2, <1>3, <1>4, ReportTells
<1> QED BY <1>1, <1>2, <1>5, ReportIs DEF L

\* What is marked as selected is what is selected.
LEMMA MarksAreSelected ==
  ASSUME NEW i \in DOMAIN Probes
  PROVE  Probes[i].selected <=> Implementations[i] \in ToSet(SelectedImplementations)
<1>1. Probes[i] = Probe(Implementations[i]) /\ Probes[i].selected = Probe(Implementations[i]).selected
  BY DEF Probes
<1>2. CASE args.implementations # AutoSelection
  BY <1>1, <1>2 DEF Probe, Names, SelectedImplementations
<1>3. CASE args.implementations = AutoSelection
  <2> DEFINE apple == Probe("internal-apple").capability
             usable(n) == Unless(NewCapability(n) = NoVideo \/ ~HasAnyCodecSupport(NewCapability(n)),
                                 NewCapability(n))
             n == Implementations[i]
  <2>1. apple = usable("internal-apple")
    BY DEF Probe
  <2>2. Probes[i].selected <=> n = "internal" \/ (n = "internal-apple" /\ usable(n) # NoVideo)
    BY <1>1, <1>3 DEF Probe, Names
  <2>3. SelectedImplementations
          = IF apple = NoVideo THEN <<"internal">> ELSE <<"internal", "internal-apple">>
    BY <1>3 DEF SelectedImplementations
  <2>4. /\ ToSet(<<"internal">>) = {"internal"}
        /\ ToSet(<<"internal", "internal-apple">>) = {"internal", "internal-apple"}
    BY DEF ToSet
  <2> HIDE DEF apple, usable, n
  <2>5. n \in ToSet(SelectedImplementations) <=> n = "internal" \/ (n = "internal-apple" /\ apple # NoVideo)
    BY <2>3, <2>4
  <2>6. Probes[i].selected <=> n \in ToSet(SelectedImplementations)
    BY <2>1, <2>2, <2>5
  <2> QED BY <2>6 DEF n
<1> QED BY <1>2, <1>3

\* What was built is what the command line says.
LEMMA SelectionFollows == SelectionInv => SelectionIsAsTold
<1> SUFFICES ASSUME SelectionInv, step = "built"
             PROVE  /\ \A i \in DOMAIN Probes :
                         Probes[i].selected <=> Implementations[i] \in ToSet(SelectedImplementations)
                    /\ ToSet(PreferenceReport) = AllChosen("encoder") \cup AllChosen("decoder")
                    /\ ToSet(config.preference) =
                         IF args.mp4 = NoVideo THEN ToSet(PreferenceReport)
                         ELSE AllChosen("decoder")
                                \cup {Preference!Entry("encoder", args.mp4.codec, "mp4-passthrough")}
  BY Zenon DEF SelectionIsAsTold, AllChosen, ChosenFor
<1> DEFINE L == Len(SelectedImplementations)
<1>1. /\ machine \in Machines /\ args \in Arguments /\ Parses(args.implementations)
      /\ BuiltAsTold
  BY DEF SelectionInv, SelectionTypes
<1>2. \A i \in DOMAIN Has : Has[i] # NoVideo
  BY <1>1 DEF BuiltAsTold
<1>3. /\ ToldBy(PreferenceReport, Has, L)
      /\ \A i \in DOMAIN Has : Has[i].implementation = SelectedImplementations[i]
  BY <1>1, <1>2, ReportIsAsTold
<1>4. ASSUME NEW d \in Directions
      PROVE  \A e : e \in AllChosen(d) <=> e.direction = d /\ Says(Has, L, e)
  BY <1>1, <1>3, <1>4, ChosenAreSaid
<1> HIDE DEF L
<1>5. \A e : Says(Has, L, e) => e.direction \in Directions
  BY DEF Says, EntryOf
<1>6. \A e : e \in AllChosen("encoder") \cup AllChosen("decoder") <=> Says(Has, L, e)
  BY <1>4, <1>5 DEF Directions
<1>7. ToSet(PreferenceReport) = AllChosen("encoder") \cup AllChosen("decoder")
  <2>1. \A e : e \in ToSet(PreferenceReport) <=> Says(Has, L, e)
    BY <1>3 DEF ToldBy
  <2> QED BY <1>6, <2>1
<1>8. ASSUME args.mp4 = NoVideo PROVE ToSet(config.preference) = ToSet(PreferenceReport)
  <2>1. ToldBy(config.preference, Has, L)
    BY <1>1, <1>8 DEF BuiltAsTold, L
  <2>2. \A e : e \in ToSet(config.preference) <=> e \in ToSet(PreferenceReport)
    BY <1>3, <2>1 DEF ToldBy
  <2> QED BY <2>2
<1>9. ASSUME args.mp4 # NoVideo
      PROVE  ToSet(config.preference)
               = AllChosen("decoder") \cup {Preference!Entry("encoder", args.mp4.codec, "mp4-passthrough")}
  <2>1. Preference!Entry("encoder", args.mp4.codec, "mp4-passthrough") = Sent
    BY DEF Preference!Entry, Sent, EntryOf
  <2>2. \A e : e \in ToSet(config.preference) <=>
                 \/ e.direction = "decoder" /\ Says(Has, L, e)
                 \/ e = Sent
    BY <1>1, <1>9 DEF BuiltAsTold, L
  <2>3. \A e : e \in AllChosen("decoder") <=> e.direction = "decoder" /\ Says(Has, L, e)
    BY <1>4 DEF Directions
  <2>4. \A e : e \in ToSet(config.preference) <=> e \in AllChosen("decoder") \cup {Sent}
    BY <2>2, <2>3
  <2> QED BY <2>1, <2>4
<1>10. \A i \in DOMAIN Probes : Probes[i].selected <=> Implementations[i] \in ToSet(SelectedImplementations)
  BY MarksAreSelected
<1> QED BY <1>7, <1>8, <1>9, <1>10

-----------------------------------------------------------------------------
(* The connection                                                          *)

\* A sequence of one element that has it once is of length one.
LEMMA OnlyOne ==
  ASSUME NEW S, NEW s \in Seq(S), IsInjective(s), NEW x, \A y : y \in ToSet(s) <=> y = x
  PROVE  Len(s) = 1 /\ s[1] = x
<1>1. Len(s) \in Nat /\ DOMAIN s = 1..Len(s) /\ \A i \in 1..Len(s) : s[i] = x
  BY DEF ToSet
<1>2. PICK i \in 1..Len(s) : s[i] = x
  BY <1>1 DEF ToSet
<1>3. \A j, k \in 1..Len(s) : j = k
  BY <1>1 DEF IsInjective
<1>4. 1 \in 1..Len(s) /\ Len(s) \in 1..Len(s)
  BY <1>1, <1>2
<1> QED BY <1>1, <1>3, <1>4

\* With a file the one format that can be encoded is the file's.
LEMMA FileIsEncoded ==
  ASSUME SelectionInv, step = "connecting", args.mp4 # NoVideo
  PROVE  LET encoded == CollectSupportedFormats(config.preference, config.capabilities, "encoder")
         IN  Len(encoded) = 1 /\ encoded[1] = args.mp4
<1> DEFINE p == config.preference
           caps == config.capabilities
           encoded == CollectSupportedFormats(p, caps, "encoder")
           C == FindCapability(caps, "mp4-passthrough")
<1>1. /\ p \in Seq(EntryType) /\ caps \in Seq(ToSet(caps)) /\ \A D \in ToSet(caps) : Capable(D)
      /\ IsValid /\ SendsFile
  BY DEF SelectionInv, SelectionTypes, ConfigOK
<1>2. Sent \in ToSet(p) /\ \A e \in ToSet(p) : e.direction = "encoder" => e = Sent
  BY <1>1 DEF SendsFile
<1>3. /\ Sent.direction = "encoder" /\ Sent.codec = args.mp4.codec
      /\ Sent.implementation = "mp4-passthrough"
  BY DEF Sent, EntryOf
<1>4. C # NoVideo /\ C \in ToSet(caps) /\ C.implementation = "mp4-passthrough"
  <2>1. ValidateVideoCodecPreference(p, caps)
    BY <1>1 DEF IsValid
  <2>2. C # NoVideo
    BY <1>1, <1>2, <1>3, <2>1, ValidPreference
  <2> QED BY <1>1, <2>2, CapabilityFacts
<1>5. C = NewPassthrough(args.mp4)
  BY <1>1, <1>4 DEF Capable, IsPassthrough
<1>6. ToSet(C["encoder"]) = {args.mp4}
  BY <1>5, PassthroughLists
<1>7. /\ encoded \in Seq(Listed(caps, "encoder")) /\ IsInjective(encoded)
      /\ \A f : f \in ToSet(encoded) <=> Offered(p, caps, "encoder", f)
  <2>1. \A i \in DOMAIN caps : caps[i]["encoder"] \in Seq(ToSet(caps[i]["encoder"]))
    BY ListsAreLists DEF Directions
  <2> QED BY <1>1, <2>1, FormatsAreCollected
<1> HIDE DEF C
<1>8. ASSUME NEW f PROVE Offered(p, caps, "encoder", f) <=> f = args.mp4
  <2>1. ASSUME Offered(p, caps, "encoder", f) PROVE f = args.mp4
    <3>1. PICK e \in ToSet(p) :
            /\ e.direction = "encoder" /\ f.codec = e.codec
            /\ FindCapability(caps, e.implementation) # NoVideo
            /\ f \in ToSet(FindCapability(caps, e.implementation)["encoder"])
      BY <2>1 DEF Offered
    <3>2. e = Sent
      BY <1>2, <3>1
    <3>3. f \in ToSet(C["encoder"])
      BY <1>3, <3>1, <3>2 DEF C
    <3> QED BY <1>6, <3>3
  <2>2. ASSUME f = args.mp4 PROVE Offered(p, caps, "encoder", f)
    <3>1. f \in ToSet(C["encoder"]) /\ f.codec = Sent.codec
      BY <1>3, <1>6, <2>2
    <3> QED BY <1>2, <1>3, <1>4, <3>1 DEF Offered, C
  <2> QED BY <2>1, <2>2
<1> HIDE DEF encoded, p, caps
<1>9. Len(encoded) = 1 /\ encoded[1] = args.mp4
  BY <1>7, <1>8, OnlyOne
<1> QED BY <1>9 DEF encoded, p, caps

\* A connection asks for what is about to be sent.
LEMMA ConnectFollows == SelectionInv => ConnectAsksForWhatIsSent
<1> SUFFICES ASSUME SelectionInv, step = "connecting" PROVE ConnectAsksForWhatIsSent
  BY DEF ConnectAsksForWhatIsSent
<1> DEFINE encoded == CollectSupportedFormats(config.preference, config.capabilities, "encoder")
<1>1. connect = [video |-> Video, capturer |-> Capturer] /\ args \in Arguments
  BY DEF SelectionInv, SelectionTypes
<1>2. connect.video = Video /\ connect.capturer = Capturer
  BY <1>1
<1>3. /\ Capturer = "mp4" <=> WantsSend /\ VideoEnabled /\ args.mp4 # NoVideo
      /\ Capturer = "none" <=> ~(WantsSend /\ VideoEnabled)
  BY DEF Capturer
<1>4. connect.capturer = "mp4" <=> args.mp4 # NoVideo /\ connect.capturer # "none"
  BY <1>2, <1>3
<1>5. ASSUME connect.capturer = "mp4"
      PROVE  /\ Len(encoded) = 1
             /\ connect.video.codec = encoded[1].codec
             /\ connect.video.parameters \subseteq encoded[1].parameters
             /\ encoded[1].codec = "H264" => connect.video.parameters # {}
  <2>1. WantsSend /\ VideoEnabled /\ args.mp4 # NoVideo
    BY <1>2, <1>3, <1>5
  <2>2. Len(encoded) = 1 /\ encoded[1] = args.mp4
    BY <2>1, FileIsEncoded
  <2>3. Video = [codec |-> args.mp4.codec, parameters |-> H264Params]
    BY <2>1 DEF Video
  <2>4. H264Params \subseteq args.mp4.parameters
    BY DEF H264Params
  <2>5. args.mp4.codec = "H264" => H264Params # {}
    BY <1>1, <2>1, SelectionAssumption DEF H264Params
  <2> HIDE DEF encoded
  <2> QED BY <1>2, <2>2, <2>3, <2>4, <2>5
<1>6. ASSUME connect.capturer # "mp4", args.codecType = NoVideo
      PROVE  connect.video \in {Bare("absent"), Bare("true"), Bare("false")}
  <2>1. ~VideoEnabled \/ ~(WantsSend /\ args.mp4 # NoVideo)
    BY <1>2, <1>3, <1>6
  <2>2. Video \in {Bare("absent"), Bare("true"), Bare("false")}
    BY <1>6, <2>1 DEF Video
  <2> QED BY <1>2, <2>2
<1>7. ASSUME connect.video = Bare("false") PROVE connect.capturer = "none"
  <2>1. SUFFICES ASSUME VideoEnabled PROVE FALSE
    BY <1>2, <1>3
  <2> DEFINE V == {"VP8", "VP9", "H264", "H265", "AV1"}
  <2>2. /\ args.codecType \in {NoVideo} \cup V
        /\ args.mp4 # NoVideo => args.mp4.codec \in V
    BY <1>1, VideoTypes, SelectionAssumption
  <2>3. Video.codec \in V \cup {"true", "absent"}
    BY <2>1, <2>2 DEF Video, Bare
  <2>4. Bare("false").codec = "false"
    BY DEF Bare
  <2> QED BY <1>2, <1>7, <2>3, <2>4
<1> HIDE DEF encoded
<1> QED BY <1>4, <1>5, <1>6, <1>7, Zenon DEF ConnectAsksForWhatIsSent, encoded

-----------------------------------------------------------------------------
(* The selection is safe                                                   *)

\* The state of the command line and of the configuration it builds has its types (args.rs,
\* connection_context.rs).
THEOREM SelectionTypeCorrect == SelectionSpec => []SelectionTypeOK
BY SelectionInvHolds, TypesFollow, PTL

\* From any command line: what was built is what was told, as --video-codec-list shows it; a
\* context offers only formats that the implementation it prefers makes, of video and of
\* audio; and a connection asks for what its one encoder sends (main.rs, video_codec.rs,
\* audio_codec.rs).
THEOREM SelectionIsSafe ==
  SelectionSpec =>
    [](SelectionIsAsTold /\ AdvertisedIsMade /\ AudioAdvertisedIsMade /\ ConnectAsksForWhatIsSent)
BY SelectionInvHolds, SelectionFollows, AdvertisedFollows, AudioAdvertisedFollows,
     ConnectFollows, PTL
=============================================================================
