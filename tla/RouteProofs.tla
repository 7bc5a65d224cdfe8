---------------------------- MODULE RouteProofs ----------------------------
(***************************************************************************)
(* Proofs about Route, for any flag, users and heartbeats.                  *)
(*                                                                          *)
(* What Split and Join compute is proved by induction on the length of a    *)
(* flag: InductionOnSet is induction for a set of naturals, which is the    *)
(* form the provers can use.  With it a function that satisfies the         *)
(* recursive definition exists, and what it returns for a flag follows from *)
(* what it returns for shorter ones.                                        *)
(***************************************************************************)
EXTENDS Route, WellFoundedInduction, SequenceTheorems, TLAPS

\* Induction over the naturals, for a set of them.
LEMMA InductionOnSet ==
  ASSUME NEW T, \A n \in Nat : (\A m \in Nat : m < n => m \in T) => n \in T
  PROVE  Nat \subseteq T
<1> DEFINE R == OpToRel(<, Nat)
           U == Nat \ T
<1>1. \A m, n \in Nat : m < n => <<m, n>> \in R
  BY DEF OpToRel
<1>2. IsWellFoundedOn(R, Nat)
  BY NatLessThanWellFounded
<1> HIDE DEF R
<1>3. ASSUME U # {} PROVE FALSE
  <2>1. U \subseteq Nat
    OBVIOUS
  <2>2. \E x \in U : \A y \in U : ~ (<<y, x>> \in R)
    <3> HIDE DEF U
    <3> QED BY <1>2, <1>3, <2>1, WFMin
  <2> QED BY <1>1, <2>2
<1> QED BY <1>3

\* SeqOf(S, n) is the set of sequences of at most n elements of S.
LEMMA SeqOfIs ==
  ASSUME NEW S, NEW n \in Nat
  PROVE  SeqOf(S, n) = {s \in Seq(S) : Len(s) <= n}
<1>1. ASSUME NEW s \in SeqOf(S, n) PROVE s \in Seq(S) /\ Len(s) <= n
  <2>1. PICK m \in 0..n : s \in [1..m -> S]
    BY DEF SeqOf
  <2>2. s \in Seq(S)
    BY <2>1, SeqDef
  <2> QED BY <2>1, <2>2, LenProperties
<1>2. ASSUME NEW s \in Seq(S), Len(s) <= n PROVE s \in SeqOf(S, n)
  BY <1>2, LenProperties DEF SeqOf
<1> QED BY <1>1, <1>2

\* FindDelim returns the first delimiter, 0 if there is none.
LEMMA FindDelimIs ==
  ASSUME NEW s \in Seq(Chars)
  PROVE  /\ FindDelim(s) \in 0..Len(s)
         /\ FindDelim(s) = 0 => \A i \in 1..Len(s) : s[i] # Delim
         /\ FindDelim(s) # 0 => s[FindDelim(s)] = Delim
         /\ \A j \in 1..FindDelim(s)-1 : s[j] # Delim
<1>1. DOMAIN s = 1..Len(s) /\ Len(s) \in Nat
  BY LenProperties
<1>2. ASSUME NEW i \in 1..Len(s), s[i] = Delim
      PROVE \E k \in 1..Len(s) : s[k] = Delim /\ \A j \in 1..k-1 : s[j] # Delim
  <2> DEFINE T == {n \in Nat : n \in 1..Len(s) => s[n] # Delim}
  <2>1. ~ (Nat \subseteq T)
    BY <1>1, <1>2
  <2>2. \E n \in Nat : (\A m \in Nat : m < n => m \in T) /\ n \notin T
    <3> HIDE DEF T
    <3> QED BY <2>1, InductionOnSet
  <2> QED BY <1>1, <2>2
<1>3. CASE \E i \in 1..Len(s) : s[i] = Delim
  <2>1. \E k \in DOMAIN s : s[k] = Delim /\ \A j \in 1..k-1 : s[j] # Delim
    BY <1>1, <1>2, <1>3
  <2>2. PICK p : p = FindDelim(s)
    OBVIOUS
  <2>3. p \in DOMAIN s /\ s[p] = Delim /\ \A j \in 1..p-1 : s[j] # Delim
    BY <1>1, <1>3, <2>1, <2>2 DEF FindDelim
  <2> QED BY <1>1, <2>2, <2>3
<1>4. CASE ~ \E i \in 1..Len(s) : s[i] = Delim
  BY <1>1, <1>4 DEF FindDelim
<1> QED BY <1>3, <1>4

\* One turn of Split's loop on cur, when g gives the fields of the rest.
Step(g, cur, keep_empty) ==
        LET pos == FindDelim(cur)
            rest == SubSeq(cur, pos + 1, Len(cur))
            head == IF pos = 0 THEN cur ELSE SubSeq(cur, 1, pos - 1)
            field == IF pos # 1 \/ keep_empty THEN <<head>> ELSE <<>>
        IN CASE pos = 0 -> field
             [] pos # 0 /\ rest = <<>> -> field \o (IF keep_empty THEN <<(<<>>)>> ELSE <<>>)
             [] OTHER -> field \o g[rest]

\* Split is the function that its loop defines.
LEMMA SplitIs ==
  ASSUME NEW s \in Seq(Chars), NEW k \in BOOLEAN
  PROVE  Split(s, k) = IF s = <<>> THEN <<>> ELSE
            (CHOOSE g : g = [cur \in SeqOf(Chars, Len(s)) |-> Step(g, cur, k)])[s]
BY DEF Split, Step

\* r is what follows position p of s.
IsRest(r, s, p) ==
  /\ r \in Seq(Chars)
  /\ Len(r) \in Nat
  /\ Len(r) = Len(s) - p
  /\ \A i \in 1..Len(r) : r[i] = s[p + i]

\* What lies after and before position p.
LEMMA RestIs ==
  ASSUME NEW s \in Seq(Chars), NEW p \in 1..Len(s)
  PROVE  /\ IsRest(SubSeq(s, p + 1, Len(s)), s, p)
         /\ SubSeq(s, 1, p - 1) \in Seq(Chars)
         /\ Len(SubSeq(s, 1, p - 1)) = p - 1
         /\ \A i \in 1..p-1 : SubSeq(s, 1, p - 1)[i] = s[i]
<1>1. Len(s) \in Nat /\ \A i \in 1..Len(s) : s[i] \in Chars
  BY LenProperties, ElementOfSeq
<1>2. p + 1 \in Int /\ p - 1 \in Int /\ 1 \in Int /\ Len(s) \in Int
  BY <1>1
<1>3. \A i \in p+1..Len(s) : s[i] \in Chars
  BY <1>1
<1>4. \A i \in 1..p-1 : s[i] \in Chars
  BY <1>1
<1>5. /\ SubSeq(s, p + 1, Len(s)) \in Seq(Chars)
      /\ Len(SubSeq(s, p + 1, Len(s))) = IF p + 1 <= Len(s) THEN Len(s) - (p + 1) + 1 ELSE 0
      /\ \A i \in 1..Len(s) - (p + 1) + 1 : SubSeq(s, p + 1, Len(s))[i] = s[p + 1 + i - 1]
  BY <1>2, <1>3, SubSeqProperties
<1>6. /\ SubSeq(s, 1, p - 1) \in Seq(Chars)
      /\ Len(SubSeq(s, 1, p - 1)) = IF 1 <= p - 1 THEN p - 1 - 1 + 1 ELSE 0
      /\ \A i \in 1..p - 1 - 1 + 1 : SubSeq(s, 1, p - 1)[i] = s[1 + i - 1]
  BY <1>2, <1>4, SubSeqProperties
<1> QED BY <1>1, <1>2, <1>5, <1>6 DEF IsRest

\* A turn of the loop looks only at shorter rests.
LEMMA StepLocal ==
  ASSUME NEW c \in Seq(Chars), NEW k \in BOOLEAN, NEW g, NEW h,
         \A r \in Seq(Chars) : Len(r) < Len(c) => g[r] = h[r]
  PROVE  Step(g, c, k) = Step(h, c, k)
<1>1. CASE FindDelim(c) = 0
  BY <1>1 DEF Step
<1>2. CASE FindDelim(c) # 0
  <2> DEFINE r == SubSeq(c, FindDelim(c) + 1, Len(c))
  <2>1. FindDelim(c) \in 1..Len(c) /\ Len(c) \in Nat
    BY <1>2, FindDelimIs, LenProperties
  <2>2. r \in Seq(Chars) /\ Len(r) < Len(c)
    BY <2>1, RestIs DEF IsRest
  <2>3. g[r] = h[r]
    BY <2>2
  <2> QED BY <1>2, <2>3 DEF Step
<1> QED BY <1>1, <1>2

\* So there is a function that the loop defines: one for length n - 1 gives one
\* for n.
LEMMA Unfolds ==
  ASSUME NEW N \in Nat, NEW k \in BOOLEAN
  PROVE  \E g : g = [c \in SeqOf(Chars, N) |-> Step(g, c, k)]
<1> DEFINE T == {n \in Nat : \E g : g = [c \in SeqOf(Chars, n) |-> Step(g, c, k)]}
<1>1. ASSUME NEW n \in Nat, \A m \in Nat : m < n => m \in T PROVE n \in T
  <2>1. \E g : \A c \in Seq(Chars) : Len(c) < n => g[c] = Step(g, c, k)
    <3>1. CASE n = 0
      BY <3>1, LenProperties
    <3>2. CASE n # 0
      <4>1. n - 1 \in T
        BY <1>1, <3>2
      <4>2. PICK g : g = [c \in SeqOf(Chars, n - 1) |-> Step(g, c, k)]
        BY <4>1
      <4>3. \A c \in Seq(Chars) : Len(c) < n => c \in SeqOf(Chars, n - 1)
        BY <3>2, SeqOfIs, LenProperties
      <4>4. \A c \in SeqOf(Chars, n - 1) : g[c] = Step(g, c, k)
        BY <4>2
      <4> QED BY <4>3, <4>4
    <3> QED BY <3>1, <3>2
  <2>2. PICK g : \A c \in Seq(Chars) : Len(c) < n => g[c] = Step(g, c, k)
    BY <2>1
  <2>3. PICK h : h = [c \in SeqOf(Chars, n) |-> Step(g, c, k)]
    OBVIOUS
  <2>4. ASSUME NEW c \in SeqOf(Chars, n) PROVE Step(g, c, k) = Step(h, c, k)
    <3>1. c \in Seq(Chars) /\ Len(c) <= n /\ Len(c) \in Nat
      BY SeqOfIs, LenProperties
    <3>2. ASSUME NEW r \in Seq(Chars), Len(r) < Len(c) PROVE g[r] = h[r]
      <4>1. Len(r) < n /\ Len(r) <= n
        BY <3>1, <3>2, LenProperties
      <4>2. r \in SeqOf(Chars, n)
        BY <4>1, SeqOfIs
      <4> QED BY <2>2, <2>3, <4>1, <4>2
    <3> QED BY <3>1, <3>2, StepLocal
  <2>5. h = [c \in SeqOf(Chars, n) |-> Step(h, c, k)]
    BY <2>3, <2>4
  <2> QED BY <2>5
<1>2. Nat \subseteq T
  <2> HIDE DEF T
  <2> QED BY <1>1, InductionOnSet
<1> QED BY <1>2

\* Split looks for its fields by Step, in a rest that gets shorter.
LEMMA SplitUnfolds ==
  ASSUME NEW s \in Seq(Chars), s # <<>>, NEW k \in BOOLEAN
  PROVE  \E f : /\ Split(s, k) = f[s]
                /\ \A c \in Seq(Chars) : Len(c) <= Len(s) => f[c] = Step(f, c, k)
<1> DEFINE D == SeqOf(Chars, Len(s))
           f == CHOOSE g : g = [c \in D |-> Step(g, c, k)]
<1>1. Len(s) \in Nat
  BY LenProperties
<1>2. f = [c \in D |-> Step(f, c, k)]
  <2>1. \E g : g = [c \in D |-> Step(g, c, k)]
    BY <1>1, Unfolds
  <2> HIDE DEF D
  <2> QED BY <2>1, Zenon
<1>3. Split(s, k) = f[s]
  BY SplitIs
<1>4. \A c \in Seq(Chars) : Len(c) <= Len(s) => c \in D
  BY <1>1, SeqOfIs
<1>5. \A c \in D : f[c] = Step(f, c, k)
  <2> HIDE DEF f, D
  <2> QED BY <1>2
<1> HIDE DEF f, D
<1> QED BY <1>3, <1>4, <1>5

-----------------------------------------------------------------------------
\* What Join puts together of a sequence of fields, when g does the rest.
JoinStep(g, fs) == IF Len(fs) < 2 THEN Head(fs) ELSE Head(fs) \o <<Delim>> \o g[Tail(fs)]

\* Sequences of at most n fields.
UpTo(n) == {x \in Seq(Seq(Chars)) : Len(x) <= n}

\* Join satisfies its definition, for the same reason.
LEMMA JoinUnfolds ==
  \A fs \in UpTo(MaxFlag + 1) : Join[fs] = JoinStep(Join, fs)
<1> DEFINE T == {n \in Nat : \E g : g = [fs \in UpTo(n) |-> JoinStep(g, fs)]}
<1>1. ASSUME NEW n \in Nat, \A m \in Nat : m < n => m \in T PROVE n \in T
  <2>1. \E g : \A fs \in UpTo(n) : Len(fs) < n => g[fs] = JoinStep(g, fs)
    <3>1. CASE n = 0
      BY <3>1, LenProperties DEF UpTo
    <3>2. CASE n # 0
      <4>1. n - 1 \in T
        BY <1>1, <3>2
      <4>2. PICK g : g = [fs \in UpTo(n - 1) |-> JoinStep(g, fs)]
        BY <4>1
      <4>3. \A fs \in UpTo(n) : Len(fs) < n => fs \in UpTo(n - 1)
        BY <3>2, LenProperties DEF UpTo
      <4>4. \A fs \in UpTo(n - 1) : g[fs] = JoinStep(g, fs)
        BY <4>2
      <4> QED BY <4>3, <4>4
    <3> QED BY <3>1, <3>2
  <2>2. PICK g : \A fs \in UpTo(n) : Len(fs) < n => g[fs] = JoinStep(g, fs)
    BY <2>1
  <2>3. PICK h : h = [fs \in UpTo(n) |-> JoinStep(g, fs)]
    OBVIOUS
  <2>4. ASSUME NEW fs \in UpTo(n) PROVE JoinStep(g, fs) = JoinStep(h, fs)
    <3>1. fs \in Seq(Seq(Chars)) /\ Len(fs) <= n /\ Len(fs) \in Nat
      BY LenProperties DEF UpTo
    <3>2. ASSUME ~ (Len(fs) < 2) PROVE g[Tail(fs)] = h[Tail(fs)]
      <4>1. fs # <<>>
        BY <3>2, EmptySeq
      <4>2. Tail(fs) \in Seq(Seq(Chars)) /\ Len(Tail(fs)) = Len(fs) - 1
        BY <3>1, <4>1, HeadTailProperties
      <4>3. Len(Tail(fs)) < n /\ Tail(fs) \in UpTo(n)
        BY <3>1, <3>2, <4>2 DEF UpTo
      <4> QED BY <2>2, <2>3, <4>3
    <3> QED BY <3>2 DEF JoinStep
  <2>5. h = [fs \in UpTo(n) |-> JoinStep(h, fs)]
    BY <2>3, <2>4
  <2> QED BY <2>5
<1>2. Nat \subseteq T
  <2> HIDE DEF T
  <2> QED BY <1>1, InductionOnSet
<1>3. MaxFlag + 1 \in T
  BY <1>2, RouteAssumption
<1> DEFINE D == UpTo(MaxFlag + 1)
<1>4. \E g : g = [fs \in D |-> JoinStep(g, fs)]
  BY <1>3
<1>5. Join = CHOOSE g : g = [fs \in D |-> JoinStep(g, fs)]
  BY DEF Join, JoinStep, UpTo
<1> HIDE DEF D
<1>6. Join = [fs \in D |-> JoinStep(Join, fs)]
  BY <1>4, <1>5, Zenon
<1>7. \A fs \in D : Join[fs] = JoinStep(Join, fs)
  BY <1>6
<1> QED BY <1>7 DEF D

-----------------------------------------------------------------------------
\* A field of s lies from a to b.
At(s, a, b) ==
  /\ a <= b + 1
  /\ a = 1 \/ s[a - 1] = Delim
  /\ b = Len(s) \/ s[b + 1] = Delim
  /\ \A k \in a..b : s[k] # Delim

\* FieldsOf without pairs.
LEMMA FieldsAre ==
  ASSUME NEW s \in Seq(Chars), NEW x
  PROVE  x \in FieldsOf(s) <=> \E a \in 1..Len(s)+1, b \in 0..Len(s) :
                                  At(s, a, b) /\ x = SubSeq(s, a, b)
<1>1. ASSUME NEW a \in 1..Len(s)+1, NEW b \in 0..Len(s), At(s, a, b)
      PROVE SubSeq(s, a, b) \in FieldsOf(s)
  <2>1. <<a, b>> \in (1..Len(s)+1) \X (0..Len(s)) /\ <<a, b>>[1] = a /\ <<a, b>>[2] = b
    OBVIOUS
  <2> QED BY <1>1, <2>1, Zenon DEF At, FieldsOf
<1>2. ASSUME x \in FieldsOf(s)
      PROVE \E a \in 1..Len(s)+1, b \in 0..Len(s) : At(s, a, b) /\ x = SubSeq(s, a, b)
  <2>1. PICK p \in (1..Len(s)+1) \X (0..Len(s)) : At(s, p[1], p[2]) /\ x = SubSeq(s, p[1], p[2])
    BY <1>2, Zenon DEF At, FieldsOf
  <2>2. p[1] \in 1..Len(s)+1 /\ p[2] \in 0..Len(s)
    OBVIOUS
  <2> QED BY <2>1, <2>2
<1> QED BY <1>1, <1>2, Zenon

\* A part of the rest is a part of the whole, p further on.
LEMMA ShiftSub ==
  ASSUME NEW s \in Seq(Chars), NEW p \in 1..Len(s), NEW r, IsRest(r, s, p),
         NEW a \in 1..Len(r)+1, NEW b \in 0..Len(r)
  PROVE  SubSeq(r, a, b) = SubSeq(s, p + a, p + b)
<1>1. /\ Len(s) \in Nat /\ \A i \in 1..Len(s) : s[i] \in Chars
      /\ r \in Seq(Chars) /\ Len(r) = Len(s) - p /\ \A i \in 1..Len(r) : r[i] = s[p + i]
  BY LenProperties, ElementOfSeq DEF IsRest
<1>2. \A i \in 1..Len(r) : r[i] \in Chars
  BY <1>1
<1>3. /\ a \in Int /\ b \in Int /\ p + a \in Int /\ p + b \in Int
      /\ \A i \in a..b : r[i] \in Chars
      /\ \A i \in p+a..p+b : s[i] \in Chars
  BY <1>1, <1>2
<1>4. /\ SubSeq(r, a, b) \in Seq(Chars)
      /\ Len(SubSeq(r, a, b)) = IF a <= b THEN b - a + 1 ELSE 0
      /\ \A i \in 1..b - a + 1 : SubSeq(r, a, b)[i] = r[a + i - 1]
  BY <1>3, SubSeqProperties
<1>5. /\ SubSeq(s, p + a, p + b) \in Seq(Chars)
      /\ Len(SubSeq(s, p + a, p + b)) = IF p + a <= p + b THEN p + b - (p + a) + 1 ELSE 0
      /\ \A i \in 1..p + b - (p + a) + 1 : SubSeq(s, p + a, p + b)[i] = s[p + a + i - 1]
  BY <1>3, SubSeqProperties
<1> DEFINE x == SubSeq(r, a, b)
           y == SubSeq(s, p + a, p + b)
<1>6. x \in Seq(Chars) /\ y \in Seq(Chars) /\ Len(x) = Len(y)
  BY <1>1, <1>4, <1>5
<1>7. ASSUME NEW i \in 1..Len(x) PROVE x[i] = y[i]
  <2>1. i \in 1..b - a + 1 /\ i \in 1..p + b - (p + a) + 1
        /\ a + i - 1 \in 1..Len(r) /\ p + (a + i - 1) = p + a + i - 1
    BY <1>1, <1>3, <1>4
  <2> QED BY <1>1, <1>4, <1>5, <2>1
<1> HIDE DEF x, y
<1>8. x = y
  BY <1>6, <1>7, SeqEqual
<1> QED BY <1>8 DEF x, y

\* A flag without a delimiter is its only field.
LEMMA OneField ==
  ASSUME NEW s \in Seq(Chars), FindDelim(s) = 0
  PROVE  FieldsOf(s) = {s}
<1>1. Len(s) \in Nat /\ \A i \in 1..Len(s) : s[i] # Delim
  BY FindDelimIs, LenProperties
<1>2. SubSeq(s, 1, Len(s)) = s
  BY SubSeqFull
<1>3. At(s, 1, Len(s)) /\ 1 \in 1..Len(s)+1 /\ Len(s) \in 0..Len(s)
  BY <1>1 DEF At
<1>4. ASSUME NEW a \in 1..Len(s)+1, NEW b \in 0..Len(s), At(s, a, b) PROVE a = 1 /\ b = Len(s)
  BY <1>1, <1>4 DEF At
<1>5. ASSUME NEW x PROVE x \in FieldsOf(s) <=> x = s
  <2>1. x \in FieldsOf(s) <=> \E a \in 1..Len(s)+1, b \in 0..Len(s) :
                                  At(s, a, b) /\ x = SubSeq(s, a, b)
    BY FieldsAre
  <2> QED BY <1>2, <1>3, <1>4, <2>1
<1> QED BY <1>5, Zenon

\* Otherwise the first field ends at the first delimiter and the others are
\* those of the rest.
LEMMA FirstField ==
  ASSUME NEW s \in Seq(Chars), NEW p \in 1..Len(s), s[p] = Delim,
         \A j \in 1..p-1 : s[j] # Delim, NEW r, IsRest(r, s, p)
  PROVE  FieldsOf(s) = {SubSeq(s, 1, p - 1)} \cup FieldsOf(r)
<1>1. /\ Len(s) \in Nat /\ p \in Nat /\ 1 <= p /\ p <= Len(s) /\ s[p] = Delim
      /\ \A j \in 1..p-1 : s[j] # Delim
  BY LenProperties
<1>2. /\ r \in Seq(Chars) /\ Len(r) \in Nat /\ Len(r) = Len(s) - p
      /\ \A i \in 1..Len(r) : r[i] = s[p + i]
  BY DEF IsRest
<1>3. /\ Len(s) \in Nat /\ p \in Nat /\ 1 <= p /\ p <= Len(s)
      /\ Len(r) \in Nat /\ Len(r) = Len(s) - p
  BY <1>1, <1>2
<1>4. /\ At(s, 1, p - 1) /\ 1 \in 1..Len(s)+1 /\ p - 1 \in 0..Len(s)
  BY <1>1 DEF At
<1>5. ASSUME NEW a \in 1..Len(s)+1, NEW b \in 0..Len(s), At(s, a, b), a = 1 PROVE b = p - 1
  <2>1. b < p
    BY <1>1, <1>5 DEF At
  <2>2. s[b + 1] = Delim
    BY <1>1, <1>5, <2>1 DEF At
  <2> QED BY <1>1, <2>1, <2>2
<1>6. ASSUME NEW a \in 1..Len(s)+1, NEW b \in 0..Len(s), At(s, a, b), a # 1
      PROVE  /\ a - p \in 1..Len(r)+1 /\ b - p \in 0..Len(r) /\ At(r, a - p, b - p)
             /\ SubSeq(s, a, b) = SubSeq(r, a - p, b - p)
  <2>1. s[a - 1] = Delim /\ a - 1 \in 1..Len(s) /\ a - 1 >= p
    BY <1>1, <1>6 DEF At
  <2>2. a - p \in 1..Len(r)+1 /\ b - p \in 0..Len(r) /\ a - p <= b - p + 1
    BY <1>1, <1>2, <1>6, <2>1 DEF At
  <2>3. a - p = 1 \/ r[a - p - 1] = Delim
    <3>1. CASE a - p # 1
      <4>1. a - p - 1 \in 1..Len(r) /\ p + (a - p - 1) = a - 1
        BY <1>1, <1>2, <2>2, <3>1
      <4> QED BY <1>2, <2>1, <4>1
    <3> QED BY <3>1
  <2>4. b - p = Len(r) \/ r[b - p + 1] = Delim
    <3>1. CASE b - p # Len(r)
      <4>1. b - p + 1 \in 1..Len(r)
        BY <1>3, <2>2, <3>1
      <4>2. p + (b - p + 1) = b + 1
        BY <1>3
      <4>3. s[b + 1] = Delim
        BY <1>1, <1>2, <1>6, <3>1 DEF At
      <4> QED BY <1>2, <4>1, <4>2, <4>3
    <3> QED BY <3>1
  <2>5. ASSUME NEW k \in a-p..b-p PROVE r[k] # Delim
    <3>1. k \in 1..Len(r) /\ p + k \in a..b
      BY <1>1, <1>2, <2>2
    <3> QED BY <1>2, <1>6, <3>1 DEF At
  <2>6. At(r, a - p, b - p)
    BY <2>2, <2>3, <2>4, <2>5 DEF At
  <2>7. SubSeq(r, a - p, b - p) = SubSeq(s, p + (a - p), p + (b - p))
    BY <1>1, <2>2, ShiftSub
  <2>8. p + (a - p) = a /\ p + (b - p) = b
    BY <1>1
  <2> QED BY <2>2, <2>6, <2>7, <2>8
<1>7. ASSUME NEW a \in 1..Len(r)+1, NEW b \in 0..Len(r), At(r, a, b)
      PROVE  /\ p + a \in 1..Len(s)+1 /\ p + b \in 0..Len(s) /\ At(s, p + a, p + b)
             /\ SubSeq(r, a, b) = SubSeq(s, p + a, p + b)
  <2>1. p + a \in 1..Len(s)+1 /\ p + b \in 0..Len(s) /\ p + a <= p + b + 1
    BY <1>1, <1>2, <1>7 DEF At
  <2>2. s[p + a - 1] = Delim
    <3>1. CASE a = 1
      <4>1. p + a - 1 = p
        BY <1>1, <3>1
      <4> QED BY <1>1, <4>1
    <3>2. CASE a # 1
      <4>1. a - 1 \in 1..Len(r) /\ p + (a - 1) = p + a - 1
        BY <1>1, <1>2, <3>2
      <4> QED BY <1>2, <1>7, <3>2, <4>1 DEF At
    <3> QED BY <3>1, <3>2
  <2>3. p + b = Len(s) \/ s[p + b + 1] = Delim
    <3>1. CASE p + b # Len(s)
      <4>1. b + 1 \in 1..Len(r)
        BY <1>3, <3>1
      <4>2. p + (b + 1) = p + b + 1
        BY <1>3
      <4>3. r[b + 1] = Delim
        BY <1>1, <1>2, <1>7, <3>1 DEF At
      <4> QED BY <1>2, <4>1, <4>2, <4>3
    <3> QED BY <3>1
  <2>4. ASSUME NEW k \in p+a..p+b PROVE s[k] # Delim
    <3>1. k - p \in 1..Len(r) /\ k - p \in a..b /\ p + (k - p) = k
      BY <1>1, <1>2
    <3> QED BY <1>2, <1>7, <3>1 DEF At
  <2>5. At(s, p + a, p + b)
    BY <2>1, <2>2, <2>3, <2>4 DEF At
  <2> QED BY <1>1, <2>1, <2>5, ShiftSub
<1>8. ASSUME NEW x PROVE x \in FieldsOf(s) <=> x = SubSeq(s, 1, p - 1) \/ x \in FieldsOf(r)
  <2>1. x \in FieldsOf(s) <=> \E a \in 1..Len(s)+1, b \in 0..Len(s) :
                                  At(s, a, b) /\ x = SubSeq(s, a, b)
    BY FieldsAre
  <2>2. x \in FieldsOf(r) <=> \E a \in 1..Len(r)+1, b \in 0..Len(r) :
                                  At(r, a, b) /\ x = SubSeq(r, a, b)
    BY <1>2, FieldsAre
  <2>3. ASSUME x \in FieldsOf(s) PROVE x = SubSeq(s, 1, p - 1) \/ x \in FieldsOf(r)
    <3>1. PICK a \in 1..Len(s)+1, b \in 0..Len(s) : At(s, a, b) /\ x = SubSeq(s, a, b)
      BY <2>1, <2>3
    <3> QED BY <1>5, <1>6, <2>2, <3>1
  <2>4. ASSUME x = SubSeq(s, 1, p - 1) PROVE x \in FieldsOf(s)
    BY <1>4, <2>1, <2>4
  <2>5. ASSUME x \in FieldsOf(r) PROVE x \in FieldsOf(s)
    <3>1. PICK a \in 1..Len(r)+1, b \in 0..Len(r) : At(r, a, b) /\ x = SubSeq(r, a, b)
      BY <2>2, <2>5
    <3> QED BY <1>7, <2>1, <3>1
  <2> QED BY <2>3, <2>4, <2>5
<1> QED BY <1>8, Zenon

-----------------------------------------------------------------------------
\* What Split promises of the fields fs that it finds in s.
Good(s, fs, k) ==
  /\ fs \in Seq(Seq(Chars))
  /\ Len(fs) <= Len(s) + 1
  /\ ToSet(fs) = IF k THEN FieldsOf(s) ELSE FieldsOf(s) \ {<<>>}
  /\ k => Len(fs) >= 1 /\ (Len(s) <= MaxFlag => Join[fs] = s)

\* t is x before fs.
IsCons(t, x, fs) ==
  /\ Len(t) \in Nat
  /\ Len(t) = Len(fs) + 1
  /\ t[1] = x
  /\ \A i \in 1..Len(fs) : t[i + 1] = fs[i]

\* The elements, head and tail of such a t.
LEMMA ConsIs ==
  ASSUME NEW S, NEW fs \in Seq(S), NEW x \in S, NEW t \in Seq(S), IsCons(t, x, fs)
  PROVE  /\ \A y : y \in ToSet(t) <=> y = x \/ y \in ToSet(fs)
         /\ Head(t) = x /\ Tail(t) = fs
<1>1. Len(fs) \in Nat
  BY LenProperties
<1>2. Len(t) \in Nat /\ Len(t) = Len(fs) + 1
  BY DEF IsCons
<1>3. t[1] = x /\ \A i \in 1..Len(fs) : t[i + 1] = fs[i]
  BY DEF IsCons
<1>4. DOMAIN t = 1..Len(t) /\ DOMAIN fs = 1..Len(fs)
  BY <1>1, LenProperties
<1>5. \A y : y \in ToSet(t) <=> y = x \/ y \in ToSet(fs)
  <2>1. ASSUME NEW y \in ToSet(t) PROVE y \in {x} \cup ToSet(fs)
    <3>1. PICK i \in 1..Len(t) : y = t[i]
      BY <1>4 DEF ToSet
    <3>2. CASE i = 1
      BY <1>3, <3>1, <3>2
    <3>3. CASE i # 1
      <4>1. i - 1 \in 1..Len(fs) /\ (i - 1) + 1 = i
        BY <1>1, <1>2, <3>3
      <4>2. y = fs[i - 1]
        BY <1>3, <3>1, <4>1
      <4> QED BY <1>4, <4>1, <4>2 DEF ToSet
    <3> QED BY <3>2, <3>3
  <2>2. x \in ToSet(t)
    BY <1>1, <1>2, <1>3, <1>4 DEF ToSet
  <2>3. ASSUME NEW y \in ToSet(fs) PROVE y \in ToSet(t)
    <3>1. PICK i \in 1..Len(fs) : y = fs[i]
      BY <1>4 DEF ToSet
    <3>2. i + 1 \in 1..Len(t) /\ t[i + 1] = y
      BY <1>1, <1>2, <1>3, <3>1
    <3> QED BY <1>4, <3>2 DEF ToSet
  <2> QED BY <2>1, <2>2, <2>3
<1>6. Head(t) = x
  BY <1>1, <1>2, <1>3
<1>7. Tail(t) = fs
  <2>1. t # <<>>
    BY <1>1, <1>2
  <2>2. /\ Tail(t) \in Seq(S) /\ Len(Tail(t)) = Len(t) - 1
        /\ \A i \in 1..Len(Tail(t)) : Tail(t)[i] = t[i + 1]
    BY <1>1, <1>2, <2>1, HeadTailProperties
  <2>3. Len(Tail(t)) = Len(fs)
    BY <1>1, <1>2, <2>2
  <2>4. \A i \in 1..Len(fs) : Tail(t)[i] = fs[i]
    BY <1>3, <2>2, <2>3
  <2> QED BY <2>2, <2>3, <2>4, SeqEqual
<1> QED BY <1>1, <1>2, <1>5, <1>6, <1>7

\* The empty flag has one field, which is empty.
LEMMA Empty ==
  /\ <<>> \in Seq(Chars) /\ Len(<<>>) = 0
  /\ FieldsOf(<<>>) = {<<>>}
<1>1. <<>> \in Seq(Chars) /\ Len(<<>>) = 0
  BY EmptySeq
<1>2. PICK e : e = <<>>
  OBVIOUS
<1>3. e \in Seq(Chars) /\ Len(e) = 0
  BY <1>1, <1>2
<1>4. FindDelim(e) = 0
  <2>1. FindDelim(e) \in 0..Len(e)
    BY <1>3, FindDelimIs
  <2> QED BY <1>3, <2>1
<1>5. FieldsOf(e) = {e}
  BY <1>3, <1>4, OneField
<1> QED BY <1>1, <1>2, <1>5, Zenon

\* One field is joined to itself.
LEMMA JoinOne ==
  ASSUME NEW t \in Seq(Seq(Chars)), Len(t) = 1
  PROVE  Join[t] = t[1]
<1>1. t \in UpTo(MaxFlag + 1)
  <2>1. 1 <= MaxFlag + 1
    BY RouteAssumption
  <2> QED BY <2>1, Zenon DEF UpTo
<1>2. Join[t] = JoinStep(Join, t)
  BY <1>1, JoinUnfolds
<1>3. Len(t) < 2 /\ Head(t) = t[1]
  OBVIOUS
<1>4. JoinStep(Join, t) = Head(t)
  BY <1>3, Zenon DEF JoinStep
<1> QED BY <1>2, <1>3, <1>4, Zenon

\* The step of Split: one field before the good ones of the rest.
LEMMA GoodStep ==
  ASSUME NEW s \in Seq(Chars), NEW p \in 1..Len(s), s[p] = Delim, NEW r, IsRest(r, s, p),
         NEW h \in Seq(Chars), Len(h) = p - 1, \A i \in 1..p-1 : h[i] = s[i],
         FieldsOf(s) = {h} \cup FieldsOf(r),
         NEW k \in BOOLEAN, NEW fs, Good(r, fs, k)
  PROVE  Good(s, (IF p # 1 \/ k THEN <<h>> ELSE <<>>) \o fs, k)
<1>1. /\ Len(s) \in Nat /\ p \in Nat /\ 1 <= p /\ p <= Len(s)
      /\ Len(r) \in Nat /\ Len(r) = Len(s) - p /\ r \in Seq(Chars)
  BY LenProperties DEF IsRest
<1>2. h \in Seq(Chars) /\ Len(h) = p - 1 /\ \A i \in 1..p-1 : h[i] = s[i]
  OBVIOUS
<1>3. h = <<>> <=> p = 1
  BY <1>1, <1>2, EmptySeq
<1>4. FieldsOf(s) = {h} \cup FieldsOf(r)
  OBVIOUS
<1>5. fs \in Seq(Seq(Chars)) /\ Len(fs) \in Nat /\ Len(fs) <= Len(r) + 1
  BY LenProperties DEF Good
<1>6. PICK t : t = <<h>> \o fs
  OBVIOUS
<1>7. /\ t \in Seq(Seq(Chars)) /\ Len(t) = Len(fs) + 1
      /\ ToSet(t) = {h} \cup ToSet(fs) /\ Head(t) = h /\ Tail(t) = fs
  <2>1. t \in Seq(Seq(Chars)) /\ Len(t) = Len(fs) + 1 /\ t[1] = h
    BY <1>2, <1>5, <1>6
  <2>2. ASSUME NEW i \in 1..Len(fs) PROVE t[i + 1] = fs[i]
    BY <1>2, <1>5, <1>6
  <2>3. IsCons(t, h, fs)
    BY <1>5, <2>1, <2>2 DEF IsCons
  <2>4. \A y : y \in ToSet(t) <=> y = h \/ y \in ToSet(fs)
    BY <1>2, <1>5, <2>1, <2>3, ConsIs
  <2>5. Head(t) = h
    BY <1>2, <1>5, <2>1, <2>3, ConsIs
  <2>6. Tail(t) = fs
    BY <1>2, <1>5, <2>1, <2>3, ConsIs
  <2> QED BY <2>1, <2>4, <2>5, <2>6
<1>8. CASE k
  <2>1. ToSet(t) = FieldsOf(s)
    BY <1>4, <1>7, <1>8 DEF Good
  <2>2. Len(t) <= Len(s) + 1 /\ Len(t) >= 1
    BY <1>1, <1>5, <1>7
  <2>3. ASSUME Len(s) <= MaxFlag PROVE Join[t] = s
    <3>1. Join[fs] = r /\ Len(fs) >= 1
      BY <1>1, <1>8, <2>3, RouteAssumption DEF Good
    <3>2. t \in UpTo(MaxFlag + 1)
      BY <1>1, <1>7, <2>2, <2>3, RouteAssumption DEF UpTo
    <3>3. Join[t] = JoinStep(Join, t)
      BY <3>2, JoinUnfolds
    <3>4. Join[t] = h \o <<Delim>> \o r
      <4>1. ~ (Len(t) < 2)
        BY <1>5, <1>7, <3>1
      <4>2. JoinStep(Join, t) = Head(t) \o <<Delim>> \o Join[Tail(t)]
        BY <4>1, Zenon DEF JoinStep
      <4> QED BY <1>7, <3>1, <3>3, <4>2, Zenon
    <3> DEFINE u == h \o <<Delim>>
               v == u \o r
    <3>5. <<Delim>> \in Seq(Chars) /\ Len(<<Delim>>) = 1 /\ <<Delim>>[1] = Delim
      BY RouteAssumption
    <3>6. /\ u \in Seq(Chars) /\ Len(u) = p
          /\ \A i \in 1..p : u[i] = IF i <= p - 1 THEN h[i] ELSE <<Delim>>[i - (p - 1)]
      BY <1>1, <1>2, <3>5, ConcatProperties
    <3>7. ASSUME NEW i \in 1..p PROVE u[i] = s[i]
      <4>1. CASE i = p
        BY <1>1, <3>5, <3>6, <4>1
      <4>2. CASE i # p
        BY <1>1, <1>2, <3>6, <4>2
      <4> QED BY <4>1, <4>2
    <3> HIDE DEF u
    <3>8. /\ v \in Seq(Chars) /\ Len(v) = Len(s)
          /\ \A i \in 1..Len(s) : v[i] = IF i <= p THEN u[i] ELSE r[i - p]
      <4>1. /\ v \in Seq(Chars) /\ Len(v) = Len(u) + Len(r)
            /\ \A i \in 1..Len(u) + Len(r) : v[i] = IF i <= Len(u) THEN u[i] ELSE r[i - Len(u)]
        BY <1>1, <3>6, ConcatProperties
      <4>2. Len(u) + Len(r) = Len(s) /\ Len(u) = p
        BY <1>1, <3>6
      <4> HIDE DEF v
      <4> QED BY <4>1, <4>2
    <3>9. ASSUME NEW i \in 1..Len(s) PROVE v[i] = s[i]
      <4>1. CASE i <= p
        BY <1>1, <3>7, <3>8, <4>1
      <4>2. CASE ~ (i <= p)
        <5>1. i - p \in 1..Len(r) /\ p + (i - p) = i
          BY <1>1, <4>2
        <5> QED BY <3>8, <4>2, <5>1 DEF IsRest
      <4> QED BY <4>1, <4>2
    <3>10. Join[t] = v
      BY <3>4 DEF u
    <3> HIDE DEF v
    <3>11. v = s
      BY <3>8, <3>9, SeqEqual
    <3> QED BY <3>10, <3>11
  <2>4. Good(s, t, k)
    BY <1>7, <1>8, <2>1, <2>2, <2>3 DEF Good
  <2> QED BY <1>6, <1>8, <2>4, Zenon
<1>9. CASE ~k /\ p # 1
  <2>1. ToSet(t) = FieldsOf(s) \ {<<>>}
    BY <1>3, <1>4, <1>7, <1>9 DEF Good
  <2>2. Len(t) <= Len(s) + 1
    BY <1>1, <1>5, <1>7, <1>9
  <2>3. Good(s, t, k)
    BY <1>7, <1>9, <2>1, <2>2 DEF Good
  <2> QED BY <1>6, <1>9, <2>3, Zenon
<1>10. CASE ~k /\ p = 1
  <2>1. ToSet(fs) = FieldsOf(s) \ {<<>>}
    BY <1>3, <1>4, <1>10 DEF Good
  <2>2. Good(s, fs, k)
    BY <1>1, <1>5, <1>10, <2>1 DEF Good
  <2>3. <<>> \o fs = fs
    BY <1>5, ConcatEmptySeq
  <2> QED BY <1>10, <2>2, <2>3, Zenon
<1> QED BY <1>8, <1>9, <1>10

\* The loop ends with one field, the whole of what is left.
LEMMA GoodOne ==
  ASSUME NEW s \in Seq(Chars), FieldsOf(s) = {s}, NEW k \in BOOLEAN, k \/ s # <<>>
  PROVE  Good(s, <<s>>, k)
<1>1. PICK t : t = <<s>>
  OBVIOUS
<1>2. t \in Seq(Seq(Chars)) /\ Len(t) = 1 /\ t[1] = s /\ DOMAIN t = 1..1 /\ Len(s) \in Nat
  BY <1>1, LenProperties
<1>3. ToSet(t) = {s}
  BY <1>2 DEF ToSet
<1>4. Join[t] = s
  BY <1>2, JoinOne
<1>5. Good(s, t, k)
  BY <1>2, <1>3, <1>4 DEF Good
<1> QED BY <1>1, <1>5, Zenon

\* A turn of the loop finds the fields of c if it is right about shorter ones.
LEMMA StepGood ==
  ASSUME NEW c \in Seq(Chars), c # <<>>, NEW k \in BOOLEAN, NEW f,
         \A r \in Seq(Chars) : r # <<>> /\ Len(r) < Len(c) => Good(r, f[r], k)
  PROVE  Good(c, Step(f, c, k), k)
<1>1. CASE FindDelim(c) = 0
  <2>1. Step(f, c, k) = <<c>>
    BY <1>1 DEF Step
  <2>2. Good(c, <<c>>, k)
    BY <1>1, OneField, GoodOne
  <2> QED BY <2>1, <2>2, Zenon
<1>2. CASE FindDelim(c) # 0
  <2>1. PICK p : p = FindDelim(c)
    OBVIOUS
  <2>2. /\ p \in 1..Len(c) /\ Len(c) \in Nat /\ c[p] = Delim
        /\ \A j \in 1..p-1 : c[j] # Delim
    BY <1>2, <2>1, FindDelimIs, LenProperties
  <2>3. PICK r : r = SubSeq(c, p + 1, Len(c))
    OBVIOUS
  <2>4. PICK h : h = SubSeq(c, 1, p - 1)
    OBVIOUS
  <2>5. IsRest(r, c, p)
    BY <2>2, <2>3, RestIs
  <2>6. h \in Seq(Chars) /\ Len(h) = p - 1 /\ \A i \in 1..p-1 : h[i] = c[i]
    BY <2>2, <2>4, RestIs
  <2>7. FieldsOf(c) = {h} \cup FieldsOf(r)
    BY <2>2, <2>4, <2>5, FirstField
  <2> DEFINE field == IF p # 1 \/ k THEN <<h>> ELSE <<>>
             others == IF r = <<>> THEN IF k THEN <<(<<>>)>> ELSE <<>> ELSE f[r]
  <2>8. Step(f, c, k) = field \o others
    BY <1>2, <2>1, <2>3, <2>4, Zenon DEF Step
  <2>9. Good(r, others, k)
    <3>1. CASE r = <<>> /\ k
      BY <3>1, Empty, GoodOne, Zenon
    <3>2. CASE r = <<>> /\ ~k
      BY <3>2, Empty, EmptySeq DEF Good, ToSet
    <3>3. CASE r # <<>>
      BY <2>2, <2>5, <3>3 DEF IsRest
    <3> QED BY <3>1, <3>2, <3>3
  <2>10. PICK fs : fs = others
    OBVIOUS
  <2>11. Good(c, (IF p # 1 \/ k THEN <<h>> ELSE <<>>) \o fs, k)
    <3> HIDE DEF field, others
    <3>1. Good(r, fs, k)
      BY <2>9, <2>10
    <3> QED BY <2>2, <2>5, <2>6, <2>7, <3>1, GoodStep
  <2> QED BY <2>8, <2>10, <2>11, Zenon
<1> QED BY <1>1, <1>2

\* By induction on the length, Split is right about every flag.
LEMMA SplitGood ==
  ASSUME NEW s \in Seq(Chars), s # <<>>, NEW k \in BOOLEAN
  PROVE  Good(s, Split(s, k), k)
<1>1. PICK f : /\ Split(s, k) = f[s]
               /\ \A c \in Seq(Chars) : Len(c) <= Len(s) => f[c] = Step(f, c, k)
  BY SplitUnfolds
<1> DEFINE T == {n \in Nat : \A c \in Seq(Chars) :
                                c # <<>> /\ Len(c) = n /\ n <= Len(s) => Good(c, f[c], k)}
<1>2. ASSUME NEW n \in Nat, \A m \in Nat : m < n => m \in T PROVE n \in T
  <2>1. SUFFICES ASSUME NEW c \in Seq(Chars), c # <<>>, Len(c) = n, n <= Len(s)
                 PROVE  Good(c, f[c], k)
    OBVIOUS
  <2>2. ASSUME NEW r \in Seq(Chars), r # <<>>, Len(r) < Len(c) PROVE Good(r, f[r], k)
    <3>1. Len(r) \in Nat /\ Len(r) < n /\ Len(r) <= Len(s) /\ Len(s) \in Nat
      BY <2>1, <2>2, LenProperties
    <3>2. Len(r) \in T
      BY <1>2, <3>1
    <3> QED BY <2>2, <3>1, <3>2
  <2>3. Good(c, Step(f, c, k), k)
    BY <2>1, <2>2, StepGood
  <2>4. f[c] = Step(f, c, k)
    BY <1>1, <2>1
  <2> QED BY <2>3, <2>4
<1>3. Nat \subseteq T
  <2> HIDE DEF T
  <2> QED BY <1>2, InductionOnSet
<1>4. Len(s) \in T /\ Len(s) <= Len(s)
  BY <1>3, LenProperties
<1> QED BY <1>1, <1>4

\* Every field of a flag fits into it.
LEMMA FieldsFit ==
  ASSUME NEW s \in SeqOf(Chars, MaxFlag)
  PROVE  FieldsOf(s) \subseteq SeqOf(Chars, MaxFlag)
<1>1. /\ s \in Seq(Chars) /\ Len(s) <= MaxFlag /\ Len(s) \in Nat /\ MaxFlag \in Nat
      /\ \A i \in 1..Len(s) : s[i] \in Chars
  BY RouteAssumption, SeqOfIs, LenProperties, ElementOfSeq
<1>2. ASSUME NEW a \in 1..Len(s)+1, NEW b \in 0..Len(s)
      PROVE  SubSeq(s, a, b) \in SeqOf(Chars, MaxFlag)
  <2>1. a \in Int /\ b \in Int /\ \A i \in a..b : s[i] \in Chars
    BY <1>1
  <2>2. SubSeq(s, a, b) \in Seq(Chars) /\ Len(SubSeq(s, a, b)) = IF a <= b THEN b - a + 1 ELSE 0
    BY <2>1, SubSeqProperties
  <2>3. Len(SubSeq(s, a, b)) <= MaxFlag
    BY <1>1, <2>2
  <2> QED BY <1>1, <2>2, <2>3, SeqOfIs
<1>3. ASSUME NEW x \in FieldsOf(s) PROVE x \in SeqOf(Chars, MaxFlag)
  <2>1. PICK a \in 1..Len(s)+1, b \in 0..Len(s) : At(s, a, b) /\ x = SubSeq(s, a, b)
    BY <1>1, FieldsAre
  <2> QED BY <1>2, <2>1
<1> QED BY <1>3

\* What Split finds in a flag.
LEMMA SplitFinds ==
  ASSUME NEW s \in SeqOf(Chars, MaxFlag)
  PROVE  /\ ToSet(Split(s, FALSE)) = FieldsOf(s) \ {<<>>}
         /\ s # <<>> => ToSet(Split(s, TRUE)) = FieldsOf(s) /\ Join[Split(s, TRUE)] = s
<1>1. s \in Seq(Chars) /\ Len(s) <= MaxFlag
  BY RouteAssumption, SeqOfIs
<1>2. CASE s = <<>>
  <2>1. Split(s, FALSE) = <<>>
    BY <1>2, Zenon DEF Split
  <2>2. ToSet(<<>>) = {}
    BY DEF ToSet
  <2> QED BY <1>2, <2>1, <2>2, Empty, Zenon
<1>3. CASE s # <<>>
  <2>1. Good(s, Split(s, FALSE), FALSE) /\ Good(s, Split(s, TRUE), TRUE)
    BY <1>1, <1>3, SplitGood
  <2> QED BY <1>1, <1>3, <2>1, Zenon DEF Good
<1> QED BY <1>2, <1>3

-----------------------------------------------------------------------------
\* Only the nameless server has users; those it has and those a heartbeat is
\* about to give it are routed to it.  A heartbeat whose users were not routed
\* has ended the process before it could.
Routed ==
  /\ DOMAIN users = servers
  /\ \A s \in servers : users[s] \subseteq Uids
  /\ routes \in [Uids -> servers \cup {Nowhere}]
  /\ place \in [Beats -> {"none", "users", "done"}]
  /\ uids \in [Beats -> SUBSET Uids]
  /\ \A s \in servers : \A u \in users[s] : s = Nameless /\ routes[u] = Nameless
  /\ up => \A b \in Beats : place[b] = "users" =>
             Nameless \in servers /\ \A u \in uids[b] : routes[u] = Nameless

LEMMA RoutedInit == Init => Routed
BY DEF Init, Routed

LEMMA RoutedNext == Routed /\ [Next]_vars => Routed'
<1> SUFFICES ASSUME Routed, [Next]_vars PROVE Routed'
  OBVIOUS
<1>1. ASSUME NEW u \in Uids, Dispatch(u) PROVE Routed'
  BY <1>1 DEF Dispatch, Routed
<1>2. ASSUME NEW b \in Beats, NEW us \in SUBSET Uids, BeatKnown(b, us) PROVE Routed'
  <2>1. /\ uids' \in [Beats -> SUBSET Uids] /\ place' \in [Beats -> {"none", "users", "done"}]
        /\ uids'[b] = us /\ \A c \in Beats : c # b => uids'[c] = uids[c] /\ place'[c] = place[c]
        /\ UNCHANGED <<up, servers, users>> /\ Nameless \in servers
    BY <1>2 DEF BeatKnown, Routed
  <2>2. /\ routes' \in [Uids -> servers \cup {Nowhere}]
        /\ \A u \in Uids : routes'[u] = IF u \in us THEN Nameless ELSE routes[u]
    BY <1>2, <2>1 DEF BeatKnown, Routed
  <2> QED
    BY <1>2, <2>1, <2>2 DEF BeatKnown, Routed
<1>3. ASSUME NEW b \in Beats, NEW us \in SUBSET Uids, BeatNew(b, us) PROVE Routed'
  <2>1. /\ servers' = servers \cup {Nameless} /\ Nameless \notin servers
        /\ DOMAIN users' = servers' /\ users'[Nameless] = {}
        /\ \A s \in servers : users'[s] = users[s]
        /\ UNCHANGED routes
    BY <1>3 DEF BeatNew
  <2>2. /\ uids' \in [Beats -> SUBSET Uids] /\ place' \in [Beats -> {"none", "users", "done"}]
        /\ uids'[b] = us /\ \A c \in Beats : c # b => uids'[c] = uids[c] /\ place'[c] = place[c]
        /\ up /\ (up' <=> us = {})
    BY <1>3 DEF BeatNew, Routed
  <2> QED
    BY <2>1, <2>2 DEF Routed
<1>4. ASSUME NEW b \in Beats, BeatUsers(b) PROVE Routed'
  <2>1. /\ Nameless \in servers /\ uids[b] \subseteq Uids /\ \A u \in uids[b] : routes[u] = Nameless
        /\ up /\ place[b] = "users"
    BY <1>4 DEF BeatUsers, Routed
  <2>2. /\ DOMAIN users' = servers /\ users'[Nameless] = uids[b]
        /\ \A s \in servers : s # Nameless => users'[s] = users[s]
    BY <1>4, <2>1 DEF BeatUsers, Routed
  <2> QED
    BY <1>4, <2>1, <2>2 DEF BeatUsers, Routed
<1>5. CASE UNCHANGED vars
  BY <1>5 DEF vars, Routed
<1> QED
  BY <1>1, <1>2, <1>3, <1>4, <1>5 DEF Next

\* Whoever is listed at a server is routed to it, in whatever order two
\* heartbeats take the two locks.
THEOREM ListedIsRoutedCorrect == Spec => []ListedIsRouted
<1>1. Routed => ListedIsRouted
  BY RouteAssumption DEF Routed, ListedIsRouted, GetMsgServer, Nameless
<1> QED
  BY <1>1, RoutedInit, RoutedNext, PTL DEF Spec

LEMMA TypeInit == Init => TypeOK
<1> SUFFICES ASSUME Init PROVE TypeOK
  OBVIOUS
<1>1. flag \in SeqOf(Chars, MaxFlag) /\ servers = ToSet(Split(flag, FALSE))
  BY DEF Init
<1>2. servers \subseteq SeqOf(Chars, MaxFlag)
  BY <1>1, SplitFinds, FieldsFit
<1>3. up \in BOOLEAN
  BY Zenon DEF Init
<1> QED BY <1>1, <1>2, <1>3 DEF Init, TypeOK

LEMMA TypeNext == TypeOK /\ Routed /\ [Next]_vars => TypeOK'
<1> SUFFICES ASSUME TypeOK, Routed, [Next]_vars PROVE TypeOK'
  OBVIOUS
<1> USE DEF TypeOK
<1>1. ASSUME NEW u \in Uids, Dispatch(u) PROVE TypeOK'
  BY <1>1 DEF Dispatch
<1>2. ASSUME NEW b \in Beats, NEW us \in SUBSET Uids, BeatKnown(b, us) PROVE TypeOK'
  BY <1>2 DEF BeatKnown
<1>3. ASSUME NEW b \in Beats, NEW us \in SUBSET Uids, BeatNew(b, us) PROVE TypeOK'
  <2>1. Nameless \in SeqOf(Chars, MaxFlag)
    <3>1. Nameless \in Seq(Chars) /\ Len(Nameless) = 0
      BY EmptySeq DEF Nameless
    <3>2. MaxFlag \in Nat /\ Len(Nameless) <= MaxFlag
      BY <3>1, RouteAssumption
    <3> QED BY <3>1, <3>2, SeqOfIs
  <2>2. servers' = servers \cup {Nameless} /\ servers' \subseteq SeqOf(Chars, MaxFlag)
    BY <1>3, <2>1 DEF BeatNew
  <2>3. users' \in [servers' -> SUBSET Uids]
    BY <1>3, <2>2 DEF BeatNew
  <2>4. up' \in BOOLEAN
    BY <1>3, Zenon DEF BeatNew
  <2>5. /\ routes' \in [Uids -> servers' \cup {Nowhere}]
        /\ location' \in [Uids -> servers' \cup {Nowhere}]
    BY <1>3, <2>2 DEF BeatNew
  <2>6. uids' \in [Beats -> SUBSET Uids] /\ place' \in [Beats -> {"none", "users", "done"}]
        /\ flag' = flag
    BY <1>3 DEF BeatNew
  <2> QED BY <2>2, <2>3, <2>4, <2>5, <2>6
<1>4. ASSUME NEW b \in Beats, BeatUsers(b) PROVE TypeOK'
  <2>1. Nameless \in servers /\ uids[b] \subseteq Uids
    BY <1>4 DEF BeatUsers, Routed
  <2> QED BY <1>4, <2>1 DEF BeatUsers
<1>5. CASE UNCHANGED vars
  BY <1>5 DEF vars
<1> QED BY <1>1, <1>2, <1>3, <1>4, <1>5 DEF Next

\* Every server is nameless or a field that fits into the flag, and users are
\* routed and sent only to servers of the table.
THEOREM TypeCorrect == Spec => []TypeOK
BY TypeInit, TypeNext, RoutedInit, RoutedNext, PTL DEF Spec

\* Split finds the fields of every flag, of any length and wherever its
\* delimiters stand.
THEOREM SplitRightCorrect == Spec => []SplitRight
<1>1. TypeOK => SplitRight
  BY SplitFinds DEF TypeOK, SplitRight
<1> QED BY <1>1, TypeCorrect, PTL
=============================================================================
