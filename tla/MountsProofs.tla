----------------------------- MODULE MountsProofs -----------------------------
(***************************************************************************)
(* What explain tells, what can be written and when ssh is set up, for all *)
(* guest paths, all mounts in vibebox.toml and any number of them.         *)
(***************************************************************************)
EXTENDS Mounts, SequenceTheorems, WellFoundedInduction, TLAPS

RawSpec == [host : Host, guest : Path, mode : {"ro", "rw"}]
Shared  == [host : Host \cup {"mise", ".vibebox"}, guest : Path, mode : {"ro", "rw"}]

-----------------------------------------------------------------------------
(***************************************************************************)
(* Numbers and paths.                                                      *)
(***************************************************************************)
\* A set of numbers that is bounded and not empty has its maximum.
LEMMA MaxOfNumbers ==
  ASSUME NEW n \in Nat, NEW T \in SUBSET (1 .. n), T # {}
  PROVE  Max(T) \in T /\ \A y \in T : Max(T) >= y
<1> DEFINE D == {n - y : y \in T}
           R == OpToRel(<, Nat)
<1>1. \A x, y \in Nat : <<x, y>> \in R <=> x < y
  BY DEF OpToRel
<1>2. IsWellFoundedOn(R, Nat)
  BY NatLessThanWellFounded
<1> HIDE DEF R
<1>3. D \in SUBSET Nat /\ D # {}
  <2>1. \A y \in T : n - y \in Nat
    OBVIOUS
  <2> QED
    BY <2>1
<1>4. PICK d \in D : \A e \in D : ~ (<<e, d>> \in R)
  <2> HIDE DEF D
  <2> QED
    BY <1>2, <1>3, WFMin
<1>5. PICK x \in T : d = n - x
  BY <1>4
<1>6. ASSUME NEW y \in T PROVE x >= y
  <2>1. n - y \in D /\ n - y \in Nat /\ d \in Nat /\ x \in 1 .. n /\ y \in 1 .. n
    BY <1>3, <1>4
  <2>2. ~ (n - y < d)
    BY <1>1, <1>4, <2>1
  <2> QED
    BY <1>5, <2>1, <2>2
<1> QED
  BY <1>6 DEF Max

\* The prefixes of a sequence, element by element.
LEMMA PrefixOf ==
  ASSUME NEW S, NEW s \in Seq(S), NEW t \in Seq(S)
  PROVE  IsPrefix(s, t) <=> Len(s) <= Len(t) /\ \A i \in 1 .. Len(s) : s[i] = t[i]
<1>1. Len(s) \in Nat /\ Len(t) \in Nat
  BY LenProperties
<1>2. SubSeq(s, 1, Len(s)) = s
  BY SubSeqFull
<1>3. CASE Len(s) <= Len(t)
  <2> DEFINE u == SubSeq(t, 1, Len(s))
  <2>1. \A i \in 1 .. Len(s) : t[i] \in S
    BY <1>1, <1>3, ElementOfSeq
  <2>2. /\ u \in Seq(S) /\ Len(u) = Len(s)
        /\ \A i \in 1 .. Len(s) : u[i] = t[i]
    <3>1. /\ SubSeq(t, 1, Len(s)) \in Seq(S)
          /\ Len(SubSeq(t, 1, Len(s))) = IF 1 <= Len(s) THEN Len(s) - 1 + 1 ELSE 0
          /\ \A i \in 1 .. Len(s) - 1 + 1 : SubSeq(t, 1, Len(s))[i] = t[1 + i - 1]
      BY <1>1, <2>1, SubSeqProperties
    <3> QED
      BY <1>1, <3>1
  <2> HIDE DEF u
  <2>3. u = s <=> \A i \in 1 .. Len(s) : s[i] = t[i]
    BY <2>2, SeqEqual
  <2> QED
    BY <1>2, <1>3, <2>3 DEF IsPrefix, u
<1>4. CASE ~ (Len(s) <= Len(t))
  BY <1>4 DEF IsPrefix
<1> QED
  BY <1>3, <1>4

LEMMA PrefixReflexive == ASSUME NEW S, NEW s \in Seq(S) PROVE IsPrefix(s, s)
<1>1. Len(s) \in Nat
  BY LenProperties
<1> QED
  BY <1>1, PrefixOf

LEMMA PrefixTransitive ==
  ASSUME NEW S, NEW s \in Seq(S), NEW t \in Seq(S), NEW u \in Seq(S),
         IsPrefix(s, t), IsPrefix(t, u)
  PROVE  IsPrefix(s, u)
<1>1. Len(s) \in Nat /\ Len(t) \in Nat /\ Len(u) \in Nat
  BY LenProperties
<1>2. Len(s) <= Len(t) /\ \A i \in 1 .. Len(s) : s[i] = t[i]
  BY PrefixOf
<1>3. Len(t) <= Len(u) /\ \A i \in 1 .. Len(t) : t[i] = u[i]
  BY PrefixOf
<1>4. Len(s) <= Len(u) /\ \A i \in 1 .. Len(s) : s[i] = u[i]
  BY <1>1, <1>2, <1>3
<1> QED
  BY <1>4, PrefixOf

\* A path that differs in one place from another is not above it.
LEMMA Apart ==
  ASSUME NEW S, NEW s \in Seq(S), NEW t \in Seq(S), NEW i \in 1 .. Len(s), s[i] # t[i]
  PROVE  ~ IsPrefix(s, t)
BY PrefixOf

\* What is put below a directory, and taken away again.
LEMMA PutBelow ==
  ASSUME NEW d \in Path, NEW t \in Seq(Word)
  PROVE  LET p == d \o t
         IN  /\ p \in Path /\ Len(p) = Len(d) + Len(t) /\ IsPrefix(d, p)
             /\ \A i \in 1 .. Len(d) : p[i] = d[i]
             /\ \A i \in 1 .. Len(t) : p[Len(d) + i] = t[i]
             /\ Head(p) = Head(d)
             /\ SubSeq(p, Len(d) + 1, Len(p)) = t
<1> DEFINE p == d \o t
<1>1. d \in Seq(Word) /\ Len(d) \in Nat \ {0} /\ Len(t) \in Nat
  BY LenProperties, EmptySeq DEF Path
<1>2. /\ p \in Seq(Word) /\ Len(p) = Len(d) + Len(t)
      /\ \A i \in 1 .. Len(d) + Len(t) : p[i] = IF i <= Len(d) THEN d[i] ELSE t[i - Len(d)]
  BY <1>1, ConcatProperties
<1> HIDE DEF p
<1>3. \A i \in 1 .. Len(d) : p[i] = d[i]
  BY <1>1, <1>2
<1>4. ASSUME NEW i \in 1 .. Len(t) PROVE p[Len(d) + i] = t[i]
  <2>1. /\ Len(d) + i \in 1 .. Len(d) + Len(t) /\ ~ (Len(d) + i <= Len(d))
        /\ (Len(d) + i) - Len(d) = i
    BY <1>1
  <2> QED
    BY <1>2, <2>1
<1>5. IsPrefix(d, p)
  BY <1>1, <1>2, <1>3, PrefixOf
<1>6. p # <<>> /\ p[1] = d[1]
  BY <1>1, <1>2, <1>3, EmptySeq
<1>7. Head(p) = Head(d)
  BY <1>1, <1>2, <1>6, HeadTailProperties, EmptySeq
<1> DEFINE u == SubSeq(p, Len(d) + 1, Len(p))
<1>8. u = t
  <2>1. /\ u \in Seq(Word) /\ Len(u) = Len(t)
        /\ \A i \in 1 .. Len(t) : u[i] = p[Len(d) + i]
    <3>1. \A i \in Len(d) + 1 .. Len(p) : p[i] \in Word
      <4>1. \A i \in Len(d) + 1 .. Len(p) : i \in 1 .. Len(p)
        BY <1>1, <1>2
      <4> QED
        BY <1>2, <4>1, ElementOfSeq
    <3>2. /\ SubSeq(p, Len(d) + 1, Len(p)) \in Seq(Word)
          /\ Len(SubSeq(p, Len(d) + 1, Len(p))) =
               IF Len(d) + 1 <= Len(p) THEN Len(p) - (Len(d) + 1) + 1 ELSE 0
          /\ \A i \in 1 .. Len(p) - (Len(d) + 1) + 1 :
               SubSeq(p, Len(d) + 1, Len(p))[i] = p[(Len(d) + 1) + i - 1]
      BY <1>1, <1>2, <3>1, SubSeqProperties
    <3>3. Len(p) - (Len(d) + 1) + 1 = Len(t)
      BY <1>1, <1>2
    <3>4. \A i \in 1 .. Len(t) : (Len(d) + 1) + i - 1 = Len(d) + i
      BY <1>1
    <3> QED
      BY <1>1, <1>2, <3>2, <3>3, <3>4
  <2> HIDE DEF u
  <2> QED
    BY <1>4, <2>1, SeqEqual
<1> QED
  BY <1>1, <1>2, <1>3, <1>4, <1>5, <1>6, <1>7, <1>8 DEF p, Path

LEMMA TakeAway ==
  ASSUME NEW d \in Path, NEW p \in Path, IsPrefix(d, p)
  PROVE  LET u == SubSeq(p, Len(d) + 1, Len(p))
         IN  /\ u \in Seq(Word) /\ Len(p) = Len(d) + Len(u) /\ d \o u = p
             /\ \A i \in 1 .. Len(u) : u[i] = p[Len(d) + i]
             /\ Head(p) = Head(d)
<1> DEFINE u == SubSeq(p, Len(d) + 1, Len(p))
<1>1. d \in Seq(Word) /\ Len(d) \in Nat \ {0} /\ p \in Seq(Word) /\ Len(p) \in Nat
  BY LenProperties, EmptySeq DEF Path
<1>2. Len(d) <= Len(p) /\ \A i \in 1 .. Len(d) : d[i] = p[i]
  BY <1>1, PrefixOf
<1>3. /\ u \in Seq(Word) /\ Len(u) = Len(p) - Len(d)
      /\ \A i \in 1 .. Len(u) : u[i] = p[Len(d) + i]
  <2>1. \A i \in Len(d) + 1 .. Len(p) : p[i] \in Word
    <3>1. \A i \in Len(d) + 1 .. Len(p) : i \in 1 .. Len(p)
      BY <1>1
    <3> QED
      BY <1>1, <3>1, ElementOfSeq
  <2>2. /\ SubSeq(p, Len(d) + 1, Len(p)) \in Seq(Word)
        /\ Len(SubSeq(p, Len(d) + 1, Len(p))) =
             IF Len(d) + 1 <= Len(p) THEN Len(p) - (Len(d) + 1) + 1 ELSE 0
        /\ \A i \in 1 .. Len(p) - (Len(d) + 1) + 1 :
             SubSeq(p, Len(d) + 1, Len(p))[i] = p[(Len(d) + 1) + i - 1]
    BY <1>1, <2>1, SubSeqProperties
  <2>3. Len(u) = Len(p) - Len(d) /\ Len(p) - (Len(d) + 1) + 1 = Len(p) - Len(d)
    BY <1>1, <1>2, <2>2
  <2>4. \A i \in 1 .. Len(p) - Len(d) : (Len(d) + 1) + i - 1 = Len(d) + i
    BY <1>1
  <2> QED
    BY <2>2, <2>3, <2>4
<1> HIDE DEF u
<1> DEFINE q == d \o u
<1>4. /\ q \in Path /\ Len(q) = Len(d) + Len(u)
      /\ \A i \in 1 .. Len(d) : q[i] = d[i]
      /\ \A i \in 1 .. Len(u) : q[Len(d) + i] = u[i]
      /\ Head(q) = Head(d)
  BY <1>3, PutBelow
<1> HIDE DEF q
<1>5. q = p
  <2>1. q \in Seq(Word) /\ Len(q) = Len(p)
    BY <1>1, <1>3, <1>4 DEF Path
  <2>2. ASSUME NEW i \in 1 .. Len(p) PROVE q[i] = p[i]
    <3>1. CASE i <= Len(d)
      BY <1>1, <1>2, <1>4, <3>1
    <3>2. CASE ~ (i <= Len(d))
      <4>1. i - Len(d) \in 1 .. Len(u) /\ Len(d) + (i - Len(d)) = i
        BY <1>1, <1>3, <3>2
      <4> QED
        BY <1>3, <1>4, <4>1
    <3> QED
      BY <3>1, <3>2
  <2> QED
    BY <1>1, <2>1, <2>2, SeqEqual
<1>6. Len(p) = Len(d) + Len(u)
  BY <1>1, <1>3
<1> QED
  BY <1>3, <1>4, <1>5, <1>6 DEF u, q

\* The directories that are named in the code.
LEMMA Places ==
  /\ Base \in Path /\ Len(Base) = 4 /\ Head(Base) = "/" /\ Base[2] = "usr"
  /\ Home \in Path /\ Len(Home) = 3 /\ Head(Home) = "/" /\ Home[2] = "home"
  /\ KeyDir \in Path /\ Len(KeyDir) = 3 /\ Head(KeyDir) = "/"
  /\ KeyDir[2] = "root" /\ KeyDir[3] = ".vibebox"
  /\ MiseDir \in Path /\ Len(MiseDir) = 5 /\ Head(MiseDir) = "/"
  /\ MiseDir[2] = "root" /\ MiseDir[3] = ".local"
  /\ Staging \in Path /\ Len(Staging) = 3 /\ Head(Staging) = "/" /\ Staging[2] = "mnt"
  /\ <<"/", "root">> \in Path /\ Len(<<"/", "root">>) = 2 /\ Head(<<"/", "root">>) = "/"
  /\ <<"/", "root">>[2] = "root"
BY WordAssumption DEF Base, Home, KeyDir, MiseDir, Staging, Path

\* A path with another second name is not above.
LEMMA OtherSecond ==
  ASSUME NEW s \in Path, Len(s) >= 2, NEW t \in Path, s[2] # t[2]
  PROVE  ~ IsPrefix(s, t)
<1>1. s \in Seq(Word) /\ t \in Seq(Word) /\ 2 \in 1 .. Len(s)
  BY LenProperties DEF Path
<1> QED
  BY <1>1, Apart

\* What the paths of the code are, seen from one another.
LEMMA PlacesApart ==
  /\ ~ IsPrefix(Home, KeyDir) /\ ~ IsPrefix(KeyDir, Staging) /\ ~ IsPrefix(MiseDir, Staging)
  /\ ~ IsPrefix(MiseDir, KeyDir) /\ ~ IsPrefix(Home, MiseDir) /\ ~ IsPrefix(Staging, KeyDir)
  /\ \A t \in Seq(Word) : /\ ~ IsPrefix(MiseDir, Base \o t) /\ ~ IsPrefix(KeyDir, Base \o t)
                          /\ ~ IsPrefix(Home, Base \o t)
                          /\ ~ IsPrefix(Home, <<"/", "root">> \o t)
                          /\ ~ IsPrefix(Base \o t, KeyDir) /\ ~ IsPrefix(Base \o t, Staging)
<1>1. /\ ~ IsPrefix(Home, KeyDir) /\ ~ IsPrefix(KeyDir, Staging)
      /\ ~ IsPrefix(MiseDir, Staging) /\ ~ IsPrefix(Home, MiseDir)
      /\ ~ IsPrefix(Staging, KeyDir)
  BY Places, OtherSecond
<1>2. ~ IsPrefix(MiseDir, KeyDir)
  <2>1. MiseDir \in Seq(Word) /\ KeyDir \in Seq(Word) /\ 3 \in 1 .. Len(MiseDir)
    BY Places DEF Path
  <2> QED
    BY <2>1, Places, Apart
<1>3. ASSUME NEW t \in Seq(Word)
      PROVE  /\ Base \o t \in Path /\ (Base \o t)[2] = "usr" /\ Len(Base \o t) >= 2
             /\ <<"/", "root">> \o t \in Path /\ (<<"/", "root">> \o t)[2] = "root"
  <2>1. /\ Base \o t \in Path /\ \A i \in 1 .. Len(Base) : (Base \o t)[i] = Base[i]
        /\ Len(Base \o t) = Len(Base) + Len(t) /\ Len(t) \in Nat
    BY Places, PutBelow, LenProperties
  <2> DEFINE r == <<"/", "root">>
  <2>2. r \in Path /\ Len(r) = 2 /\ r[2] = "root"
    BY Places
  <2> HIDE DEF r
  <2>3. r \o t \in Path /\ \A i \in 1 .. Len(r) : (r \o t)[i] = r[i]
    BY <2>2, PutBelow
  <2> QED
    BY <2>1, <2>2, <2>3, Places DEF r
<1>4. ASSUME NEW t \in Seq(Word)
      PROVE  /\ ~ IsPrefix(MiseDir, Base \o t) /\ ~ IsPrefix(KeyDir, Base \o t)
             /\ ~ IsPrefix(Home, Base \o t) /\ ~ IsPrefix(Home, <<"/", "root">> \o t)
             /\ ~ IsPrefix(Base \o t, KeyDir) /\ ~ IsPrefix(Base \o t, Staging)
  <2> DEFINE b == Base \o t
             r == <<"/", "root">> \o t
  <2>1. b \in Path /\ b[2] = "usr" /\ Len(b) >= 2 /\ r \in Path /\ r[2] = "root"
    BY <1>3
  <2> HIDE DEF b, r
  <2>2. /\ ~ IsPrefix(MiseDir, b) /\ ~ IsPrefix(KeyDir, b) /\ ~ IsPrefix(Home, b)
        /\ ~ IsPrefix(Home, r) /\ ~ IsPrefix(b, KeyDir) /\ ~ IsPrefix(b, Staging)
    BY <2>1, Places, OtherSecond
  <2> QED
    BY <2>2 DEF b, r
<1> QED
  BY <1>1, <1>2, <1>4

\* A spec is mounted where explain shows it, with Base in place of Home.
LEMMA ShownIsMounted ==
  ASSUME NEW g \in Path
  PROVE  LET place == Mountable(Shown(g))
         IN  /\ place \in Path /\ Head(place) = "/" /\ ~ IsPrefix(Home, place)
             /\ \A spec \in RawSpec : spec.guest = g => Rewrite(spec).guest = place
             /\ InHome(g) => /\ Rel(g) \in Seq(Word) /\ Shown(g) = Home \o Rel(g)
                             /\ place = Base \o Rel(g) /\ IsPrefix(Home, Shown(g))
                             /\ Rel(Shown(g)) = Rel(g)
                             /\ \A i \in 1 .. Len(Rel(g)) :
                                  \E k \in 1 .. Len(g) : Rel(g)[i] = g[k]
             /\ ~ InHome(g) => Shown(g) = place
<1> DEFINE place == Mountable(Shown(g))
<1>1. ASSUME NEW spec \in RawSpec, spec.guest = g
      PROVE  Rewrite(spec).guest = CASE InHome(g)     -> Base \o Rel(g)
                                     [] IsRelative(g) -> <<"/", "root">> \o g
                                     [] OTHER         -> g
  BY <1>1 DEF Rewrite, RawSpec
<1>2. /\ g \in Seq(Word) /\ Len(g) \in Nat \ {0} /\ Head(g) \in Word /\ Tail(g) \in Seq(Word)
      /\ Len(Tail(g)) = Len(g) - 1 /\ \A i \in 1 .. Len(Tail(g)) : Tail(g)[i] = g[i + 1]
  BY HeadTailProperties, LenProperties, EmptySeq DEF Path
<1>3. IsPrefix(Home, g) => Head(g) = "/"
  BY Places, TakeAway
<1>4. ASSUME InHome(g)
      PROVE  /\ Rel(g) \in Seq(Word)
             /\ \A i \in 1 .. Len(Rel(g)) : \E k \in 1 .. Len(g) : Rel(g)[i] = g[k]
  <2>1. CASE Head(g) = "~"
    <3>1. Rel(g) = Tail(g)
      BY <2>1 DEF Rel
    <3>2. \A i \in 1 .. Len(Tail(g)) : i + 1 \in 1 .. Len(g)
      BY <1>2
    <3> QED
      BY <1>2, <3>1, <3>2
  <2>2. CASE Head(g) # "~"
    <3> DEFINE u == SubSeq(g, Len(Home) + 1, Len(g))
    <3>1. Rel(g) = u /\ IsPrefix(Home, g)
      BY <1>4, <2>2 DEF Rel, InHome
    <3>2. /\ u \in Seq(Word) /\ Len(g) = Len(Home) + Len(u)
          /\ \A i \in 1 .. Len(u) : u[i] = g[Len(Home) + i]
      BY <3>1, Places, TakeAway
    <3> HIDE DEF u
    <3>3. Len(u) \in Nat
      BY <3>2, LenProperties
    <3>4. \A i \in 1 .. Len(u) : Len(Home) + i \in 1 .. Len(g)
      BY <1>2, <3>2, <3>3, Places
    <3> QED
      BY <3>1, <3>2, <3>4
  <2> QED
    BY <2>1, <2>2
<1>5. CASE InHome(g)
  <2> DEFINE t == Rel(g)
             h == Home \o t
             b == Base \o t
  <2>0. ~ IsRelative(g)
    BY <1>3, <1>5 DEF InHome, IsRelative
  <2>1. t \in Seq(Word)
    BY <1>4, <1>5
  <2>2. Shown(g) = h
    BY <1>5, <2>0 DEF Shown
  <2>3. /\ h \in Path /\ IsPrefix(Home, h) /\ Head(h) = "/"
        /\ SubSeq(h, Len(Home) + 1, Len(h)) = t
    BY <2>1, Places, PutBelow
  <2>4. Rel(h) = t
    <3> HIDE DEF h, t
    <3> QED
      BY <2>3 DEF Rel
  <2>5. place = b
    BY <2>2, <2>3, <2>4 DEF Mountable
  <2>6. b \in Path /\ Head(b) = "/" /\ ~ IsPrefix(Home, b)
    BY <2>1, Places, PutBelow, PlacesApart
  <2>7. \A spec \in RawSpec : spec.guest = g => Rewrite(spec).guest = b
    BY <1>1, <1>5, <2>0
  <2> HIDE DEF t, h, b, place
  <2>8. \A i \in 1 .. Len(t) : \E k \in 1 .. Len(g) : t[i] = g[k]
    BY <1>4, <1>5 DEF t
  <2>9. h = Home \o Rel(g) /\ b = Base \o Rel(g) /\ t = Rel(g)
    BY DEF h, b, t
  <2> QED
    BY <1>5, <2>1, <2>2, <2>3, <2>4, <2>5, <2>6, <2>7, <2>8, <2>9 DEF place
<1>6. CASE IsRelative(g)
  <2> DEFINE u == <<"/", "root">> \o g
  <2>1. ~ InHome(g)
    BY <1>3, <1>6 DEF InHome, IsRelative
  <2>2. Shown(g) = u
    BY <1>6, <2>1 DEF Shown
  <2>3. u \in Path /\ Head(u) = "/" /\ ~ IsPrefix(Home, u)
    BY <1>2, Places, PutBelow, PlacesApart
  <2>4. place = u
    BY <2>2, <2>3 DEF Mountable
  <2>5. \A spec \in RawSpec : spec.guest = g => Rewrite(spec).guest = u
    BY <1>1, <1>6, <2>1
  <2> HIDE DEF u, place
  <2> QED
    BY <2>1, <2>2, <2>3, <2>4, <2>5 DEF place
<1>7. CASE ~ InHome(g) /\ ~ IsRelative(g)
  <2>1. Shown(g) = g /\ Head(g) = "/" /\ ~ IsPrefix(Home, g)
    BY <1>7 DEF Shown, InHome, IsRelative
  <2>2. place = g
    BY <2>1 DEF Mountable
  <2>3. \A spec \in RawSpec : spec.guest = g => Rewrite(spec).guest = g
    BY <1>1, <1>7
  <2> HIDE DEF place
  <2> QED
    BY <1>7, <2>1, <2>2, <2>3 DEF place
<1> QED
  BY <1>5, <1>6, <1>7

-----------------------------------------------------------------------------
(***************************************************************************)
(* The shares and the rows of explain.                                     *)
(***************************************************************************)
LEMMA RawTypes ==
  /\ Mount \subseteq RawSpec /\ ProjectSpec \in RawSpec
  /\ <<Project>> \in Seq(Word) /\ Len(<<Project>>) = 1 /\ <<"~", Project>> \in Path
<1>1. Mount \subseteq RawSpec
  BY SpecAssumption DEF Mount, RawSpec
<1>2. <<Project>> \in Seq(Word) /\ Len(<<Project>>) = 1 /\ <<"~", Project>> \in Path
  BY WordAssumption DEF Path
<1>3. ProjectSpec \in RawSpec
  BY <1>2, WordAssumption DEF ProjectSpec, RawSpec
<1> QED
  BY <1>1, <1>2, <1>3

\* The places in the home directory that can be links.
LEMMA PlacesInHome ==
  /\ HomePaths \subseteq Seq(Word)
  /\ \A s \in Mount \cup {ProjectSpec} :
       InHome(s.guest) /\ Rel(s.guest) # <<>> => Rel(s.guest) \in HomePaths
<1>1. ASSUME NEW s \in Mount \cup {ProjectSpec}, InHome(s.guest)
      PROVE  Rel(s.guest) \in Seq(Word)
  <2>1. s.guest \in Path
    BY RawTypes DEF RawSpec
  <2> QED
    BY <1>1, <2>1, ShownIsMounted
<1>2. ASSUME NEW r \in Seq(Word)
      PROVE  Prefixes(r) \subseteq Seq(Word) /\ r \in Prefixes(r)
  <2>1. Len(r) \in Nat
    BY LenProperties
  <2>2. ASSUME NEW l \in 0 .. Len(r) PROVE SubSeq(r, 1, l) \in Seq(Word)
    <3>1. \A i \in 1 .. l : i \in 1 .. Len(r)
      BY <2>1
    <3>2. \A i \in 1 .. l : r[i] \in Word
      BY <3>1, ElementOfSeq
    <3> QED
      BY <2>1, <3>2, SubSeqProperties
  <2>3. SubSeq(r, 1, Len(r)) = r /\ Len(r) \in 0 .. Len(r)
    BY <2>1, SubSeqFull
  <2> QED
    BY <2>2, <2>3 DEF Prefixes
<1>3. ASSUME NEW p \in HomePaths PROVE p \in Seq(Word)
  <2>1. PICK s \in Mount \cup {ProjectSpec} : InHome(s.guest) /\ p \in Prefixes(Rel(s.guest))
    BY DEF HomePaths, Mount
  <2> QED
    BY <1>1, <1>2, <2>1
<1>4. ASSUME NEW s \in Mount \cup {ProjectSpec}, InHome(s.guest), Rel(s.guest) # <<>>
      PROVE  Rel(s.guest) \in HomePaths
  <2>1. Rel(s.guest) \in Prefixes(Rel(s.guest))
    BY <1>1, <1>2, <1>4
  <2>2. HomePaths = (UNION {Prefixes(Rel(t.guest)) :
                              t \in {x \in Specs \cup {ProjectSpec} : InHome(x.guest)}}) \ {<<>>}
    BY DEF HomePaths
  <2>3. s \in {x \in Specs \cup {ProjectSpec} : InHome(x.guest)}
    BY <1>4 DEF Mount
  <2>4. ASSUME NEW P, s \in P, NEW p, p \in Prefixes(Rel(s.guest)), p # <<>>
        PROVE  p \in (UNION {Prefixes(Rel(t.guest)) : t \in P}) \ {<<>>}
    BY <2>4
  <2> QED
    BY <1>4, <2>1, <2>2, <2>3, <2>4
<1> QED
  BY <1>3, <1>4

\* The places of the project, one of which a spec has taken if it is not added.
AtProject == {<<"~", Project>>, Home \o <<Project>>, Base \o <<Project>>}

LEMMA InjectedSpecs ==
  ASSUME NEW specs \in Seq(Mount)
  PROVE  LET all == Inject(specs)
         IN  /\ all \in Seq(RawSpec) /\ Len(all) \in {Len(specs), Len(specs) + 1}
             /\ \A i \in 1 .. Len(specs) : \E k \in 1 .. Len(all) : all[k] = specs[i]
             /\ \A k \in 1 .. Len(all) :
                  all[k] = ProjectSpec \/ \E i \in 1 .. Len(specs) : all[k] = specs[i]
             /\ \/ \E k \in 1 .. Len(all) : all[k] = ProjectSpec
                \/ \E i \in 1 .. Len(specs) : specs[i].guest \in AtProject
<1>1. specs \in Seq(RawSpec) /\ Len(specs) \in Nat /\ DOMAIN specs = 1 .. Len(specs)
  BY RawTypes, SeqMonotonic, LenProperties
<1>2. CASE \E i \in DOMAIN specs : specs[i].guest \in AtProject
  <2>1. Inject(specs) = specs
    BY <1>2 DEF Inject, AtProject
  <2> QED
    BY <1>1, <1>2, <2>1
<1>3. CASE ~ \E i \in DOMAIN specs : specs[i].guest \in AtProject
  <2> DEFINE all == <<ProjectSpec>> \o specs
  <2>1. Inject(specs) = all
    BY <1>3 DEF Inject, AtProject
  <2>2. /\ <<ProjectSpec>> \in Seq(RawSpec) /\ Len(<<ProjectSpec>>) = 1
        /\ <<ProjectSpec>>[1] = ProjectSpec
    BY RawTypes
  <2>3. /\ all \in Seq(RawSpec) /\ Len(all) = 1 + Len(specs)
        /\ \A k \in 1 .. 1 + Len(specs) :
             all[k] = IF k <= 1 THEN <<ProjectSpec>>[k] ELSE specs[k - 1]
    BY <1>1, <2>2, ConcatProperties
  <2> HIDE DEF all
  <2>4. all[1] = ProjectSpec /\ \A i \in 1 .. Len(specs) : all[i + 1] = specs[i]
    BY <1>1, <2>2, <2>3
  <2>5. \A i \in 1 .. Len(specs) : i + 1 \in 1 .. Len(all)
    BY <1>1, <2>3
  <2>6. \A k \in 1 .. Len(all) : k = 1 \/ k - 1 \in 1 .. Len(specs)
    BY <1>1, <2>3
  <2>7. \A k \in 1 .. Len(all) :
          all[k] = ProjectSpec \/ \E i \in 1 .. Len(specs) : all[k] = specs[i]
    BY <1>1, <2>3, <2>4, <2>6
  <2>8. 1 \in 1 .. Len(all) /\ Len(all) = Len(specs) + 1
    BY <1>1, <2>3
  <2> QED
    BY <2>1, <2>3, <2>4, <2>5, <2>7, <2>8
<1> QED
  BY <1>2, <1>3

LEMMA RewrittenSpec ==
  ASSUME NEW spec \in RawSpec
  PROVE  /\ Rewrite(spec) \in Shared
         /\ Rewrite(spec) = [host |-> spec.host, guest |-> Mountable(Shown(spec.guest)),
                             mode |-> spec.mode]
<1>1. spec.guest \in Path
  BY DEF RawSpec
<1>2. /\ Rewrite(spec).guest = Mountable(Shown(spec.guest))
      /\ Mountable(Shown(spec.guest)) \in Path
  BY <1>1, ShownIsMounted
<1>3. Rewrite(spec) = [host |-> spec.host, guest |-> Rewrite(spec).guest,
                       mode |-> spec.mode]
  <2> DEFINE w == CASE InHome(spec.guest)     -> Base \o Rel(spec.guest)
                    [] IsRelative(spec.guest) -> <<"/", "root">> \o spec.guest
                    [] OTHER                  -> spec.guest
  <2>1. Rewrite(spec) = [spec EXCEPT !.guest = w]
    BY DEF Rewrite
  <2> HIDE DEF w
  <2> QED
    BY <2>1 DEF RawSpec
<1> QED
  BY <1>2, <1>3 DEF Shared, RawSpec

LEMMA OwnShares ==
  /\ Own \in Seq(Shared) /\ Len(Own) = 2
  /\ Own[1] = [host |-> "mise", guest |-> MiseDir, mode |-> "rw"]
  /\ Own[2] = [host |-> ".vibebox", guest |-> KeyDir, mode |-> "ro"]
BY Places DEF Own, Shared

LEMMA SharesOfSpecs ==
  ASSUME NEW specs \in Seq(Mount)
  PROVE  LET all == Inject(specs)
             made == Shares(specs)
         IN  /\ made \in Seq(Shared) /\ Len(made) = Len(all) + 2
             /\ made[1] = Own[1] /\ made[2] = Own[2]
             /\ \A k \in 1 .. Len(all) : made[k + 2] = Rewrite(all[k])
<1> DEFINE all == Inject(specs)
           rest == [i \in DOMAIN all |-> Rewrite(all[i])]
<1>1. all \in Seq(RawSpec) /\ Len(all) \in Nat /\ DOMAIN all = 1 .. Len(all)
  BY InjectedSpecs, LenProperties
<1>2. Shares(specs) = Own \o rest
  BY DEF Shares
<1> HIDE DEF all
<1>3. \A i \in 1 .. Len(all) : Rewrite(all[i]) \in Shared
  BY <1>1, ElementOfSeq, RewrittenSpec
<1>4. rest \in [1 .. Len(all) -> Shared] /\ rest \in Seq(Shared) /\ Len(rest) = Len(all)
  BY <1>1, <1>3
<1>5. \A i \in 1 .. Len(all) : rest[i] = Rewrite(all[i])
  BY <1>1
<1> HIDE DEF rest
<1>6. /\ Own \o rest \in Seq(Shared) /\ Len(Own \o rest) = 2 + Len(all)
      /\ \A i \in 1 .. 2 + Len(all) :
           (Own \o rest)[i] = IF i <= 2 THEN Own[i] ELSE rest[i - 2]
  <2>1. Own \in Seq(Shared) /\ Len(Own) = 2
    BY OwnShares
  <2>2. ASSUME NEW u \in Seq(Shared), NEW v \in Seq(Shared)
        PROVE  /\ u \o v \in Seq(Shared) /\ Len(u \o v) = Len(u) + Len(v)
               /\ \A i \in 1 .. Len(u) + Len(v) :
                    (u \o v)[i] = IF i <= Len(u) THEN u[i] ELSE v[i - Len(u)]
    BY ConcatProperties
  <2>3. /\ Own \o rest \in Seq(Shared) /\ Len(Own \o rest) = Len(Own) + Len(rest)
        /\ \A i \in 1 .. Len(Own) + Len(rest) :
             (Own \o rest)[i] = IF i <= Len(Own) THEN Own[i] ELSE rest[i - Len(Own)]
    BY <1>4, <2>1, <2>2, Zenon
  <2> QED
    BY <1>4, <2>1, <2>3
<1> DEFINE made == Own \o rest
<1> HIDE DEF made
<1>7. \A k \in 1 .. Len(all) : k + 2 \in 1 .. 2 + Len(all) /\ ~ (k + 2 <= 2)
  BY <1>1
<1>8. \A k \in 1 .. Len(all) : made[k + 2] = rest[k]
  BY <1>1, <1>6, <1>7 DEF made
<1>9. made[1] = Own[1] /\ made[2] = Own[2]
  BY <1>1, <1>6 DEF made
<1>10. made \in Seq(Shared) /\ Len(made) = Len(all) + 2
  BY <1>1, <1>6 DEF made
<1>11. Shares(specs) = made
  BY <1>2 DEF made
<1> QED
  BY <1>5, <1>8, <1>9, <1>10, <1>11 DEF all

-----------------------------------------------------------------------------
\* The share that is made of a row.
Placed(q) == [host |-> q.host, guest |-> Mountable(q.guest), mode |-> q.mode]

ProjectRow == [host |-> Project, guest |-> Home \o <<Project>>, mode |-> "rw"]

LEMMA ProjectIsShown ==
  /\ Home \o <<Project>> \in Path /\ Base \o <<Project>> \in Path
  /\ Shown(<<"~", Project>>) = Home \o <<Project>>
  /\ Shown(Home \o <<Project>>) = Home \o <<Project>>
  /\ Shown(Base \o <<Project>>) = Base \o <<Project>>
  /\ Mountable(Home \o <<Project>>) = Base \o <<Project>>
  /\ Mountable(Base \o <<Project>>) = Base \o <<Project>>
  /\ Home \o <<Project>> # Base \o <<Project>>
  /\ InHome(<<"~", Project>>) /\ Rel(<<"~", Project>>) = <<Project>>
  /\ InHome(Home \o <<Project>>) /\ Rel(Home \o <<Project>>) = <<Project>>
<1> DEFINE g == <<"~", Project>>
           h == Home \o <<Project>>
           b == Base \o <<Project>>
           t == <<Project>>
<1>1. t \in Seq(Word) /\ g \in Path /\ Len(t) = 1
  BY RawTypes
<1>2. Head(g) = "~" /\ Tail(g) = t
  OBVIOUS
<1>3. /\ h \in Path /\ Head(h) = "/" /\ IsPrefix(Home, h)
      /\ SubSeq(h, Len(Home) + 1, Len(h)) = t
      /\ b \in Path /\ Head(b) = "/" /\ ~ IsPrefix(Home, b)
  BY <1>1, Places, PutBelow, PlacesApart
<1>4. h = Home \o t /\ b = Base \o t
  OBVIOUS
<1> HIDE DEF g, h, b, t
<1>5. InHome(g) /\ Rel(g) = t /\ ~ IsRelative(g)
  BY <1>2 DEF InHome, Rel, IsRelative
<1>6. InHome(h) /\ Rel(h) = t /\ ~ IsRelative(h)
  BY <1>3 DEF InHome, Rel, IsRelative
<1>7. ~ InHome(b) /\ ~ IsRelative(b)
  BY <1>3 DEF InHome, IsRelative
<1>8. Shown(g) = h
  BY <1>4, <1>5 DEF Shown
<1>9. Shown(h) = h
  BY <1>4, <1>6 DEF Shown
<1>10. Shown(b) = b
  BY <1>7 DEF Shown
<1>11. Mountable(h) = b
  BY <1>3, <1>4, <1>6 DEF Mountable
<1>12. Mountable(b) = b
  BY <1>3 DEF Mountable
<1> QED
  BY <1>3, <1>5, <1>6, <1>8, <1>9, <1>10, <1>11, <1>12 DEF g, h, b, t

\* The row of a spec and its share.
LEMMA RowOfSpec ==
  ASSUME NEW specs \in Seq(Mount), NEW i \in 1 .. Len(specs)
  PROVE  LET q == [specs[i] EXCEPT !.guest = Shown(@)]
         IN  /\ q = [host |-> specs[i].host, guest |-> Shown(specs[i].guest),
                     mode |-> specs[i].mode]
             /\ Rewrite(specs[i]) = Placed(q)
<1>1. specs[i] \in Mount
  BY ElementOfSeq
<1>2. /\ specs[i] \in RawSpec
      /\ specs[i] = [host |-> specs[i].host, guest |-> specs[i].guest,
                     mode |-> specs[i].mode]
  BY <1>1, RawTypes DEF RawSpec
<1>3. Rewrite(specs[i]) = [host |-> specs[i].host,
                           guest |-> Mountable(Shown(specs[i].guest)),
                           mode |-> specs[i].mode]
  BY <1>2, RewrittenSpec
<1> DEFINE w == Shown(specs[i].guest)
<1>4. [specs[i] EXCEPT !.guest = w] = [host |-> specs[i].host, guest |-> w,
                                       mode |-> specs[i].mode]
  <2> HIDE DEF w
  <2> QED
    BY <1>2
<1> QED
  BY <1>3, <1>4 DEF Placed

\* The shares that need no spec, and their rows.
\* The shares that need no spec, and their rows.
LEMMA DefaultShares ==
  /\ Own[1] = Placed(Head(Own)) /\ Head(Own).guest = MiseDir /\ Mountable(MiseDir) = MiseDir
  /\ Rewrite(ProjectSpec) = Placed(ProjectRow)
  /\ Mountable(Shown(ProjectSpec.guest)) = Base \o <<Project>>
<1>1. Own[1] = Placed(Head(Own)) /\ Head(Own).guest = MiseDir /\ Mountable(MiseDir) = MiseDir
  <2>1. Head(Own) = Own[1]
    BY DEF Own
  <2>2. Mountable(MiseDir) = MiseDir
    BY PlacesApart DEF Mountable
  <2>3. /\ Own[1].host = "mise" /\ Own[1].guest = MiseDir
        /\ Own[1].mode = "rw"
        /\ Own[1] = [host |-> "mise", guest |-> MiseDir, mode |-> "rw"]
    BY OwnShares
  <2>4. Placed(Own[1]) = Own[1]
    BY <2>2, <2>3, Zenon DEF Placed
  <2> QED
    BY <2>1, <2>2, <2>3, <2>4
<1>2. Rewrite(ProjectSpec) = Placed(ProjectRow)
  <2>1. Rewrite(ProjectSpec) = [host |-> ProjectSpec.host,
             guest |-> Mountable(Shown(ProjectSpec.guest)), mode |-> ProjectSpec.mode]
    BY RawTypes, RewrittenSpec
  <2>2. /\ ProjectSpec.host = Project /\ ProjectSpec.guest = <<"~", Project>>
        /\ ProjectSpec.mode = "rw"
    BY DEF ProjectSpec
  <2> QED
    BY <2>1, <2>2, ProjectIsShown DEF Placed, ProjectRow
<1>3. Mountable(Shown(ProjectSpec.guest)) = Base \o <<Project>>
  BY ProjectIsShown DEF ProjectSpec
<1> QED
  BY <1>1, <1>2, <1>3

LEMMA SharesAreRows ==
  ASSUME mounts \in Seq(Mount)
  PROVE  \A j \in 1 .. Len(Shares(mounts)) :
           j = 2 \/ \E q \in Rows : Shares(mounts)[j] = Placed(q)
<1> DEFINE all == Inject(mounts)
           made == Shares(mounts)
<1>1. /\ Len(made) = Len(all) + 2 /\ made[1] = Own[1]
      /\ \A k \in 1 .. Len(all) : made[k + 2] = Rewrite(all[k])
      /\ Len(all) \in Nat
  BY SharesOfSpecs, InjectedSpecs, LenProperties
<1>2. \A k \in 1 .. Len(all) :
        all[k] = ProjectSpec \/ \E i \in 1 .. Len(mounts) : all[k] = mounts[i]
  BY InjectedSpecs
<1> HIDE DEF all, made
<1>3. ASSUME NEW k \in 1 .. Len(all) PROVE \E q \in Rows : made[k + 2] = Placed(q)
  <2>1. CASE all[k] = ProjectSpec
    <3>1. ProjectRow \in Rows
      BY DEF Rows, DefaultRows, ProjectRow
    <3> QED
      BY <1>1, <2>1, <3>1, DefaultShares
  <2>2. ASSUME NEW i \in 1 .. Len(mounts), all[k] = mounts[i]
        PROVE  \E q \in Rows : made[k + 2] = Placed(q)
    <3> DEFINE q == [mounts[i] EXCEPT !.guest = Shown(@)]
    <3>1. Rewrite(mounts[i]) = Placed(q)
      BY RowOfSpec
    <3>2. q \in Rows
      <4>1. i \in DOMAIN mounts
        BY LenProperties
      <4> QED
        BY <4>1 DEF Rows
    <3> QED
      BY <1>1, <2>2, <3>1, <3>2
  <2> QED
    BY <1>2, <2>1, <2>2
<1>4. \E q \in Rows : made[1] = Placed(q)
  <2>1. Head(Own) \in Rows
    BY DEF Rows, DefaultRows
  <2> QED
    BY <1>1, <2>1, DefaultShares
<1>5. \A j \in 1 .. Len(made) : j = 1 \/ j = 2 \/ (j - 2 \in 1 .. Len(all) /\ j = (j - 2) + 2)
  BY <1>1
<1>6. ASSUME NEW j \in 1 .. Len(made), j # 2 PROVE \E q \in Rows : made[j] = Placed(q)
  <2>1. CASE j = 1
    BY <1>4, <2>1
  <2>2. CASE j - 2 \in 1 .. Len(all) /\ j = (j - 2) + 2
    BY <1>3, <2>2
  <2> QED
    BY <1>5, <1>6, <2>1, <2>2
<1> QED
  BY <1>6 DEF made

LEMMA RowsAreShared ==
  ASSUME mounts \in Seq(Mount), NEW q \in Rows
  PROVE  \/ \E j \in 1 .. Len(Shares(mounts)) : j # 2 /\ Shares(mounts)[j] = Placed(q)
         \/ q = ProjectRow /\ \E i \in 1 .. Len(mounts) : mounts[i].guest \in AtProject
<1> DEFINE all == Inject(mounts)
           made == Shares(mounts)
<1>1. /\ Len(made) = Len(all) + 2 /\ made[1] = Own[1]
      /\ \A k \in 1 .. Len(all) : made[k + 2] = Rewrite(all[k])
      /\ Len(all) \in Nat
  BY SharesOfSpecs, InjectedSpecs, LenProperties
<1>2. /\ \A i \in 1 .. Len(mounts) : \E k \in 1 .. Len(all) : all[k] = mounts[i]
      /\ \/ \E k \in 1 .. Len(all) : all[k] = ProjectSpec
         \/ \E i \in 1 .. Len(mounts) : mounts[i].guest \in AtProject
  BY InjectedSpecs
<1> HIDE DEF all, made
<1>3. \A k \in 1 .. Len(all) : k + 2 \in 1 .. Len(made) /\ k + 2 # 2
  BY <1>1
<1>4. 1 \in 1 .. Len(made)
  BY <1>1
<1>5. CASE q = Head(Own)
  <2>1. made[1] = Placed(q)
    BY <1>1, <1>5, DefaultShares
  <2> QED
    BY <1>4, <2>1 DEF made
<1>6. CASE q = ProjectRow
  <2>1. ASSUME NEW k \in 1 .. Len(all), all[k] = ProjectSpec
        PROVE  made[k + 2] = Placed(q)
    BY <1>1, <1>6, <2>1, DefaultShares
  <2> QED
    BY <1>2, <1>3, <1>6, <2>1 DEF made
<1>7. ASSUME NEW i \in 1 .. Len(mounts), q = [mounts[i] EXCEPT !.guest = Shown(@)]
      PROVE  \E j \in 1 .. Len(made) : j # 2 /\ made[j] = Placed(q)
  <2>1. PICK k \in 1 .. Len(all) : all[k] = mounts[i]
    BY <1>2
  <2>2. Rewrite(mounts[i]) = Placed(q)
    BY <1>7, RowOfSpec
  <2> QED
    BY <1>1, <1>3, <2>1, <2>2
<1>8. \/ q = ProjectRow \/ q = Head(Own)
      \/ \E i \in 1 .. Len(mounts) : q = [mounts[i] EXCEPT !.guest = Shown(@)]
  <2>1. DOMAIN mounts = 1 .. Len(mounts)
    BY LenProperties
  <2> QED
    BY <2>1 DEF Rows, DefaultRows, ProjectRow
<1> QED
  BY <1>5, <1>6, <1>7, <1>8 DEF made

\* A spec that has the project's place has a row there, in place of the project's.
LEMMA RowAtProject ==
  ASSUME mounts \in Seq(Mount), NEW i \in 1 .. Len(mounts), mounts[i].guest \in AtProject
  PROVE  LET q == [mounts[i] EXCEPT !.guest = Shown(@)]
         IN  /\ q \in Rows /\ Mountable(q.guest) = Base \o <<Project>>
             /\ q.guest \in {Home \o <<Project>>, Base \o <<Project>>}
<1> DEFINE q == [mounts[i] EXCEPT !.guest = Shown(@)]
<1>1. q.guest = Shown(mounts[i].guest)
  <2>1. q = [host |-> mounts[i].host, guest |-> Shown(mounts[i].guest),
             mode |-> mounts[i].mode]
    BY RowOfSpec
  <2> QED
    BY <2>1
<1>2. q \in Rows
  BY LenProperties DEF Rows
<1>3. Shown(mounts[i].guest) \in {Home \o <<Project>>, Base \o <<Project>>}
  BY ProjectIsShown DEF AtProject
<1> HIDE DEF q
<1> QED
  BY <1>1, <1>2, <1>3, ProjectIsShown DEF q

LEMMA RowsAre ==
  ASSUME mounts \in Seq(Mount), NEW q \in Rows
  PROVE  \/ q = ProjectRow \/ q = Head(Own)
         \/ \E i \in 1 .. Len(mounts) :
              q = [mounts[i] EXCEPT !.guest = Shown(@)] /\ q.guest = Shown(mounts[i].guest)
<1>1. DOMAIN mounts = 1 .. Len(mounts)
  BY LenProperties
<1>2. \/ q = ProjectRow \/ q = Head(Own)
      \/ \E i \in 1 .. Len(mounts) : q = [mounts[i] EXCEPT !.guest = Shown(@)]
  BY <1>1 DEF Rows, DefaultRows, ProjectRow
<1>3. ASSUME NEW i \in 1 .. Len(mounts), q = [mounts[i] EXCEPT !.guest = Shown(@)]
      PROVE  q.guest = Shown(mounts[i].guest)
  BY <1>3, RowOfSpec
<1> QED
  BY <1>2, <1>3

\* The path of a row, and what is made of it in the home directory.
LEMMA PathOfRow ==
  ASSUME mounts \in Seq(Mount), NEW q \in Rows
  PROVE  /\ q.guest \in Path /\ Mountable(q.guest) \in Path
         /\ IsPrefix(Home, q.guest) /\ q.guest # Home =>
              /\ Rel(q.guest) \in Seq(Word) /\ Rel(q.guest) # <<>>
              /\ \/ q = ProjectRow
                 \/ \E k \in 1 .. Len(Inject(mounts)) :
                      /\ InHome(Inject(mounts)[k].guest)
                      /\ Rel(Inject(mounts)[k].guest) = Rel(q.guest)
<1> DEFINE specs == Inject(mounts)
<1>1. CASE q = Head(Own)
  <2>1. q.guest = MiseDir /\ Mountable(MiseDir) = MiseDir
    BY <1>1, DefaultShares
  <2> QED
    BY <2>1, Places, PlacesApart
<1>2. CASE q = ProjectRow
  <2>1. q.guest = Home \o <<Project>>
    BY <1>2 DEF ProjectRow
  <2>2. <<Project>> # <<>> /\ <<Project>> \in Seq(Word)
    BY RawTypes
  <2> QED
    BY <1>2, <2>1, <2>2, ProjectIsShown
<1>3. ASSUME NEW i \in 1 .. Len(mounts), q.guest = Shown(mounts[i].guest)
      PROVE  /\ q.guest \in Path /\ Mountable(q.guest) \in Path
             /\ IsPrefix(Home, q.guest) /\ q.guest # Home =>
                  /\ Rel(q.guest) \in Seq(Word) /\ Rel(q.guest) # <<>>
                  /\ \E k \in 1 .. Len(specs) :
                       InHome(specs[k].guest) /\ Rel(specs[k].guest) = Rel(q.guest)
  <2> DEFINE g == mounts[i].guest
  <2>1. g \in Path
    BY RawTypes, ElementOfSeq DEF RawSpec
  <2>2. PICK k \in 1 .. Len(specs) : specs[k] = mounts[i]
    BY InjectedSpecs
  <2>3. specs[k].guest = g
    BY <2>2
  <2> HIDE DEF g, specs
  <2>4. q.guest = Shown(g)
    BY <1>3 DEF g
  <2>5. /\ Mountable(Shown(g)) \in Path /\ ~ IsPrefix(Home, Mountable(Shown(g)))
        /\ InHome(g) => /\ Rel(g) \in Seq(Word) /\ Shown(g) = Home \o Rel(g)
                        /\ Rel(Shown(g)) = Rel(g)
        /\ ~ InHome(g) => Shown(g) = Mountable(Shown(g))
    BY <2>1, ShownIsMounted
  <2>6. CASE ~ InHome(g)
    BY <2>4, <2>5, <2>6
  <2>7. CASE InHome(g)
    <3>1. q.guest \in Path
      <4>1. \A u \in Seq(Word) : Home \o u \in Path
        BY Places, PutBelow
      <4> QED
        BY <2>4, <2>5, <2>7, <4>1, Zenon
    <3>2. Rel(q.guest) = Rel(g) /\ q.guest = Home \o Rel(g) /\ Rel(g) \in Seq(Word)
      BY <2>4, <2>5, <2>7
    <3>3. ASSUME Rel(g) = <<>> PROVE q.guest = Home
      <4>1. Home \in Seq(Word)
        BY Places DEF Path
      <4>2. Home \o <<>> = Home
        BY <4>1, ConcatEmptySeq
      <4> QED
        BY <3>2, <3>3, <4>2
    <3> QED
      BY <2>3, <2>4, <2>5, <2>7, <3>1, <3>2, <3>3
  <2> QED
    BY <2>6, <2>7
<1> HIDE DEF specs
<1>4. ASSUME NEW i \in 1 .. Len(mounts), q = [mounts[i] EXCEPT !.guest = Shown(@)],
             q.guest = Shown(mounts[i].guest)
      PROVE  /\ q.guest \in Path /\ Mountable(q.guest) \in Path
             /\ IsPrefix(Home, q.guest) /\ q.guest # Home =>
                  /\ Rel(q.guest) \in Seq(Word) /\ Rel(q.guest) # <<>>
                  /\ \E k \in 1 .. Len(specs) :
                       InHome(specs[k].guest) /\ Rel(specs[k].guest) = Rel(q.guest)
  BY <1>3, <1>4
<1> QED
  BY <1>1, <1>2, <1>4, RowsAre DEF specs

\* The names of the place of a row are the row's and those of Base.
LEMMA TypeableRow ==
  ASSUME NEW q, q.guest \in Path, Typeable(q)
  PROVE  Typeable(Placed(q))
<1> DEFINE u == SubSeq(q.guest, Len(Home) + 1, Len(q.guest))
<1>1. /\ q.guest \in Seq(Word) /\ Len(q.guest) \in Nat /\ DOMAIN q.guest = 1 .. Len(q.guest)
      /\ \A k \in 1 .. Len(q.guest) : q.guest[k] \notin Split
  BY LenProperties DEF Path, Typeable
<1>2. Placed(q).host = q.host /\ Placed(q).guest = Mountable(q.guest)
  BY DEF Placed
<1>3. CASE ~ IsPrefix(Home, q.guest)
  BY <1>2, <1>3 DEF Mountable, Typeable
<1>4. CASE IsPrefix(Home, q.guest)
  <2>1. /\ u \in Seq(Word) /\ Len(q.guest) = Len(Home) + Len(u)
        /\ \A i \in 1 .. Len(u) : u[i] = q.guest[Len(Home) + i]
        /\ Head(q.guest) = "/"
    BY <1>4, Places, TakeAway
  <2>2. Rel(q.guest) = u
    BY <2>1 DEF Rel
  <2> DEFINE b == Base \o u
  <2>3. Mountable(q.guest) = b
    BY <1>4, <2>2 DEF Mountable
  <2> HIDE DEF u
  <2>4. /\ b \in Path /\ Len(b) = Len(Base) + Len(u) /\ Len(u) \in Nat
        /\ \A i \in 1 .. Len(Base) : b[i] = Base[i]
        /\ \A i \in 1 .. Len(u) : b[Len(Base) + i] = u[i]
    BY <2>1, Places, PutBelow, LenProperties
  <2> HIDE DEF b
  <2>5. \A i \in 1 .. Len(u) : u[i] \notin Split
    <3>1. \A i \in 1 .. Len(u) : Len(Home) + i \in 1 .. Len(q.guest)
      BY <1>1, <2>1, <2>4, Places
    <3> QED
      BY <1>1, <2>1, <3>1
  <2>6. Len(Base) = 4 /\ \A i \in 1 .. 4 : Base[i] \notin Split
    BY WordAssumption DEF Base
  <2>7. ASSUME NEW i \in 1 .. Len(b) PROVE b[i] \notin Split
    <3>1. CASE i \in 1 .. Len(Base)
      BY <2>4, <2>6, <3>1
    <3>2. CASE i \notin 1 .. Len(Base)
      <4>1. i - Len(Base) \in 1 .. Len(u) /\ Len(Base) + (i - Len(Base)) = i
        BY <2>4, <2>6, <3>2
      <4> QED
        BY <2>4, <2>5, <4>1
    <3> QED
      BY <3>1, <3>2
  <2>8. DOMAIN b = 1 .. Len(b)
    BY <2>4, LenProperties DEF Path
  <2> QED
    BY <1>2, <2>3, <2>7, <2>8 DEF Typeable
<1> QED
  BY <1>3, <1>4

-----------------------------------------------------------------------------
(***************************************************************************)
(* Which share decides the mode of a host, and which mount a path.         *)
(***************************************************************************)
Entry == [guest : Path, host : Host \cup {"mise", ".vibebox"}]

LEMMA LastOfHost ==
  ASSUME shares \in Seq(Shared), NEW j \in 1 .. Len(shares)
  PROVE  \E k \in 1 .. Len(shares) :
           /\ k >= j /\ shares[k].host = shares[j].host
           /\ Mode(shares[j].host) = shares[k].mode
<1> DEFINE T == {i \in 1 .. Len(shares) : shares[i].host = shares[j].host}
<1>1. Len(shares) \in Nat
  BY LenProperties
<1>2. T # {} /\ j \in T /\ T \in SUBSET (1 .. Len(shares))
  OBVIOUS
<1>3. Mode(shares[j].host) = shares[Max(T)].mode
  BY <1>2 DEF Mode, SelectLastInSeq
<1>4. Max(T) \in T /\ \A y \in T : Max(T) >= y
  <2> HIDE DEF T
  <2> QED
    BY <1>1, <1>2, MaxOfNumbers
<1> DEFINE k == Max(T)
<1>5. k \in 1 .. Len(shares) /\ shares[k].host = shares[j].host /\ k >= j
  BY <1>2, <1>4
<1> QED
  BY <1>3, <1>5

LEMMA MountOfPath ==
  ASSUME table \in Seq(Entry), NEW path \in Path
  PROVE  \/ /\ Resolve(path) = GuestsOwn
            /\ \A i \in 1 .. Len(table) : ~ IsPrefix(table[i].guest, path)
         \/ \E i \in 1 .. Len(table) :
              /\ IsPrefix(table[i].guest, path)
              /\ Resolve(path) =
                   [host |-> table[i].host,
                    rest |-> SubSeq(path, Len(table[i].guest) + 1, Len(path)),
                    mode |-> Mode(table[i].host)]
<1> DEFINE T == {i \in 1 .. Len(table) : IsPrefix(table[i].guest, path)}
<1>1. Len(table) \in Nat
  BY LenProperties
<1>2. CASE T = {}
  BY <1>2 DEF Resolve, SelectLastInSeq, Covers
<1>3. CASE T # {}
  <2>1. T \in SUBSET (1 .. Len(table))
    OBVIOUS
  <2>2. Max(T) \in T
    <3> HIDE DEF T
    <3> QED
      BY <1>1, <1>3, <2>1, MaxOfNumbers
  <2>3. SelectLastInSeq(table, LAMBDA e : Covers(e, path)) = Max(T)
    BY <1>3 DEF SelectLastInSeq, Covers
  <2> DEFINE i == Max(T)
  <2>4. i \in 1 .. Len(table) /\ IsPrefix(table[i].guest, path) /\ i # 0
    BY <2>2
  <2>5. Resolve(path) = [host |-> table[i].host,
                         rest |-> SubSeq(path, Len(table[i].guest) + 1, Len(path)),
                         mode |-> Mode(table[i].host)]
    BY <2>3, <2>4 DEF Resolve
  <2> HIDE DEF i
  <2> QED
    BY <2>4, <2>5
<1> QED
  BY <1>2, <1>3

\* Nothing of a path is left below itself.
LEMMA NothingLeft ==
  ASSUME NEW path \in Path
  PROVE  SubSeq(path, Len(path) + 1, Len(path)) = <<>>
<1>1. path \in Seq(Word) /\ Len(path) \in Nat
  BY LenProperties DEF Path
<1> DEFINE u == SubSeq(path, Len(path) + 1, Len(path))
<1>2. u \in Seq(Word) /\ Len(u) = 0
  <2>1. ASSUME NEW i \in Len(path) + 1 .. Len(path) PROVE path[i] \in Word
    BY <1>1
  <2>2. Len(path) + 1 \in Int /\ Len(path) \in Int /\ ~ (Len(path) + 1 <= Len(path))
    BY <1>1
  <2> QED
    BY <1>1, <2>1, <2>2, SubSeqProperties
<1> HIDE DEF u
<1>3. u = <<>>
  BY <1>2, EmptySeq
<1> QED
  BY <1>3 DEF u

LEMMA SuffixOf ==
  ASSUME NEW S, NEW s \in Seq(S), NEW t \in Seq(S), Len(s) <= Len(t),
         \A i \in 1 .. Len(s) : s[i] = t[Len(t) - Len(s) + i]
  PROVE  IsSuffix(s, t)
<1>1. Len(s) \in Nat /\ Len(t) \in Nat
  BY LenProperties
<1>2. ASSUME NEW u \in Seq(S)
      PROVE  /\ Reverse(u) \in Seq(S) /\ Len(Reverse(u)) = Len(u)
             /\ \A i \in 1 .. Len(u) : Reverse(u)[i] = u[Len(u) - i + 1]
  <2>1. Len(u) \in Nat
    BY LenProperties
  <2>2. \A i \in 1 .. Len(u) : Len(u) - i + 1 \in 1 .. Len(u)
    BY <2>1
  <2>3. \A i \in 1 .. Len(u) : u[Len(u) - i + 1] \in S
    BY <2>2, ElementOfSeq
  <2> QED
    BY <2>1, <2>3 DEF Reverse
<1> DEFINE a == Reverse(s)
           b == Reverse(t)
<1>3. a \in Seq(S) /\ b \in Seq(S) /\ Len(a) = Len(s) /\ Len(b) = Len(t)
  BY <1>2
<1>4. /\ \A i \in 1 .. Len(s) : a[i] = s[Len(s) - i + 1]
      /\ \A i \in 1 .. Len(t) : b[i] = t[Len(t) - i + 1]
  BY <1>2
<1> HIDE DEF a, b
<1>5. ASSUME NEW i \in 1 .. Len(s) PROVE a[i] = b[i]
  <2>1. /\ i \in 1 .. Len(t) /\ Len(s) - i + 1 \in 1 .. Len(s)
        /\ Len(t) - Len(s) + (Len(s) - i + 1) = Len(t) - i + 1
    BY <1>1
  <2> QED
    BY <1>4, <2>1
<1>6. IsPrefix(a, b)
  BY <1>3, <1>5, PrefixOf
<1> QED
  BY <1>6 DEF a, b, IsSuffix

-----------------------------------------------------------------------------
(***************************************************************************)
(* The invariant: where the start of the machine is decides what shares,   *)
(* todo and table hold; each share that was gone through is mounted, below *)
(* one that is, or one of those that cannot be; and each path whose link   *)
(* was made is led through one, unless something else was there or a       *)
(* program has come between.                                               *)
(***************************************************************************)
Sharing == vm \in {"sharing", "linking", "unreachable", "running"}
Done    == Len(shares) - Len(todo)

Config ==
  /\ mounts \in Seq(Mount \cup {Malformed}) /\ Len(mounts) <= MaxMounts
  /\ host \in [Host -> {"dir", "file", "none"}] /\ colon \in BOOLEAN
  /\ vm \in {"off", "refused", "loaded", "failed", "panicked", "sharing",
             "linking", "unreachable", "running"}
  /\ home \in [HomePaths -> {"none", "dir", "file", "link"}] /\ touched \subseteq HomePaths
  /\ linked \in Nat

Start ==
  /\ vm \notin {"off", "refused"} => mounts \in Seq(Mount)
  /\ vm \in {"off", "refused", "loaded"} => shares = <<>> /\ todo = <<>>
  /\ vm \notin {"off", "refused", "loaded"} => shares = Shares(mounts)
  /\ vm \in {"linking", "unreachable", "running"} => todo = <<>> /\ linked <= Len(Inject(mounts))
  /\ vm \notin {"linking", "unreachable", "running"} => linked = 0
  /\ ~ Sharing => table = <<>>

Queue ==
  /\ shares \in Seq(Shared) /\ todo \in Seq(Shared) /\ Len(todo) <= Len(shares)
  /\ \A j \in 1 .. Len(todo) : todo[j] = shares[Done + j]

Table ==
  /\ table \in Seq(Entry)
  /\ \A i \in 1 .. Len(table) : \E j \in 1 .. Len(shares) :
       j <= Done /\ table[i] = [guest |-> shares[j].guest, host |-> shares[j].host]

\* A share that cannot be mounted, or not after one before it.
Lost(j) ==
  \/ ~ Typeable(shares[j])
  \/ IsStrictPrefix(Staging, shares[j].guest)
  \/ \E k \in 1 .. Len(shares) : \E f \in System \cup {Staging} :
       k < j /\ IsPrefix(shares[k].guest, f)

Mounted ==
  Sharing =>
    \A j \in 1 .. Len(shares) :
      j <= Done => \/ Lost(j)
                   \/ \E i \in 1 .. Len(table) : IsPrefix(table[i].guest, shares[j].guest)

\* The path is led through a link, or something is there.
Led(rel) == Through(rel) \/ home[rel] # "none"

Linked ==
  /\ vm \in {"linking", "running"} =>
       \A i \in 1 .. Len(Inject(mounts)) :
         LET guest == Inject(mounts)[i].guest
         IN  i <= linked /\ InHome(guest) /\ Rel(guest) # <<>>
             /\ (\A p \in touched : ~ IsPrefix(p, Rel(guest)))
             => Led(Rel(guest))
  /\ vm = "running" /\ ~ Hidden => linked = Len(Inject(mounts))

IInv == Config /\ Start /\ Queue /\ Table /\ Mounted /\ Linked /\ SshIsSetUp

-----------------------------------------------------------------------------
(***************************************************************************)
(* What follows from the invariant.                                        *)
(***************************************************************************)
\* A path that one host's share alone covers shows that host.
LEMMA CoveredPath ==
  ASSUME Queue, Table, Mounted, Sharing, todo = <<>>,
         NEW path \in Path, NEW j \in 1 .. Len(shares), shares[j].guest = path, ~ Lost(j),
         \A k \in 1 .. Len(shares) :
           IsPrefix(shares[k].guest, path) =>
             shares[k].guest = path /\ shares[k].host = shares[j].host
  PROVE  Resolve(path) = [host |-> shares[j].host, rest |-> <<>>,
                          mode |-> Mode(shares[j].host)]
<1>1. j <= Done
  <2>1. Len(shares) \in Nat
    BY LenProperties DEF Queue
  <2>2. Len(<<>>) = 0
    OBVIOUS
  <2>3. Done = Len(shares)
    BY <2>1, <2>2 DEF Done
  <2> QED
    BY <2>1, <2>3
<1>2. PICK i \in 1 .. Len(table) : IsPrefix(table[i].guest, path)
  BY <1>1 DEF Mounted
<1>3. ASSUME NEW m \in 1 .. Len(table), IsPrefix(table[m].guest, path)
      PROVE  table[m].guest = path /\ table[m].host = shares[j].host
  <2>1. PICK k \in 1 .. Len(shares) :
          table[m] = [guest |-> shares[k].guest, host |-> shares[k].host]
    BY DEF Table
  <2>2. table[m].guest = shares[k].guest /\ table[m].host = shares[k].host
    BY <2>1
  <2> QED
    BY <1>3, <2>2
<1>4. PICK m \in 1 .. Len(table) :
        /\ IsPrefix(table[m].guest, path)
        /\ Resolve(path) =
             [host |-> table[m].host,
              rest |-> SubSeq(path, Len(table[m].guest) + 1, Len(path)),
              mode |-> Mode(table[m].host)]
  BY <1>2, MountOfPath DEF Table
<1>5. table[m].guest = path /\ table[m].host = shares[j].host
  BY <1>3, <1>4
<1>6. SubSeq(path, Len(path) + 1, Len(path)) = <<>>
  BY NothingLeft
<1> QED
  BY <1>4, <1>5, <1>6

LEMMA BaseCoversItself == IsPrefix(Base \o <<Project>>, Base \o <<Project>>)
<1>1. Base \o <<Project>> \in Seq(Word)
  BY ProjectIsShown DEF Path
<1> QED
  BY <1>1, PrefixReflexive

LEMMA RowIsShared ==
  ASSUME mounts \in Seq(Mount), NEW r \in Rows, Clear(r)
  PROVE  \E j \in 1 .. Len(Shares(mounts)) : j # 2 /\ Shares(mounts)[j] = Placed(r)
<1>1. CASE r = ProjectRow /\ \E i \in 1 .. Len(mounts) : mounts[i].guest \in AtProject
  <2>1. PICK i \in 1 .. Len(mounts) : mounts[i].guest \in AtProject
    BY <1>1
  <2> DEFINE q == [mounts[i] EXCEPT !.guest = Shown(@)]
  <2>2. q \in Rows /\ Mountable(q.guest) = Base \o <<Project>>
    BY <2>1, RowAtProject
  <2>3. Mountable(r.guest) = Base \o <<Project>>
    BY <1>1, ProjectIsShown DEF ProjectRow
  <2>4. IsPrefix(Base \o <<Project>>, Base \o <<Project>>)
    BY BaseCoversItself
  <2>5. q = r
    <3> HIDE DEF q
    <3> QED
      BY <2>2, <2>3, <2>4 DEF Clear
  <2>6. Rewrite(mounts[i]) = Placed(r)
    BY <2>5, RowOfSpec
  <2>7. PICK k \in 1 .. Len(Inject(mounts)) : Inject(mounts)[k] = mounts[i]
    BY InjectedSpecs
  <2>8. /\ Shares(mounts)[k + 2] = Rewrite(Inject(mounts)[k])
        /\ Len(Shares(mounts)) = Len(Inject(mounts)) + 2
        /\ Len(Inject(mounts)) \in Nat
    BY SharesOfSpecs, InjectedSpecs, LenProperties
  <2>9. k + 2 \in 1 .. Len(Shares(mounts)) /\ k + 2 # 2
    BY <2>8
  <2> QED
    BY <2>6, <2>7, <2>8, <2>9
<1>2. CASE ~ (r = ProjectRow /\ \E i \in 1 .. Len(mounts) : mounts[i].guest \in AtProject)
  BY <1>2, RowsAreShared
<1> QED
  BY <1>1, <1>2

\* The tools and the key cover nothing that the commands need.
LEMMA OwnHideNothing ==
  \A f \in System \cup {Staging} : ~ IsPrefix(MiseDir, f) /\ ~ IsPrefix(KeyDir, f)
BY SystemAssumption, PlacesApart

\* With a clear row no share covers what the commands need.
LEMMA ClearHidesNothing ==
  ASSUME mounts \in Seq(Mount), shares = Shares(mounts), NEW r \in Rows, Clear(r)
  PROVE  \A k \in 1 .. Len(shares) : \A f \in System \cup {Staging} :
           ~ IsPrefix(shares[k].guest, f)
<1> SUFFICES ASSUME NEW k \in 1 .. Len(shares), NEW f \in System \cup {Staging}
             PROVE  ~ IsPrefix(shares[k].guest, f)
  OBVIOUS
<1>1. CASE k = 2
  BY <1>1, SharesOfSpecs, OwnShares, OwnHideNothing
<1>2. CASE k # 2
  <2>1. PICK q \in Rows : shares[k] = Placed(q)
    BY <1>2, SharesAreRows
  <2>2. shares[k].guest = Mountable(q.guest)
    BY <2>1 DEF Placed
  <2>3. ~ IsPrefix(Mountable(q.guest), f)
    BY DEF Clear
  <2> QED
    BY <2>2, <2>3
<1> QED
  BY <1>1, <1>2

LEMMA ClearIsMounted ==
  ASSUME IInv, vm = "running", NEW r \in Rows, Clear(r)
  PROVE  Resolve(Mountable(r.guest)) = [host |-> r.host, rest |-> <<>>, mode |-> r.mode]
<1> DEFINE path == Mountable(r.guest)
<1>1. mounts \in Seq(Mount) /\ shares = Shares(mounts) /\ todo = <<>> /\ Sharing
  BY DEF IInv, Start, Sharing
<1>2. Queue /\ Table /\ Mounted /\ shares \in Seq(Shared) /\ Len(shares) \in Nat
  BY LenProperties DEF IInv, Queue
<1>3. /\ path \in Path /\ ~ IsPrefix(KeyDir, path) /\ ~ IsPrefix(Staging, path)
      /\ r.guest \in Path
  BY <1>1, PathOfRow DEF Clear
<1>4. PICK j \in 1 .. Len(shares) : j # 2 /\ shares[j] = Placed(r)
  BY <1>1, RowIsShared
<1>5. shares[j].host = r.host /\ shares[j].guest = path /\ shares[j].mode = r.mode
  BY <1>4 DEF Placed
<1>6. /\ Len(shares) = Len(Inject(mounts)) + 2 /\ shares[1] = Own[1] /\ shares[2] = Own[2]
      /\ Len(Inject(mounts)) \in Nat
  BY <1>1, SharesOfSpecs, InjectedSpecs, LenProperties
<1>7. \A k \in 1 .. Len(shares) : k # 2 => \E q \in Rows : shares[k] = Placed(q)
  BY <1>1, SharesAreRows
<1>8. ASSUME NEW k \in 1 .. Len(shares), IsPrefix(shares[k].guest, path)
      PROVE  shares[k].guest = path /\ shares[k].host = shares[j].host
  <2>1. k # 2
    BY <1>3, <1>6, <1>8, OwnShares
  <2>2. PICK q \in Rows : shares[k] = Placed(q)
    BY <1>7, <2>1
  <2>3. shares[k].guest = Mountable(q.guest)
    BY <2>2 DEF Placed
  <2>4. q = r
    BY <1>8, <2>3 DEF Clear
  <2> QED
    BY <1>4, <1>5, <2>2, <2>4
<1> HIDE DEF path
<1>9. Resolve(path) = [host |-> r.host, rest |-> <<>>, mode |-> Mode(r.host)]
  <2>1. ~ Lost(j)
    <3>1. Typeable(Placed(r))
      BY <1>3, TypeableRow DEF Clear
    <3>2. \A k \in 1 .. Len(shares) : \A f \in System \cup {Staging} :
            ~ IsPrefix(shares[k].guest, f)
      BY <1>1, ClearHidesNothing
    <3> QED
      BY <1>3, <1>4, <1>5, <3>1, <3>2 DEF Lost, IsStrictPrefix
  <2>2. Resolve(path) = [host |-> shares[j].host, rest |-> <<>>,
                         mode |-> Mode(shares[j].host)]
    BY <1>1, <1>2, <1>3, <1>5, <1>8, <2>1, CoveredPath
  <2> QED
    BY <1>5, <2>2
<1>10. Mode(r.host) = r.mode
  <2>1. PICK k \in 1 .. Len(shares) :
          k >= j /\ shares[k].host = r.host /\ Mode(r.host) = shares[k].mode
    <3>1. \E k \in 1 .. Len(shares) :
            /\ k >= j /\ shares[k].host = shares[j].host
            /\ Mode(shares[j].host) = shares[k].mode
      BY <1>2, LastOfHost
    <3> QED
      BY <1>5, <3>1
  <2>2. k # 2
    <3>1. CASE j = 1
      BY <1>5, <1>6, <2>1, <3>1, OwnShares
    <3>2. CASE j # 1
      BY <1>2, <1>4, <2>1, <3>2
    <3> QED
      BY <3>1, <3>2
  <2>3. PICK q \in Rows : shares[k] = Placed(q)
    BY <1>7, <2>2
  <2>4. q.host = r.host /\ shares[k].mode = q.mode
    BY <2>1, <2>3 DEF Placed
  <2>5. q.mode = r.mode
    BY <2>4 DEF Clear
  <2> QED
    BY <2>1, <2>4, <2>5
<1> QED
  BY <1>9, <1>10 DEF path

\* With a clear row nothing is hidden.
LEMMA ClearIsNotHidden ==
  ASSUME IInv, vm = "running", NEW r \in Rows, Clear(r)
  PROVE  ~ Hidden
<1>1. mounts \in Seq(Mount) /\ shares = Shares(mounts)
  BY DEF IInv, Start
<1>2. DOMAIN table = 1 .. Len(table)
  BY LenProperties DEF IInv, Table
<1>3. \A k \in 1 .. Len(shares) : \A f \in System \cup {Staging} :
        ~ IsPrefix(shares[k].guest, f)
  BY <1>1, ClearHidesNothing
<1>4. ASSUME NEW i \in 1 .. Len(table), NEW f \in System PROVE ~ Covers(table[i], f)
  <2>1. PICK j \in 1 .. Len(shares) :
          table[i] = [guest |-> shares[j].guest, host |-> shares[j].host]
    BY DEF IInv, Table
  <2>2. table[i].guest = shares[j].guest
    BY <2>1
  <2> QED
    BY <1>3, <2>2 DEF Covers
<1> QED
  BY <1>2, <1>4 DEF Hidden

\* The path of a clear row in the home directory is one of a spec.
LEMMA ClearIsASpec ==
  ASSUME mounts \in Seq(Mount), NEW r \in Rows, Clear(r), IsPrefix(Home, r.guest)
  PROVE  \E k \in 1 .. Len(Inject(mounts)) :
           /\ InHome(Inject(mounts)[k].guest)
           /\ Rel(Inject(mounts)[k].guest) = Rel(r.guest)
<1> DEFINE specs == Inject(mounts)
<1>1. r.guest # Home
  BY DEF Clear
<1>2. CASE r # ProjectRow
  BY <1>1, <1>2, PathOfRow
<1>3. CASE r = ProjectRow
  <2>1. r.guest = Home \o <<Project>> /\ Rel(r.guest) = <<Project>>
    BY <1>3, ProjectIsShown DEF ProjectRow
  <2>2. ASSUME NEW k \in 1 .. Len(specs), specs[k] = ProjectSpec
        PROVE  InHome(specs[k].guest) /\ Rel(specs[k].guest) = <<Project>>
    <3>1. specs[k].guest = <<"~", Project>>
      BY <2>2 DEF ProjectSpec
    <3> QED
      BY <3>1, ProjectIsShown
  <2>3. ASSUME NEW i \in 1 .. Len(mounts), mounts[i].guest \in AtProject
        PROVE  \E k \in 1 .. Len(specs) :
                 InHome(specs[k].guest) /\ Rel(specs[k].guest) = <<Project>>
    <3> DEFINE q == [mounts[i] EXCEPT !.guest = Shown(@)]
    <3>1. q \in Rows /\ Mountable(q.guest) = Base \o <<Project>>
      BY <2>3, RowAtProject
    <3>2. Mountable(r.guest) = Base \o <<Project>>
      BY <2>1, ProjectIsShown
    <3>3. q = r
      <4> HIDE DEF q
      <4> QED
        BY <3>1, <3>2, BaseCoversItself DEF Clear
    <3>4. r.guest = Shown(mounts[i].guest)
      BY <3>3, RowOfSpec
    <3>5. mounts[i].guest # Base \o <<Project>>
      BY <2>1, <3>4, ProjectIsShown
    <3>6. mounts[i].guest \in {<<"~", Project>>, Home \o <<Project>>}
      BY <2>3, <3>5 DEF AtProject
    <3>7. InHome(mounts[i].guest) /\ Rel(mounts[i].guest) = <<Project>>
      BY <3>6, ProjectIsShown
    <3>8. PICK k \in 1 .. Len(specs) : specs[k] = mounts[i]
      BY InjectedSpecs
    <3> HIDE DEF specs
    <3> QED
      BY <3>7, <3>8
  <2>4. \/ \E k \in 1 .. Len(specs) : specs[k] = ProjectSpec
        \/ \E i \in 1 .. Len(mounts) : mounts[i].guest \in AtProject
    BY InjectedSpecs
  <2> HIDE DEF specs
  <2>5. \E k \in 1 .. Len(specs) :
          InHome(specs[k].guest) /\ Rel(specs[k].guest) = <<Project>>
    BY <2>2, <2>3, <2>4
  <2> QED
    BY <2>1, <2>5 DEF specs
<1> QED
  BY <1>2, <1>3

LEMMA ExplainedIsSeen ==
  ASSUME IInv
  PROVE  ExplainTellsTruth
<1> SUFFICES ASSUME vm = "running", NEW r \in Rows, Clear(r)
             PROVE  See(r.guest) = [host |-> r.host, rest |-> <<>>, mode |-> r.mode]
  BY DEF ExplainTellsTruth
<1>1. mounts \in Seq(Mount)
  BY DEF IInv, Start
<1>2. Resolve(Mountable(r.guest)) = [host |-> r.host, rest |-> <<>>, mode |-> r.mode]
  BY ClearIsMounted
<1>3. CASE ~ IsPrefix(Home, r.guest)
  BY <1>2, <1>3 DEF Mountable, See
<1>4. CASE IsPrefix(Home, r.guest)
  <2> DEFINE rel == Rel(r.guest)
             specs == Inject(mounts)
  <2>1. /\ rel \in Seq(Word) /\ rel # <<>> /\ home[rel] \notin {"dir", "file"}
        /\ \A p \in touched : ~ IsPrefix(p, rel)
    BY <1>1, <1>4, PathOfRow DEF Clear
  <2>2. PICK k \in 1 .. Len(specs) : InHome(specs[k].guest) /\ Rel(specs[k].guest) = rel
    BY <1>1, <1>4, ClearIsASpec
  <2>3. Led(rel)
    <3>1. linked = Len(specs) /\ Len(specs) \in Nat
      BY <1>1, ClearIsNotHidden, InjectedSpecs, LenProperties DEF IInv, Linked
    <3>2. k <= linked
      BY <3>1
    <3> HIDE DEF rel
    <3> QED
      BY <2>1, <2>2, <3>2, Zenon DEF IInv, Linked
  <2>4. rel \in HomePaths
    <3>1. specs[k] \in Mount \cup {ProjectSpec}
      <4>1. specs[k] = ProjectSpec \/ \E i \in 1 .. Len(mounts) : specs[k] = mounts[i]
        BY <1>1, InjectedSpecs
      <4> HIDE DEF specs
      <4> QED
        BY <1>1, <4>1, ElementOfSeq
    <3> QED
      BY <2>1, <2>2, <3>1, PlacesInHome
  <2>5. Through(rel)
    <3>1. home[rel] \in {"none", "dir", "file", "link"}
      BY <2>4 DEF IInv, Config
    <3>2. IsPrefix(rel, rel)
      BY <2>1, PrefixReflexive
    <3> HIDE DEF rel
    <3> QED
      BY <2>1, <2>3, <2>4, <3>1, <3>2 DEF Led, Through
  <2>6. See(r.guest) = Resolve(Base \o rel)
    BY <1>4, <2>5 DEF See
  <2>7. Mountable(r.guest) = Base \o rel
    BY <1>4 DEF Mountable
  <2> QED
    BY <1>2, <2>6, <2>7
<1> QED
  BY <1>3, <1>4

LEMMA WrittenIsDeclared ==
  ASSUME IInv
  PROVE  WritableIsDeclared
<1> SUFFICES ASSUME NEW i \in 1 .. Len(table), Mode(table[i].host) = "rw"
             PROVE  \/ table[i].host \in {Project, "mise"}
                    \/ \E j \in DOMAIN mounts :
                         mounts[j].host = table[i].host /\ mounts[j].mode = "rw"
  <2>1. DOMAIN table = 1 .. Len(table)
    BY LenProperties DEF IInv, Table
  <2> QED
    BY <2>1 DEF WritableIsDeclared
<1>1. Sharing
  <2>1. CASE ~ Sharing
    <3>1. table = <<>>
      BY <2>1 DEF IInv, Start
    <3>2. Len(<<>>) = 0
      OBVIOUS
    <3> QED
      BY <3>1, <3>2
  <2> QED
    BY <2>1
<1>2. mounts \in Seq(Mount) /\ shares = Shares(mounts)
  BY <1>1 DEF IInv, Start, Sharing
<1>3. shares \in Seq(Shared) /\ Len(shares) \in Nat
  BY LenProperties DEF IInv, Queue
<1> DEFINE all == Inject(mounts)
<1>4. /\ Len(shares) = Len(all) + 2 /\ shares[1] = Own[1] /\ shares[2] = Own[2]
      /\ \A k \in 1 .. Len(all) : shares[k + 2] = Rewrite(all[k])
      /\ Len(all) \in Nat
  BY <1>2, SharesOfSpecs, InjectedSpecs, LenProperties
<1>5. PICK e \in 1 .. Len(shares) : table[i].host = shares[e].host
  <2>1. PICK e \in 1 .. Len(shares) :
          table[i] = [guest |-> shares[e].guest, host |-> shares[e].host]
    BY DEF IInv, Table
  <2> QED
    BY <2>1
<1>6. PICK k \in 1 .. Len(shares) : shares[k].host = table[i].host /\ shares[k].mode = "rw"
  <2>1. PICK k \in 1 .. Len(shares) :
          shares[k].host = shares[e].host /\ Mode(shares[e].host) = shares[k].mode
    BY <1>3, LastOfHost
  <2>2. Mode(shares[e].host) = "rw"
    BY <1>5, Zenon
  <2> QED
    BY <1>5, <2>1, <2>2
<1>7. CASE k = 1
  BY <1>4, <1>6, <1>7, OwnShares
<1>8. CASE k = 2
  BY <1>4, <1>6, <1>8, OwnShares
<1>9. ASSUME NEW l \in 1 .. Len(all), k = l + 2
      PROVE  \/ table[i].host = Project
             \/ \E j \in DOMAIN mounts :
                  mounts[j].host = table[i].host /\ mounts[j].mode = "rw"
  <2>1. /\ all[l] \in RawSpec
        /\ all[l] = ProjectSpec \/ \E j \in 1 .. Len(mounts) : all[l] = mounts[j]
    BY <1>2, InjectedSpecs, ElementOfSeq
  <2>2. Rewrite(all[l]).host = all[l].host /\ Rewrite(all[l]).mode = all[l].mode
    BY <2>1, RewrittenSpec
  <2>3. all[l].host = table[i].host /\ all[l].mode = "rw"
    BY <1>4, <1>6, <1>9, <2>2
  <2>4. ProjectSpec.host = Project
    BY DEF ProjectSpec
  <2>5. DOMAIN mounts = 1 .. Len(mounts)
    BY <1>2, LenProperties
  <2> HIDE DEF all
  <2> QED
    BY <2>1, <2>3, <2>4, <2>5
<1>10. k = 1 \/ k = 2 \/ (k - 2 \in 1 .. Len(all) /\ k = (k - 2) + 2)
  BY <1>4
<1> HIDE DEF all
<1> QED
  BY <1>7, <1>8, <1>9, <1>10

\* The shares are the tools', the key's and those of the specs.
LEMMA SharesAreSpecs ==
  ASSUME mounts \in Seq(Mount), NEW k \in 1 .. Len(Shares(mounts))
  PROVE  \/ k = 1 /\ Shares(mounts)[k].guest = MiseDir
         \/ k = 2 /\ Shares(mounts)[k].guest = KeyDir
         \/ \E l \in DOMAIN Inject(mounts) :
              Shares(mounts)[k].guest = Mountable(Shown(Inject(mounts)[l].guest))
<1> DEFINE all == Inject(mounts)
           made == Shares(mounts)
<1>1. /\ Len(made) = Len(all) + 2 /\ made[1] = Own[1] /\ made[2] = Own[2]
      /\ \A l \in 1 .. Len(all) : made[l + 2] = Rewrite(all[l])
      /\ Len(all) \in Nat /\ DOMAIN all = 1 .. Len(all)
  BY SharesOfSpecs, InjectedSpecs, LenProperties
<1>2. ASSUME NEW l \in 1 .. Len(all), k = l + 2
      PROVE  made[k].guest = Mountable(Shown(all[l].guest))
  <2>1. all[l] \in RawSpec
    BY InjectedSpecs, ElementOfSeq
  <2> QED
    BY <1>1, <1>2, <2>1, RewrittenSpec
<1>3. k = 1 \/ k = 2 \/ (k - 2 \in 1 .. Len(all) /\ k = (k - 2) + 2)
  BY <1>1
<1> HIDE DEF all, made
<1>4. CASE k = 1
  BY <1>1, <1>4, OwnShares DEF made
<1>5. CASE k = 2
  BY <1>1, <1>5, OwnShares DEF made
<1>6. CASE k - 2 \in 1 .. Len(all) /\ k = (k - 2) + 2
  BY <1>1, <1>2, <1>6 DEF all, made
<1> QED
  BY <1>3, <1>4, <1>5, <1>6

\* What is mounted is one of the shares.
LEMMA MountedShare ==
  ASSUME Start, Table, Sharing, NEW i \in 1 .. Len(table)
  PROVE  \/ table[i].guest \in {MiseDir, KeyDir}
         \/ \E l \in DOMAIN Inject(mounts) :
              table[i].guest = Mountable(Shown(Inject(mounts)[l].guest))
<1>1. mounts \in Seq(Mount) /\ shares = Shares(mounts)
  BY DEF Start, Sharing
<1>2. PICK j \in 1 .. Len(shares) :
        table[i] = [guest |-> shares[j].guest, host |-> shares[j].host]
  BY DEF Table
<1>3. table[i].guest = shares[j].guest
  BY <1>2
<1> QED
  BY <1>1, <1>3, SharesAreSpecs

\* Only a spec hides what the commands need.
LEMMA HiddenBySpec ==
  ASSUME Start, Table, Sharing, Hidden
  PROVE  \E l \in DOMAIN Inject(mounts) : \E f \in System :
           IsPrefix(Mountable(Shown(Inject(mounts)[l].guest)), f)
<1>1. PICK i \in 1 .. Len(table), f \in System : IsPrefix(table[i].guest, f)
  BY LenProperties DEF Table, Hidden, Covers
<1>2. table[i].guest \notin {MiseDir, KeyDir}
  BY <1>1, OwnHideNothing
<1> QED
  BY <1>1, <1>2, MountedShare

\* Without a spec over its directory, or the files, the key is seen.
LEMMA KeyIsSeen ==
  ASSUME Start, Queue, Table, Mounted, Sharing, todo = <<>>,
         ~ \E l \in DOMAIN Inject(mounts) :
             IsPrefix(Mountable(Shown(Inject(mounts)[l].guest)), KeyDir)
  PROVE  See(KeyDir).host = ".vibebox"
<1>1. mounts \in Seq(Mount) /\ shares = Shares(mounts)
  BY DEF Start, Sharing
<1>2. /\ Len(shares) = Len(Inject(mounts)) + 2 /\ shares[1] = Own[1] /\ shares[2] = Own[2]
      /\ Len(Inject(mounts)) \in Nat
  BY <1>1, SharesOfSpecs, InjectedSpecs, LenProperties
<1>3. 2 \in 1 .. Len(shares) /\ shares[2].guest = KeyDir /\ shares[2].host = ".vibebox"
  BY <1>2, OwnShares
<1>4. KeyDir \in Path /\ ~ IsPrefix(MiseDir, KeyDir) /\ ~ IsPrefix(Home, KeyDir)
  BY Places, PlacesApart
<1>5. ASSUME NEW k \in 1 .. Len(shares), IsPrefix(shares[k].guest, KeyDir)
      PROVE  k = 2
  BY <1>1, <1>4, <1>5, SharesAreSpecs
<1>6. ~ Lost(2)
  <2>1. Typeable(shares[2])
    <3>1. DOMAIN KeyDir = 1 .. 3 /\ \A i \in 1 .. 3 : KeyDir[i] \notin Split
      BY WordAssumption DEF KeyDir
    <3> QED
      BY <1>3, <3>1, WordAssumption DEF Typeable
  <2>2. ~ IsStrictPrefix(Staging, shares[2].guest)
    BY <1>3, PlacesApart DEF IsStrictPrefix
  <2>3. ASSUME NEW k \in 1 .. Len(shares), NEW f \in System \cup {Staging}, k < 2
        PROVE  ~ IsPrefix(shares[k].guest, f)
    <3>1. k = 1
      BY <1>2, <2>3
    <3>2. shares[k].guest = MiseDir
      BY <1>2, <3>1, OwnShares
    <3> QED
      BY <3>2, OwnHideNothing
  <2> QED
    BY <2>1, <2>2, <2>3 DEF Lost
<1>7. Resolve(KeyDir) = [host |-> shares[2].host, rest |-> <<>>,
                         mode |-> Mode(shares[2].host)]
  BY <1>3, <1>4, <1>5, <1>6, CoveredPath
<1>8. See(KeyDir) = Resolve(KeyDir)
  BY <1>4 DEF See
<1> QED
  BY <1>3, <1>7, <1>8

\* A link that leads nowhere has a name that is taken apart, or another spec's
\* place above its own.
LEMMA WhyDangling ==
  ASSUME Start, Table, Sharing, NEW i \in DOMAIN Inject(mounts),
         InHome(Inject(mounts)[i].guest), Dangling(Rel(Inject(mounts)[i].guest))
  PROVE  \/ \E k \in DOMAIN Inject(mounts)[i].guest : Inject(mounts)[i].guest[k] \in Split
         \/ \E j \in DOMAIN Inject(mounts) :
              IsStrictPrefix(Mountable(Shown(Inject(mounts)[j].guest)),
                             Mountable(Shown(Inject(mounts)[i].guest)))
<1> DEFINE g == Inject(mounts)[i].guest
           rel == Rel(g)
           path == Base \o rel
<1>1. mounts \in Seq(Mount)
  BY DEF Start, Sharing
<1>2. g \in Path
  <2>1. Inject(mounts) \in Seq(RawSpec) /\ i \in 1 .. Len(Inject(mounts))
    BY <1>1, InjectedSpecs, LenProperties
  <2>2. Inject(mounts)[i] \in RawSpec
    BY <2>1, ElementOfSeq
  <2> QED
    BY <2>2 DEF RawSpec
<1>3. /\ rel \in Seq(Word) /\ Mountable(Shown(g)) = path /\ path \in Path
      /\ \A l \in 1 .. Len(rel) : \E k \in 1 .. Len(g) : rel[l] = g[k]
  BY <1>2, ShownIsMounted
<1>4. DOMAIN g = 1 .. Len(g) /\ DOMAIN rel = 1 .. Len(rel)
  BY <1>2, <1>3, LenProperties DEF Path
<1>5. CASE Resolve(path).host = "guest"
  <2>1. PICK l \in DOMAIN rel : rel[l] \in Split
    BY <1>5 DEF Dangling
  <2> QED
    BY <1>3, <1>4, <2>1
<1>6. CASE Resolve(path).host # "guest"
  <2>1. Resolve(path).rest # <<>>
    BY <1>6 DEF Dangling
  <2>2. GuestsOwn.rest = <<>>
    BY DEF GuestsOwn
  <2>3. PICK m \in 1 .. Len(table) :
          /\ IsPrefix(table[m].guest, path)
          /\ Resolve(path).rest = SubSeq(path, Len(table[m].guest) + 1, Len(path))
    <3> HIDE DEF path
    <3>1. \/ Resolve(path) = GuestsOwn
          \/ \E m \in 1 .. Len(table) :
               /\ IsPrefix(table[m].guest, path)
               /\ Resolve(path) =
                    [host |-> table[m].host,
                     rest |-> SubSeq(path, Len(table[m].guest) + 1, Len(path)),
                     mode |-> Mode(table[m].host)]
      BY <1>3, MountOfPath DEF Table
    <3>2. Resolve(path) # GuestsOwn
      BY <2>1, <2>2
    <3>3. PICK m \in 1 .. Len(table) :
            /\ IsPrefix(table[m].guest, path)
            /\ Resolve(path) =
                 [host |-> table[m].host,
                  rest |-> SubSeq(path, Len(table[m].guest) + 1, Len(path)),
                  mode |-> Mode(table[m].host)]
      BY <3>1, <3>2
    <3>4. Resolve(path).rest = SubSeq(path, Len(table[m].guest) + 1, Len(path))
      BY <3>3
    <3> QED
      BY <3>3, <3>4
  <2>4. table[m].guest # path
    BY <1>3, <2>1, <2>3, NothingLeft
  <2>5. table[m].guest \notin {MiseDir, KeyDir}
    BY <1>3, <2>3, PlacesApart
  <2>6. PICK j \in DOMAIN Inject(mounts) :
          table[m].guest = Mountable(Shown(Inject(mounts)[j].guest))
    BY <2>5, MountedShare
  <2> QED
    BY <1>3, <2>3, <2>4, <2>6 DEF IsStrictPrefix
<1> QED
  BY <1>5, <1>6

-----------------------------------------------------------------------------
(***************************************************************************)
(* The invariant holds at first, and each action keeps it.                 *)
(***************************************************************************)
LEMMA InitHolds == Init => IInv
<1> SUFFICES ASSUME Init PROVE IInv
  OBVIOUS
<1>1. /\ mounts = <<>> /\ shares = <<>> /\ todo = <<>> /\ table = <<>> /\ vm = "off"
      /\ touched = {} /\ linked = 0 /\ Len(<<>>) = 0
  BY DEF Init
<1>2. Config
  <2>1. MaxMounts \in Nat
    BY SpecAssumption
  <2> QED
    BY <1>1, <2>1 DEF Init, Config
<1>3. Start
  BY <1>1 DEF Start
<1>4. Queue
  BY <1>1 DEF Queue
<1>5. Table
  BY <1>1 DEF Table
<1>6. Mounted /\ Linked /\ SshIsSetUp
  BY <1>1 DEF Mounted, Linked, SshIsSetUp, Sharing
<1> QED
  BY <1>2, <1>3, <1>4, <1>5, <1>6 DEF IInv

\* While the machine is off nothing is shared and nothing mounted.
LEMMA OffFrame ==
  ASSUME vm' \in {"off", "refused", "loaded"},
         vm' = "loaded" => mounts' \in Seq(Mount),
         shares' = <<>>, todo' = <<>>, table' = <<>>, linked' = 0, Config'
  PROVE  IInv'
<1>1. Len(<<>>) = 0
  OBVIOUS
<1>2. Start'
  BY DEF Start
<1>3. Queue'
  BY <1>1 DEF Queue
<1>4. Table'
  BY <1>1 DEF Table
<1>5. Mounted' /\ Linked' /\ SshIsSetUp'
  BY DEF Mounted, Linked, SshIsSetUp, Sharing
<1> QED
  BY <1>2, <1>3, <1>4, <1>5 DEF IInv

LEMMA OffIsEmpty ==
  ASSUME IInv, vm \in {"off", "loaded"}
  PROVE  shares = <<>> /\ todo = <<>> /\ table = <<>> /\ linked = 0
BY DEF IInv, Start, Sharing

LEMMA EditStep == IInv /\ Edit => IInv'
<1> SUFFICES ASSUME IInv, Edit PROVE IInv'
  OBVIOUS
<1>1. vm = "off" /\ vm' = "off"
  BY DEF Edit
<1>2. shares' = <<>> /\ todo' = <<>> /\ table' = <<>> /\ linked' = 0
  BY <1>1, OffIsEmpty DEF Edit
<1>3. mounts \in Seq(Mount \cup {Malformed}) /\ Len(mounts) \in Nat /\ Len(mounts) <= MaxMounts
  BY LenProperties DEF IInv, Config
<1>4. mounts' \in Seq(Mount \cup {Malformed}) /\ Len(mounts') <= MaxMounts
  <2>1. ASSUME Len(mounts) < MaxMounts, NEW m \in Mount \cup {Malformed},
               mounts' = Append(mounts, m)
        PROVE  mounts' \in Seq(Mount \cup {Malformed}) /\ Len(mounts') <= MaxMounts
    <3>1. /\ Append(mounts, m) \in Seq(Mount \cup {Malformed})
          /\ Len(Append(mounts, m)) = Len(mounts) + 1
      BY <1>3, AppendProperties
    <3> QED
      BY <1>3, <2>1, <3>1, SpecAssumption
  <2>2. CASE mounts # <<>> /\ mounts' = Tail(mounts)
    <3>1. /\ Tail(mounts) \in Seq(Mount \cup {Malformed})
          /\ Len(Tail(mounts)) = Len(mounts) - 1
      BY <1>3, <2>2, HeadTailProperties
    <3> QED
      BY <1>3, <2>2, <3>1, SpecAssumption
  <2> QED
    BY <2>1, <2>2 DEF Edit
<1>5. Config'
  BY <1>1, <1>4 DEF IInv, Config, Edit
<1> QED
  BY <1>1, <1>2, <1>5, OffFrame

LEMMA ResetStep == IInv /\ Reset => IInv'
<1> SUFFICES ASSUME IInv, Reset PROVE IInv'
  OBVIOUS
<1>1. vm = "off" /\ vm' = "off"
  BY DEF Reset
<1>2. shares' = <<>> /\ todo' = <<>> /\ table' = <<>> /\ linked' = 0
  BY <1>1, OffIsEmpty DEF Reset
<1>3. Config'
  BY DEF IInv, Config, Reset
<1> QED
  BY <1>1, <1>2, <1>3, OffFrame

LEMMA StopStep == IInv /\ Stop => IInv'
<1> SUFFICES ASSUME IInv, Stop PROVE IInv'
  OBVIOUS
<1>1. vm' = "off" /\ shares' = <<>> /\ todo' = <<>> /\ table' = <<>> /\ linked' = 0
  BY DEF Stop
<1>2. Config'
  BY DEF IInv, Config, Stop
<1> QED
  BY <1>1, <1>2, OffFrame

LEMMA ChangeHostStep == ASSUME NEW h \in Movable PROVE IInv /\ ChangeHost(h) => IInv'
<1> SUFFICES ASSUME IInv, ChangeHost(h) PROVE IInv'
  OBVIOUS
<1>1. vm \in {"off", "loaded"} /\ vm' = vm /\ mounts' = mounts
  BY DEF ChangeHost
<1>2. shares' = <<>> /\ todo' = <<>> /\ table' = <<>> /\ linked' = 0
  BY <1>1, OffIsEmpty DEF ChangeHost
<1>3. Config'
  BY DEF IInv, Config, ChangeHost
<1>4. vm' = "loaded" => mounts' \in Seq(Mount)
  BY <1>1 DEF IInv, Start
<1> QED
  BY <1>1, <1>2, <1>3, <1>4, OffFrame

LEMMA LoadStep == IInv /\ Load => IInv'
<1> SUFFICES ASSUME IInv, Load PROVE IInv'
  OBVIOUS
<1>1. vm = "off" /\ mounts' = mounts /\ vm' \in {"refused", "loaded"}
  BY DEF Load
<1>2. shares' = <<>> /\ todo' = <<>> /\ table' = <<>> /\ linked' = 0
  BY <1>1, OffIsEmpty DEF Load
<1>3. Config'
  BY <1>1 DEF IInv, Config, Load
<1>4. ASSUME vm' = "loaded" PROVE mounts' \in Seq(Mount)
  <2>1. /\ mounts \in Seq(Mount \cup {Malformed}) /\ Len(mounts) \in Nat
        /\ DOMAIN mounts = 1 .. Len(mounts)
        /\ mounts \in [1 .. Len(mounts) -> Mount \cup {Malformed}]
    BY LenProperties DEF IInv, Config
  <2>2. \A i \in 1 .. Len(mounts) : mounts[i] # Malformed
    BY <1>4, <2>1 DEF Load, Invalid
  <2>3. \A i \in 1 .. Len(mounts) : mounts[i] \in Mount
    BY <2>1, <2>2
  <2>4. mounts \in [1 .. Len(mounts) -> Mount]
    BY <2>1, <2>3
  <2> QED
    BY <1>1, <2>1, <2>4
<1> QED
  BY <1>1, <1>2, <1>3, <1>4, OffFrame

LEMMA ShareStep == IInv /\ Share => IInv'
<1> SUFFICES ASSUME IInv, Share PROVE IInv'
  OBVIOUS
<1>1. /\ vm = "loaded" /\ vm' \in {"failed", "panicked", "sharing"} /\ linked' = linked
      /\ mounts' = mounts /\ shares' = Shares(mounts) /\ todo' = shares' /\ table' = table
  BY DEF Share
<1>2. mounts \in Seq(Mount) /\ table = <<>> /\ linked = 0 /\ Len(<<>>) = 0
  BY <1>1 DEF IInv, Start, Sharing
<1>3. Config'
  BY <1>1 DEF IInv, Config, Share
<1>4. Shares(mounts) = Shares(mounts')
  BY <1>1
<1>5. Start'
  BY <1>1, <1>2, <1>4 DEF Start, Sharing
<1>6. shares' \in Seq(Shared) /\ Len(shares') \in Nat
  BY <1>1, <1>2, SharesOfSpecs, LenProperties
<1>7. Done' = 0 /\ \A j \in Nat : 0 + j = j
  BY <1>1, <1>6 DEF Done
<1>8. Queue'
  <2>1. \A j \in 1 .. Len(shares') : shares'[j] = shares'[0 + j]
    BY <1>6, <1>7
  <2> QED
    BY <1>1, <1>6, <1>7, <2>1 DEF Queue
<1>9. Table'
  BY <1>1, <1>2 DEF Table
<1>10. Mounted'
  <2>1. \A j \in 1 .. Len(shares') : ~ (j <= 0)
    BY <1>6
  <2> QED
    BY <1>7, <2>1 DEF Mounted
<1>11. Linked' /\ SshIsSetUp'
  BY <1>1 DEF Linked, SshIsSetUp
<1> QED
  BY <1>3, <1>5, <1>8, <1>9, <1>10, <1>11 DEF IInv

LEMMA MountNextStep == IInv /\ MountNext => IInv'
<1> SUFFICES ASSUME IInv, MountNext PROVE IInv'
  OBVIOUS
<1> DEFINE s == Head(todo)
<1>1. /\ vm = "sharing" /\ vm' = vm /\ todo # <<>> /\ todo' = Tail(todo)
      /\ shares' = shares /\ mounts' = mounts /\ linked' = linked
  BY DEF MountNext
<1>2. /\ shares \in Seq(Shared) /\ todo \in Seq(Shared) /\ Len(todo) <= Len(shares)
      /\ Len(shares) \in Nat /\ Len(todo) \in Nat \ {0} /\ table \in Seq(Entry)
      /\ Len(table) \in Nat /\ DOMAIN table = 1 .. Len(table)
  BY <1>1, LenProperties, EmptySeq DEF IInv, Queue, Table
<1>3. /\ todo' \in Seq(Shared) /\ Len(todo') = Len(todo) - 1 /\ s = todo[1] /\ s \in Shared
      /\ \A j \in 1 .. Len(todo') : todo'[j] = todo[j + 1]
  BY <1>1, <1>2, HeadTailProperties
<1>4. Done \in Nat /\ Done + 1 \in 1 .. Len(shares) /\ Done' = Done + 1 /\ s = shares[Done + 1]
  <2>1. /\ Done = Len(shares) - Len(todo) /\ Done' = Len(shares) - Len(todo')
        /\ 1 \in 1 .. Len(todo)
    BY <1>1, <1>2 DEF Done
  <2>2. todo[1] = shares[Done + 1]
    BY <2>1 DEF IInv, Queue
  <2> QED
    BY <1>2, <1>3, <2>1, <2>2
<1>5. s \in Shared /\ s.guest \in Path
  <2> HIDE DEF s
  <2> QED
    BY <1>3 DEF Shared
<1>6. Config'
  BY DEF IInv, Config, MountNext
<1>7. Start'
  BY <1>1 DEF IInv, Start, Sharing
<1>8. Queue'
  <2>1. ASSUME NEW j \in 1 .. Len(todo') PROVE todo'[j] = shares[Done' + j]
    <3>1. j + 1 \in 1 .. Len(todo) /\ Done' + j = Done + (j + 1)
      BY <1>2, <1>3, <1>4
    <3>2. todo[j + 1] = shares[Done + (j + 1)]
      BY <3>1 DEF IInv, Queue
    <3> QED
      BY <1>3, <3>1, <3>2
  <2>2. Len(todo') <= Len(shares)
    BY <1>2, <1>3
  <2> QED
    BY <1>1, <1>2, <1>3, <2>1, <2>2 DEF Queue
<1>9. Linked' /\ SshIsSetUp'
  BY <1>1 DEF Linked, SshIsSetUp
<1>10. /\ \A i \in 1 .. Len(table) : \E j \in 1 .. Len(shares) :
            j <= Done /\ table[i] = [guest |-> shares[j].guest, host |-> shares[j].host]
       /\ \A j \in 1 .. Len(shares) :
            j <= Done => \/ Lost(j)
                         \/ \E i \in 1 .. Len(table) : IsPrefix(table[i].guest, shares[j].guest)
  BY <1>1 DEF IInv, Table, Mounted, Sharing
<1>11. \A j \in 1 .. Len(shares) : j <= Done' => j <= Done \/ j = Done + 1
  BY <1>4
<1>12. \A j \in 1 .. Len(shares) : j <= Done => j <= Done'
  BY <1>4
<1>13. \A j : Lost(j) => Lost(j)'
  BY <1>1 DEF Lost
<1>14. CASE table' = Append(table, [guest |-> s.guest, host |-> s.host])
  <2> DEFINE e == [guest |-> s.guest, host |-> s.host]
  <2>1. e \in Entry /\ e.guest = s.guest
    BY <1>5 DEF Entry, Shared
  <2>2. /\ table' \in Seq(Entry) /\ Len(table') = Len(table) + 1
        /\ \A i \in 1 .. Len(table) : table'[i] = table[i]
        /\ table'[Len(table) + 1] = e
    BY <1>2, <1>14, <2>1, AppendProperties
  <2>3. /\ \A i \in 1 .. Len(table') : i \in 1 .. Len(table) \/ i = Len(table) + 1
        /\ \A i \in 1 .. Len(table) : i \in 1 .. Len(table')
        /\ Len(table) + 1 \in 1 .. Len(table')
    BY <1>2, <2>2
  <2>4. Table'
    <3>1. e = [guest |-> shares[Done + 1].guest, host |-> shares[Done + 1].host]
      BY <1>4
    <3>2. ASSUME NEW i \in 1 .. Len(table')
          PROVE  \E j \in 1 .. Len(shares) :
                   /\ j <= Done'
                   /\ table'[i] = [guest |-> shares[j].guest, host |-> shares[j].host]
      <4>1. CASE i \in 1 .. Len(table)
        BY <1>10, <1>12, <2>2, <4>1
      <4>2. CASE i = Len(table) + 1
        BY <1>4, <2>2, <3>1, <4>2
      <4> QED
        BY <2>3, <4>1, <4>2
    <3> QED
      BY <1>1, <2>2, <3>2 DEF Table
  <2>5. Mounted'
    <3>1. IsPrefix(s.guest, s.guest)
      <4>1. s.guest \in Seq(Word)
        BY <1>5 DEF Path
      <4> QED
        BY <4>1, PrefixReflexive
    <3>2. ASSUME NEW j \in 1 .. Len(shares), j <= Done'
          PROVE  \/ Lost(j)'
                 \/ \E i \in 1 .. Len(table') : IsPrefix(table'[i].guest, shares[j].guest)
      <4>1. CASE j <= Done
        <5>1. CASE Lost(j)
          BY <1>13, <5>1
        <5>2. ASSUME NEW i \in 1 .. Len(table), IsPrefix(table[i].guest, shares[j].guest)
              PROVE  \E l \in 1 .. Len(table') : IsPrefix(table'[l].guest, shares[j].guest)
          BY <2>2, <2>3, <5>2
        <5> QED
          BY <1>10, <4>1, <5>1, <5>2
      <4>2. CASE j = Done + 1
        BY <1>4, <2>1, <2>2, <2>3, <3>1, <4>2
      <4> QED
        BY <1>11, <3>2, <4>1, <4>2
    <3> QED
      BY <1>1, <3>2 DEF Mounted
  <2> QED
    BY <1>6, <1>7, <1>8, <1>9, <2>4, <2>5 DEF IInv
<1>15. ASSUME table' = table,
              \/ Lost(Done + 1)
              \/ \E i \in 1 .. Len(table) : IsPrefix(table[i].guest, s.guest)
       PROVE  IInv'
  <2>1. Table'
    BY <1>1, <1>2, <1>10, <1>12, <1>15 DEF Table
  <2>2. Mounted'
    <3>1. ASSUME NEW j \in 1 .. Len(shares), j <= Done'
          PROVE  \/ Lost(j)'
                 \/ \E i \in 1 .. Len(table) : IsPrefix(table[i].guest, shares[j].guest)
      BY <1>4, <1>10, <1>11, <1>13, <1>15, <3>1
    <3> QED
      BY <1>1, <1>15, <3>1 DEF Mounted
  <2> QED
    BY <1>6, <1>7, <1>8, <1>9, <2>1, <2>2 DEF IInv
\* A mount over a file or over Staging is a share of before.
<1>16. ASSUME NEW i \in 1 .. Len(table), NEW f \in System \cup {Staging},
              IsPrefix(table[i].guest, f)
       PROVE  Lost(Done + 1)
  <2>1. PICK j \in 1 .. Len(shares) :
          j <= Done /\ table[i] = [guest |-> shares[j].guest, host |-> shares[j].host]
    BY <1>10
  <2>2. table[i].guest = shares[j].guest
    BY <2>1
  <2>3. j < Done + 1
    BY <1>4, <2>1
  <2> QED
    BY <1>16, <2>2, <2>3 DEF Lost
<1>17. CASE Hidden /\ table' = table
  <2>1. PICK i \in 1 .. Len(table), f \in System : IsPrefix(table[i].guest, f)
    BY <1>2, <1>17 DEF Hidden, Covers
  <2> QED
    BY <1>15, <1>16, <1>17, <2>1
<1>18. CASE Resolve(s.guest).rest # <<>> /\ table' = table
  <2>1. GuestsOwn.rest = <<>>
    BY DEF GuestsOwn
  <2>2. \E i \in 1 .. Len(table) : IsPrefix(table[i].guest, s.guest)
    BY <1>2, <1>5, <1>18, <2>1, MountOfPath
  <2> QED
    BY <1>15, <1>18, <2>2
<1>19. ASSUME \/ ~ Typeable(s) \/ IsStrictPrefix(Staging, s.guest)
              \/ \E i \in DOMAIN table : Covers(table[i], Staging),
              table' = table
       PROVE  IInv'
  <2>1. Lost(Done + 1)
    <3>1. CASE ~ Typeable(s) \/ IsStrictPrefix(Staging, s.guest)
      BY <1>4, <3>1 DEF Lost
    <3>2. ASSUME NEW i \in 1 .. Len(table), Covers(table[i], Staging)
          PROVE  Lost(Done + 1)
      BY <1>16, <3>2 DEF Covers
    <3> QED
      BY <1>2, <1>19, <3>1, <3>2
  <2> QED
    BY <1>15, <1>19, <2>1
<1> QED
  BY <1>14, <1>17, <1>18, <1>19 DEF MountNext

LEMMA SetUpStep == IInv /\ SetUp => IInv'
<1> SUFFICES ASSUME IInv, SetUp PROVE IInv'
  OBVIOUS
<1>1. /\ vm = "sharing" /\ vm' \in {"linking", "unreachable", "running"} /\ todo = <<>>
      /\ mounts' = mounts /\ shares' = shares /\ todo' = todo /\ table' = table
      /\ host' = host /\ colon' = colon /\ home' = home /\ touched' = touched
      /\ linked' = linked
  BY DEF SetUp
<1>2. Sharing /\ Sharing' /\ mounts \in Seq(Mount) /\ linked = 0
  BY <1>1 DEF IInv, Start, Sharing
<1>3. Len(Inject(mounts)) \in Nat
  BY <1>2, InjectedSpecs, LenProperties
<1>4. Config'
  BY <1>1 DEF IInv, Config
<1>5. Start'
  BY <1>1, <1>2, <1>3 DEF IInv, Start
<1>6. Queue' /\ Table'
  BY <1>1 DEF IInv, Queue, Table, Done
<1>7. Mounted'
  BY <1>1, <1>2 DEF IInv, Mounted, Lost, Done
<1>8. Hidden' = Hidden
  BY <1>1 DEF Hidden
<1>9. Linked'
  <2>1. vm' = "running" => Hidden
    BY <1>1 DEF SetUp
  <2>2. \A i \in 1 .. Len(Inject(mounts)) : ~ (i <= linked)
    BY <1>2, <1>3
  <2> QED
    BY <1>1, <1>8, <2>1, <2>2 DEF Linked
<1>10. SshIsSetUp'
  <2>1. ASSUME vm' = "unreachable"
        PROVE  \E i \in DOMAIN Inject(mounts) : \E f \in System \cup {KeyDir} :
                 IsPrefix(Mountable(Shown(Inject(mounts)[i].guest)), f)
    <3>1. CASE Hidden
      BY <1>2, <3>1, HiddenBySpec DEF IInv
    <3>2. CASE ~ Hidden
      <4>1. See(KeyDir).host # ".vibebox"
        BY <2>1, <3>2 DEF SetUp
      <4> QED
        BY <1>1, <1>2, <4>1, KeyIsSeen DEF IInv
    <3> QED
      BY <3>1, <3>2
  <2> QED
    BY <1>1, <2>1 DEF SshIsSetUp
<1> QED
  BY <1>4, <1>5, <1>6, <1>7, <1>9, <1>10 DEF IInv

\* A link changes nothing that is there.
LEMMA LinksStay ==
  ASSUME home \in [HomePaths -> {"none", "dir", "file", "link"}], NEW rel \in Seq(Word),
         home' \in {home, Link(rel)}
  PROVE  /\ home' \in [HomePaths -> {"none", "dir", "file", "link"}]
         /\ \A p \in HomePaths : home[p] # "none" => home'[p] = home[p]
         /\ rel \in HomePaths /\ home' = Link(rel) => home'[rel] # "none"
<1>1. \A p \in HomePaths :
        Link(rel)[p] = CASE home[p] = "none" /\ p = rel                -> "link"
                         [] home[p] = "none" /\ IsStrictPrefix(p, rel) -> "dir"
                         [] OTHER                                      -> home[p]
  BY DEF Link
<1>2. \A p \in HomePaths : home[p] = "none" /\ p = rel => ~ IsStrictPrefix(p, rel)
  BY DEF IsStrictPrefix
<1>3. \A p \in HomePaths : /\ Link(rel)[p] \in {home[p], "dir", "link"}
                           /\ home[p] # "none" => Link(rel)[p] = home[p]
                           /\ home[p] = "none" /\ p = rel => Link(rel)[p] = "link"
  BY <1>1, <1>2
<1>4. Link(rel) \in [HomePaths -> {"none", "dir", "file", "link"}]
  <2>1. \A p \in HomePaths : Link(rel)[p] \in {"none", "dir", "file", "link"}
    BY <1>3
  <2>2. Link(rel) = [p \in HomePaths |-> Link(rel)[p]]
    BY DEF Link
  <2> HIDE DEF Link
  <2> QED
    BY <2>1, <2>2
<1>5. CASE home' = home /\ home' # Link(rel)
  BY <1>5
<1>6. CASE home' = Link(rel)
  BY <1>3, <1>4, <1>6
<1> QED
  BY <1>5, <1>6

LEMMA LinkNextStep == IInv /\ LinkNext => IInv'
<1> SUFFICES ASSUME IInv, LinkNext PROVE IInv'
  OBVIOUS
<1>1. /\ vm = "linking" /\ linked < Len(Inject(mounts)) /\ mounts' = mounts /\ host' = host
      /\ colon' = colon /\ shares' = shares /\ todo' = todo /\ table' = table
      /\ touched' = touched
  BY DEF LinkNext
<1>2. mounts \in Seq(Mount) /\ Sharing /\ linked \in Nat /\ todo = <<>>
  BY <1>1 DEF IInv, Start, Config, Sharing
<1>3. PICK specs : specs = Inject(mounts)
  OBVIOUS
<1>4. specs = Inject(mounts')
  BY <1>1, <1>3
<1>5. /\ Len(specs) \in Nat /\ DOMAIN specs = 1 .. Len(specs) /\ specs \in Seq(RawSpec)
      /\ linked + 1 \in 1 .. Len(specs)
  BY <1>1, <1>2, <1>3, InjectedSpecs, LenProperties
<1>6. \A i \in 1 .. Len(specs) :
        specs[i] \in RawSpec /\ specs[i] \in Mount \cup {ProjectSpec} /\ specs[i].guest \in Path
  <2>1. \A i \in 1 .. Len(specs) :
          specs[i] = ProjectSpec \/ \E k \in 1 .. Len(mounts) : specs[i] = mounts[k]
    BY <1>2, <1>3, InjectedSpecs
  <2>2. \A i \in 1 .. Len(specs) : specs[i] \in RawSpec
    BY <1>5, ElementOfSeq
  <2>3. \A i \in 1 .. Len(specs) : specs[i] \in Mount \cup {ProjectSpec}
    BY <1>2, <2>1, ElementOfSeq
  <2> QED
    BY <2>2, <2>3 DEF RawSpec
<1>7. PICK m \in 1 .. Len(specs) : m = linked + 1
  BY <1>5
<1>8. PICK rel : rel = Rel(specs[m].guest)
  OBVIOUS
<1>9. CASE /\ InHome(specs[m].guest)
           /\ Blocked(rel) \/ (Through(rel) /\ Dangling(rel))
           /\ vm' = "unreachable" /\ linked' = linked /\ home' = home
  <2>1. Config' /\ Start' /\ Queue' /\ Table'
    BY <1>1, <1>3, <1>4, <1>5, <1>9 DEF IInv, Config, Start, Queue, Table, Sharing, Done
  <2>2. Mounted'
    BY <1>1, <1>2, <1>9 DEF IInv, Mounted, Lost, Sharing, Done
  <2>3. Linked'
    BY <1>9 DEF Linked
  <2>4. SshIsSetUp'
    <3>1. CASE Blocked(rel)
      <4>1. Blocked(rel)'
        BY <1>9, <3>1 DEF Blocked
      <4>2. m \in DOMAIN specs /\ InHome(specs[m].guest) /\ Blocked(Rel(specs[m].guest))'
        BY <1>5, <1>8, <1>9, <4>1
      <4> QED
        BY <1>4, <4>2 DEF SshIsSetUp
    <3>2. CASE Through(rel) /\ Dangling(rel)
      <4>1. m \in DOMAIN Inject(mounts) /\ Dangling(Rel(Inject(mounts)[m].guest))
        BY <1>3, <1>5, <1>8, <3>2
      <4>2. InHome(Inject(mounts)[m].guest)
        BY <1>3, <1>9
      <4>3. \/ \E k \in DOMAIN specs[m].guest : specs[m].guest[k] \in Split
            \/ \E j \in DOMAIN specs :
                 IsStrictPrefix(Mountable(Shown(specs[j].guest)),
                                Mountable(Shown(specs[m].guest)))
        BY <1>2, <1>3, <4>1, <4>2, WhyDangling DEF IInv
      <4>4. Through(rel)'
        BY <1>9, <3>2 DEF Through
      <4>5. Through(Rel(specs[m].guest))'
        BY <1>8, <4>4
      <4>6. m \in DOMAIN specs /\ InHome(specs[m].guest)
        BY <1>5, <1>9
      <4> QED
        BY <1>4, <4>3, <4>5, <4>6 DEF SshIsSetUp
    <3> QED
      BY <1>9, <3>1, <3>2
  <2> QED
    BY <2>1, <2>2, <2>3, <2>4 DEF IInv
<1>10. CASE /\ home' = IF InHome(specs[m].guest) /\ ~ Through(rel) THEN Link(rel) ELSE home
            /\ linked' = linked + 1 /\ vm' = vm
  <2>1. home \in [HomePaths -> {"none", "dir", "file", "link"}]
    BY DEF IInv, Config
  <2>2. InHome(specs[m].guest) => rel \in Seq(Word)
    BY <1>6, <1>8, ShownIsMounted
  <2>3. /\ home' \in [HomePaths -> {"none", "dir", "file", "link"}]
        /\ \A p \in HomePaths : home[p] # "none" => home'[p] = home[p]
        /\ InHome(specs[m].guest) /\ ~ Through(rel) /\ rel \in HomePaths => home'[rel] # "none"
    <3>1. CASE InHome(specs[m].guest) /\ ~ Through(rel)
      BY <1>10, <2>1, <2>2, <3>1, LinksStay
    <3>2. CASE ~ (InHome(specs[m].guest) /\ ~ Through(rel))
      BY <1>10, <2>1, <3>2
    <3> QED
      BY <3>1, <3>2
  <2>4. Config'
    BY <1>1, <1>2, <1>10, <2>3 DEF IInv, Config
  <2>5. Start' /\ Queue' /\ Table'
    <3>1. linked' <= Len(Inject(mounts'))
      BY <1>4, <1>5, <1>10
    <3> QED
      BY <1>1, <1>2, <1>10, <3>1 DEF IInv, Start, Queue, Table, Sharing, Done
  <2>6. Mounted'
    BY <1>1, <1>2, <1>10 DEF IInv, Mounted, Lost, Sharing, Done
  <2>7. SshIsSetUp'
    BY <1>1, <1>10 DEF SshIsSetUp
  <2>8. ASSUME NEW r \in HomePaths, Led(r) PROVE Led(r)'
    <3>1. CASE Through(r)
      <4>1. Through(r)'
        BY <2>3, <3>1 DEF Through
      <4> QED
        BY <4>1 DEF Led
    <3>2. CASE home[r] # "none"
      BY <2>3, <3>2 DEF Led
    <3> QED
      BY <2>8, <3>1, <3>2 DEF Led
  <2>9. Linked'
    <3>1. ASSUME NEW i \in 1 .. Len(specs), i <= linked + 1, InHome(specs[i].guest),
                 Rel(specs[i].guest) # <<>>,
                 \A p \in touched : ~ IsPrefix(p, Rel(specs[i].guest)),
                 NEW r, r = Rel(specs[i].guest)
          PROVE  Led(r)'
      <4>1. r \in HomePaths
        BY <1>6, <3>1, PlacesInHome
      <4>2. CASE i <= linked
        <5>1. Led(r)
          BY <1>1, <1>3, <3>1, <4>2 DEF IInv, Linked
        <5> QED
          BY <2>8, <4>1, <5>1
      <4>3. CASE i = m
        <5>1. r = rel
          BY <1>8, <3>1, <4>3
        <5>2. CASE Through(r)
          BY <2>8, <4>1, <5>2 DEF Led
        <5>3. CASE ~ Through(r)
          <6>1. home'[r] # "none"
            BY <2>3, <3>1, <4>1, <4>3, <5>1, <5>3
          <6> QED
            BY <6>1 DEF Led
        <5> QED
          BY <5>2, <5>3
      <4>4. i <= linked \/ i = m
        BY <1>2, <1>7, <3>1
      <4> QED
        BY <4>2, <4>3, <4>4
    <3>2. ASSUME NEW i \in 1 .. Len(specs), i <= linked + 1, InHome(specs[i].guest),
                 Rel(specs[i].guest) # <<>>,
                 \A p \in touched : ~ IsPrefix(p, Rel(specs[i].guest))
          PROVE  Led(Rel(specs[i].guest))'
      BY <3>1, <3>2
    <3> QED
      BY <1>1, <1>4, <1>10, <3>2 DEF Linked
  <2> QED
    BY <2>4, <2>5, <2>6, <2>7, <2>9 DEF IInv
<1> QED
  BY <1>3, <1>7, <1>8, <1>9, <1>10 DEF LinkNext

LEMMA ReadyStep == IInv /\ Ready => IInv'
<1> SUFFICES ASSUME IInv, Ready PROVE IInv'
  OBVIOUS
<1>1. /\ vm = "linking" /\ vm' = "running" /\ linked = Len(Inject(mounts))
      /\ mounts' = mounts /\ host' = host /\ colon' = colon
      /\ shares' = shares /\ todo' = todo /\ table' = table /\ home' = home
      /\ touched' = touched /\ linked' = linked
  BY DEF Ready
<1>2. Config' /\ Start' /\ Queue' /\ Table'
  BY <1>1 DEF IInv, Config, Start, Queue, Table, Sharing, Done
<1>3. Mounted'
  BY <1>1 DEF IInv, Mounted, Lost, Sharing, Done
<1>4. Linked'
  BY <1>1 DEF IInv, Linked, Led, Through
<1>5. SshIsSetUp'
  BY <1>1 DEF SshIsSetUp
<1> QED
  BY <1>2, <1>3, <1>4, <1>5 DEF IInv

LEMMA UseHomeStep == ASSUME NEW p \in HomePaths PROVE IInv /\ UseHome(p) => IInv'
<1> SUFFICES ASSUME IInv, UseHome(p) PROVE IInv'
  OBVIOUS
<1>1. /\ vm = "running" /\ vm' = vm /\ mounts' = mounts /\ host' = host /\ colon' = colon
      /\ shares' = shares /\ todo' = todo /\ table' = table /\ linked' = linked
      /\ touched' = touched \cup {p}
  BY DEF UseHome
<1>2. home \in [HomePaths -> {"none", "dir", "file", "link"}] /\ touched \subseteq HomePaths
  BY DEF IInv, Config
<1>3. PICK what \in {"none", "dir", "file"} :
        home' = [q \in HomePaths |-> CASE q = p                -> what
                                       [] IsStrictPrefix(p, q) -> "none"
                                       [] OTHER                -> home[q]]
  BY DEF UseHome
<1>4. \A q \in HomePaths :
        home'[q] = CASE q = p                -> what
                     [] IsStrictPrefix(p, q) -> "none"
                     [] OTHER                -> home[q]
  BY <1>3
<1>5. ASSUME NEW q \in HomePaths
      PROVE  /\ home'[q] \in {"none", "dir", "file", "link"}
             /\ ~ IsPrefix(p, q) => home'[q] = home[q]
  <2>1. p \in Seq(Word) /\ IsPrefix(p, p)
    BY PlacesInHome, PrefixReflexive
  <2>2. CASE q = p
    BY <1>4, <2>1, <2>2 DEF IsStrictPrefix
  <2>3. CASE q # p /\ IsStrictPrefix(p, q)
    BY <1>4, <2>3 DEF IsStrictPrefix
  <2>4. CASE q # p /\ ~ IsStrictPrefix(p, q)
    BY <1>2, <1>4, <2>4
  <2> QED
    BY <2>2, <2>3, <2>4
<1>6. home' \in [HomePaths -> {"none", "dir", "file", "link"}]
  <2>1. home' = [q \in HomePaths |-> home'[q]]
    BY <1>3
  <2> QED
    BY <1>5, <2>1
<1>7. Config'
  BY <1>1, <1>2, <1>6 DEF IInv, Config
<1>8. Start' /\ Queue' /\ Table'
  BY <1>1 DEF IInv, Start, Queue, Table, Sharing, Done
<1>9. Mounted'
  BY <1>1 DEF IInv, Mounted, Lost, Sharing, Done
<1>10. ASSUME NEW rel \in HomePaths, ~ IsPrefix(p, rel), Led(rel) PROVE Led(rel)'
  <2>1. ASSUME NEW q \in HomePaths, home[q] = "link", IsPrefix(q, rel) PROVE home'[q] = "link"
    <3>1. p \in Seq(Word) /\ q \in Seq(Word) /\ rel \in Seq(Word)
      BY PlacesInHome
    <3>2. ~ IsPrefix(p, q)
      BY <1>10, <2>1, <3>1, PrefixTransitive
    <3> QED
      BY <1>5, <2>1, <3>2
  <2>2. Through(rel) => Through(rel)'
    BY <2>1 DEF Through
  <2>3. home'[rel] = home[rel]
    BY <1>5, <1>10
  <2> QED
    BY <1>10, <2>2, <2>3 DEF Led
<1>11. Linked'
  <2>1. PICK specs : specs = Inject(mounts)
    OBVIOUS
  <2>2. specs = Inject(mounts')
    BY <1>1, <2>1
  <2>3. ASSUME NEW i \in 1 .. Len(specs), i <= linked, InHome(specs[i].guest),
               Rel(specs[i].guest) # <<>>,
               \A q \in touched' : ~ IsPrefix(q, Rel(specs[i].guest)),
               NEW r, r = Rel(specs[i].guest)
        PROVE  Led(r)'
    <3>1. r \in HomePaths
      <4>1. mounts \in Seq(Mount)
        BY <1>1 DEF IInv, Start
      <4>2. specs[i] = ProjectSpec \/ \E j \in 1 .. Len(mounts) : specs[i] = mounts[j]
        BY <2>1, <4>1, InjectedSpecs
      <4>3. specs[i] \in Mount \cup {ProjectSpec}
        BY <4>1, <4>2, ElementOfSeq
      <4> QED
        BY <2>3, <4>3, PlacesInHome
    <3>2. ~ IsPrefix(p, r) /\ \A q \in touched : ~ IsPrefix(q, r)
      BY <1>1, <2>3
    <3>3. Led(r)
      BY <1>1, <2>1, <2>3, <3>2 DEF IInv, Linked
    <3> QED
      BY <1>10, <3>1, <3>2, <3>3
  <2>4. ASSUME NEW i \in 1 .. Len(specs), i <= linked, InHome(specs[i].guest),
               Rel(specs[i].guest) # <<>>,
               \A q \in touched' : ~ IsPrefix(q, Rel(specs[i].guest))
        PROVE  Led(Rel(specs[i].guest))'
    BY <2>3, <2>4
  <2>5. Hidden' = Hidden
    BY <1>1 DEF Hidden
  <2>6. ~ Hidden => linked = Len(specs)
    BY <1>1, <2>1 DEF IInv, Linked
  <2> QED
    BY <1>1, <2>2, <2>4, <2>5, <2>6 DEF Linked
<1>12. SshIsSetUp'
  BY <1>1 DEF SshIsSetUp
<1> QED
  BY <1>7, <1>8, <1>9, <1>11, <1>12 DEF IInv

LEMMA StutterStep == IInv /\ UNCHANGED vars => IInv'
<1> SUFFICES ASSUME IInv, UNCHANGED vars PROVE IInv'
  OBVIOUS
<1>1. /\ mounts' = mounts /\ host' = host /\ colon' = colon /\ vm' = vm
      /\ shares' = shares /\ todo' = todo /\ table' = table /\ home' = home
      /\ linked' = linked /\ touched' = touched
  BY DEF vars
<1>2. Config' /\ Start' /\ Queue' /\ Table'
  BY <1>1 DEF IInv, Config, Start, Queue, Table, Sharing, Done
<1>3. Mounted'
  BY <1>1 DEF IInv, Mounted, Lost, Sharing, Done
<1>4. Linked'
  BY <1>1 DEF IInv, Linked, Led, Through, Hidden
<1>5. SshIsSetUp'
  BY <1>1 DEF IInv, SshIsSetUp, Blocked, Through
<1> QED
  BY <1>2, <1>3, <1>4, <1>5 DEF IInv

LEMMA StepHolds == IInv /\ [Next]_vars => IInv'
<1> SUFFICES ASSUME IInv, [Next]_vars PROVE IInv'
  OBVIOUS
<1>1. CASE Edit
  BY <1>1, EditStep
<1>2. CASE Reset
  BY <1>2, ResetStep
<1>3. CASE Stop
  BY <1>3, StopStep
<1>4. CASE Load
  BY <1>4, LoadStep
<1>5. CASE Share
  BY <1>5, ShareStep
<1>6. CASE MountNext
  BY <1>6, MountNextStep
<1>7. CASE SetUp
  BY <1>7, SetUpStep
<1>8. CASE LinkNext
  BY <1>8, LinkNextStep
<1>9. CASE Ready
  BY <1>9, ReadyStep
<1>10. CASE \E h \in Movable : ChangeHost(h)
  BY <1>10, ChangeHostStep
<1>11. CASE \E p \in HomePaths : UseHome(p)
  BY <1>11, UseHomeStep
<1>12. CASE UNCHANGED vars
  BY <1>12, StutterStep
<1> QED
  BY <1>1, <1>2, <1>3, <1>4, <1>5, <1>6, <1>7, <1>8, <1>9, <1>10, <1>11, <1>12 DEF Next

-----------------------------------------------------------------------------
LEMMA ConfigIsTyped ==
  ASSUME mounts \in Seq(Mount \cup {Malformed}), Len(mounts) <= MaxMounts
  PROVE  mounts \in Configs
<1>1. /\ mounts \in [1 .. Len(mounts) -> Mount \cup {Malformed}]
      /\ Len(mounts) \in 0 .. MaxMounts
  BY LenProperties, SpecAssumption
<1> QED
  BY <1>1 DEF Configs

\* Nothing is mounted at a relative path or in a home directory.
LEMMA SharedPlaces ==
  ASSUME mounts \in Seq(Mount), NEW j \in 1 .. Len(Shares(mounts))
  PROVE  Head(Shares(mounts)[j].guest) = "/" /\ ~ IsPrefix(Home, Shares(mounts)[j].guest)
<1> DEFINE all == Inject(mounts)
<1>1. ASSUME NEW l \in DOMAIN all,
             Shares(mounts)[j].guest = Mountable(Shown(all[l].guest))
      PROVE  Head(Shares(mounts)[j].guest) = "/" /\ ~ IsPrefix(Home, Shares(mounts)[j].guest)
  <2>1. all \in Seq(RawSpec) /\ l \in 1 .. Len(all)
    BY InjectedSpecs, LenProperties
  <2> HIDE DEF all
  <2>2. all[l] \in RawSpec
    BY <2>1, ElementOfSeq
  <2>3. all[l].guest \in Path
    BY <2>2 DEF RawSpec
  <2> QED
    BY <1>1, <2>3, ShownIsMounted
<1> QED
  BY <1>1, SharesAreSpecs, Places, PlacesApart

LEMMA TypesFollow == IInv => TypeOK
<1> SUFFICES ASSUME IInv PROVE TypeOK
  OBVIOUS
<1>1. mounts \in Configs /\ MaxMounts \in Nat /\ Len(mounts) \in Nat /\ Len(mounts) <= MaxMounts
  BY ConfigIsTyped, LenProperties, SpecAssumption DEF IInv, Config
<1>2. /\ shares \in Seq(Shared) /\ todo \in Seq(Shared) /\ Len(todo) <= Len(shares)
      /\ Len(shares) \in Nat /\ Len(todo) \in Nat
      /\ DOMAIN shares = 1 .. Len(shares) /\ DOMAIN table = 1 .. Len(table)
  BY LenProperties DEF IInv, Queue, Table
<1>3. Len(shares) <= MaxMounts + 3
  <2>1. CASE shares = <<>>
    <3>1. Len(<<>>) = 0
      OBVIOUS
    <3> QED
      BY <1>1, <2>1, <3>1
  <2>2. CASE mounts \in Seq(Mount) /\ shares = Shares(mounts)
    <3>1. /\ Len(shares) = Len(Inject(mounts)) + 2
          /\ Len(Inject(mounts)) \in {Len(mounts), Len(mounts) + 1}
      BY <2>2, SharesOfSpecs, InjectedSpecs
    <3> QED
      BY <1>1, <3>1
  <2> QED
    BY <2>1, <2>2 DEF IInv, Start
<1>4. linked \in 0 .. MaxMounts + 1
  <2>1. CASE linked = 0
    BY <1>1, <2>1
  <2>2. CASE mounts \in Seq(Mount) /\ linked <= Len(Inject(mounts))
    <3>1. linked \in Nat /\ Len(Inject(mounts)) \in {Len(mounts), Len(mounts) + 1}
      BY <2>2, InjectedSpecs DEF IInv, Config
    <3> QED
      BY <1>1, <2>2, <3>1
  <2> QED
    BY <2>1, <2>2 DEF IInv, Start
<1>5. IsSuffix(todo, shares)
  <2>1. \A i \in 1 .. Len(todo) : todo[i] = shares[Len(shares) - Len(todo) + i]
    BY DEF IInv, Queue, Done
  <2> QED
    BY <1>2, <2>1, SuffixOf
<1>6. ASSUME NEW i \in DOMAIN table
      PROVE  /\ Head(table[i].guest) = "/" /\ ~ IsPrefix(Home, table[i].guest)
             /\ \E j \in DOMAIN shares :
                  table[i] = [guest |-> shares[j].guest, host |-> shares[j].host]
  <2>1. PICK j \in 1 .. Len(shares) :
          table[i] = [guest |-> shares[j].guest, host |-> shares[j].host]
    BY <1>2 DEF IInv, Table
  <2>2. table # <<>>
    BY <1>2
  <2>3. mounts \in Seq(Mount) /\ shares = Shares(mounts)
    BY <2>2 DEF IInv, Start, Sharing
  <2>4. Head(shares[j].guest) = "/" /\ ~ IsPrefix(Home, shares[j].guest)
    BY <2>3, SharedPlaces
  <2>5. table[i].guest = shares[j].guest
    BY <2>1
  <2> QED
    BY <1>2, <2>1, <2>4, <2>5
<1>7. /\ host \in [Host -> {"dir", "file", "none"}] /\ colon \in BOOLEAN
      /\ vm \in {"off", "refused", "loaded", "failed", "panicked", "sharing",
                 "linking", "unreachable", "running"}
      /\ home \in [HomePaths -> {"none", "dir", "file", "link"}] /\ touched \subseteq HomePaths
  BY DEF IInv, Config
<1> QED
  BY <1>1, <1>3, <1>4, <1>5, <1>6, <1>7 DEF TypeOK

(***************************************************************************)
(* Every variable keeps its type, and no mount names a relative or home    *)
(* directory, for any guest paths and any number of mounts.                *)
(***************************************************************************)
THEOREM TypeCorrect == Spec => []TypeOK
<1>1. Init => IInv
  BY InitHolds
<1>2. IInv /\ [Next]_vars => IInv'
  BY StepHolds
<1>3. IInv => TypeOK
  BY TypesFollow
<1> QED
  BY <1>1, <1>2, <1>3, PTL DEF Spec

(***************************************************************************)
(* What `vibebox explain' tells of a clear row is what the guest sees      *)
(* there: that host's directory itself, in the row's mode (the rows of     *)
(* build_mount_rows against rewrite_mount_spec, link_home and the mounts   *)
(* of a start, those that fail unnoticed among them).                      *)
(***************************************************************************)
THEOREM ExplainIsTrue == Spec => []ExplainTellsTruth
<1>1. Init => IInv
  BY InitHolds
<1>2. IInv /\ [Next]_vars => IInv'
  BY StepHolds
<1>3. IInv => ExplainTellsTruth
  BY ExplainedIsSeen
<1> QED
  BY <1>1, <1>2, <1>3, PTL DEF Spec

(***************************************************************************)
(* Whatever is mounted and writable is the tools' cache, the project or a  *)
(* directory that a spec names read-write (inject_project_mount, Own).     *)
(***************************************************************************)
THEOREM OnlyDeclaredIsWritten == Spec => []WritableIsDeclared
<1>1. Init => IInv
  BY InitHolds
<1>2. IInv /\ [Next]_vars => IInv'
  BY StepHolds
<1>3. IInv => WritableIsDeclared
  BY WrittenIsDeclared
<1> QED
  BY <1>1, <1>2, <1>3, PTL DEF Spec

(***************************************************************************)
(* The guest gets its ssh set-up but for the reasons that SshIsSetUp       *)
(* names: neither the order of the mounts nor links that an earlier boot   *)
(* left stop ssh.sh otherwise (link_home under set -e).                    *)
(***************************************************************************)
THEOREM SshSetUp == Spec => []SshIsSetUp
<1>1. Init => IInv
  BY InitHolds
<1>2. IInv /\ [Next]_vars => IInv'
  BY StepHolds
<1>3. IInv => SshIsSetUp
  BY DEF IInv
<1> QED
  BY <1>1, <1>2, <1>3, PTL DEF Spec

=============================================================================
