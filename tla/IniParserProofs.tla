-------------------------- MODULE IniParserProofs ---------------------------
(***************************************************************************)
(* Proofs about the ini parser, for every set of lines and settings and    *)
(* every bound: the dictionary is what the file says as a whole, a file is *)
(* refused only for a line that is bad or too long, and the settings taken *)
(* and the keys listed are those of the file.                              *)
(***************************************************************************)
EXTENDS IniParser, SequenceTheorems, WellFoundedInduction, TLAPS

-----------------------------------------------------------------------------
(* The inductive invariant.                                                 *)

\* The buffer holds the lines since the last one that ended, and the section is that
\* of the last line read.
Carried ==
  pc \in {"load", "reading"} => \A n \in Nat : n = Len(file) =>
    /\ held = SubSeq(file, Start(n + 1), n)
    /\ last = Length(held) - Len(held)
    /\ section = SectionAt(n)

\* The dictionary has what the lines say, and nothing else.
Mapped ==
  pc \notin {"null", "refused"} =>
    /\ DOMAIN map = {KeyOf(e) : e \in Setters}
    /\ \A key \in DOMAIN map : map[key] = Written(key, Default)

\* The lines counted as errors are those that are bad.
Errors == pc \in {"load", "reading", "ended"} => (errs > 0 <=> IsBad)

TypeInv ==
  /\ Consistent /\ file \in Seq(Lines) /\ errs <= Len(file)
  /\ pc = "load" => file = <<>> /\ held = <<>> /\ last = 0 /\ errs = 0
FileInv == Carried /\ Mapped /\ Errors /\ RefusedOnlyBad /\ ConfigTaken

-----------------------------------------------------------------------------
(* The largest and the smallest of a set of numbers.                        *)

\* A set of natural numbers that is not empty has a smallest one.
LEMMA MinOf ==
  ASSUME NEW S \in SUBSET Nat, S # {}
  PROVE  Min(S) \in S /\ \A x \in S : Min(S) <= x
<1> DEFINE less == {p \in Nat \X Nat : p[1] < p[2]}
<1>1. IsWellFoundedOn(less, Nat)
  BY NatLessThanWellFounded, Zenon DEF OpToRel
<1> HIDE DEF less
<1>2. PICK x \in S : \A y \in S : ~(<<y, x>> \in less)
  BY <1>1, WFMin
<1>3. \A y \in S : x <= y
  <2> TAKE y \in S
  <2>1. <<y, x>> \notin less
    BY <1>2
  <2>2. x \in Nat /\ y \in Nat
    OBVIOUS
  <2>3. ~(y < x)
    BY <2>1, <2>2 DEF less
  <2> QED
    BY <2>2, <2>3
<1> QED
  BY <1>3 DEF Min

\* A bounded one has a largest.
LEMMA MaxOf ==
  ASSUME NEW S \in SUBSET Nat, S # {}, NEW b \in Nat, \A x \in S : x <= b
  PROVE  Max(S) \in S /\ \A x \in S : x <= Max(S)
<1> DEFINE T == {b - x : x \in S}
<1>1. T \in SUBSET Nat /\ T # {}
  <2>1. \A x \in S : x \in Nat /\ x <= b
    OBVIOUS
  <2>2. \A x \in S : b - x \in Nat
    BY <2>1
  <2>3. T \in SUBSET Nat
    BY <2>2
  <2> QED
    BY <2>3
<1>2. PICK m \in T : \A y \in T : m <= y
  BY <1>1, MinOf
<1>3. PICK x \in S : m = b - x
  BY <1>2
<1>4. \A y \in S : y <= x
  <2> TAKE y \in S
  <2>1. m <= b - y
    BY <1>2
  <2> QED
    BY <2>1, <1>3
<1> QED
  BY <1>3, <1>4 DEF Max

\* The largest is the one that no other exceeds.
LEMMA MaxIs ==
  ASSUME NEW S \in SUBSET Nat, NEW n \in S, \A x \in S : x <= n
  PROVE  Max(S) = n
<1>1. \A m \in S : (\A x \in S : m >= x) => m = n
  OBVIOUS
<1> QED
  BY <1>1 DEF Max

-----------------------------------------------------------------------------
(* The length of joined lines.                                              *)

\* sum is the function that Length defines.
Sums(sum, ls) ==
  /\ sum \in [0 .. Len(ls) -> Nat]
  /\ \A i \in 0 .. Len(ls) : sum[i] = IF i = 0 THEN 0 ELSE sum[i - 1] + ls[i].len

\* There is one, for every part of the lines.
LEMMA SumsExist ==
  ASSUME NEW ls \in Seq(Lines)
  PROVE  \E sum : Sums(sum, ls)
<1> DEFINE Upto(n, sum) ==
      /\ sum \in [0 .. n -> Nat]
      /\ \A i \in 0 .. n : sum[i] = IF i = 0 THEN 0 ELSE sum[i - 1] + ls[i].len
    S == {n \in 0 .. Len(ls) : \A sum : ~Upto(n, sum)}
<1>1. SUFFICES ASSUME S # {} PROVE FALSE
  <2>1. Len(ls) \in 0 .. Len(ls)
    OBVIOUS
  <2> QED
    BY <1>1, <2>1 DEF Sums
<1>2. S \in SUBSET Nat
  OBVIOUS
<1>3. PICK n \in S : \A m \in S : n <= m
  BY <1>1, <1>2, MinOf
<1>4. n # 0
  <2>1. Upto(0, [i \in 0 .. 0 |-> 0])
    OBVIOUS
  <2> QED
    BY <2>1, <1>3
<1>5. n - 1 \in 0 .. Len(ls) /\ n - 1 \notin S
  <2>1. Len(ls) \in Nat /\ n \in 0 .. Len(ls)
    BY <1>3
  <2>2. n - 1 \in 0 .. Len(ls) /\ ~(n <= n - 1)
    BY <2>1, <1>4
  <2> HIDE DEF S
  <2> QED
    BY <2>2, <1>3
<1>6. PICK sum : Upto(n - 1, sum)
  BY <1>5
<1>7. ls[n].len \in Nat
  BY <1>3, <1>4, IniAssumption
<1>8. Upto(n, [i \in 0 .. n |-> IF i = n THEN sum[n - 1] + ls[n].len ELSE sum[i]])
  BY <1>3, <1>4, <1>6, <1>7
<1> QED
  BY <1>3, <1>8

\* Two that add the same lengths agree, as far as both go.
LEMMA SumsAgree ==
  ASSUME NEW s \in Seq(Lines), NEW t \in Seq(Lines), Len(s) <= Len(t),
         \A i \in 1 .. Len(s) : s[i] = t[i],
         NEW f, Sums(f, s), NEW g, Sums(g, t)
  PROVE  \A i \in 0 .. Len(s) : f[i] = g[i]
<1> DEFINE S == {i \in 0 .. Len(s) : f[i] # g[i]}
<1>1. SUFFICES ASSUME S # {} PROVE FALSE
  OBVIOUS
<1>2. PICK n \in S : \A m \in S : n <= m
  <2>1. S \in SUBSET Nat
    OBVIOUS
  <2> QED
    BY <2>1, <1>1, MinOf
<1>3. n # 0
  BY <1>2 DEF Sums
<1>4. n - 1 \in 0 .. Len(s) /\ n - 1 \notin S
  BY <1>2, <1>3
<1>5. f[n - 1] = g[n - 1] /\ s[n] = t[n]
  BY <1>4, <1>2, <1>3
<1>6. n \in 0 .. Len(s) /\ n \in 0 .. Len(t)
  BY <1>2
<1>7. f[n] = f[n - 1] + s[n].len
  BY <1>3, <1>6 DEF Sums
<1>8. g[n] = g[n - 1] + t[n].len
  BY <1>3, <1>6 DEF Sums
<1> QED
  BY <1>2, <1>5, <1>7, <1>8

\* Length is the last number of any such function.
LEMMA LengthIs ==
  ASSUME NEW ls \in Seq(Lines), NEW f, Sums(f, ls)
  PROVE  Length(ls) = f[Len(ls)] /\ Length(ls) \in Nat
<1> DEFINE Def(g) ==
      g = [i \in 0 .. Len(ls) |-> IF i = 0 THEN 0 ELSE g[i - 1] + ls[i].len]
    sum == CHOOSE g : Def(g)
<1>1. Def(f)
  BY DEF Sums
<1>2. Def(sum)
  BY <1>1
<1>3. Length(ls) = sum[Len(ls)]
  BY DEF Length
<1>4. \A i \in 0 .. Len(ls) : sum[i] = f[i]
  <2> DEFINE S == {i \in 0 .. Len(ls) : f[i] # sum[i]}
  <2>1. SUFFICES ASSUME S # {} PROVE FALSE
    OBVIOUS
  <2>2. PICK n \in S : \A m \in S : n <= m
    <3>1. S \in SUBSET Nat
      OBVIOUS
    <3> QED
      BY <3>1, <2>1, MinOf
  <2>3. n # 0
    BY <2>2, <1>1, <1>2
  <2>4. n - 1 \in 0 .. Len(ls) /\ n - 1 \notin S
    BY <2>2, <2>3
  <2>5. f[n - 1] = sum[n - 1]
    BY <2>4
  <2> QED
    BY <2>2, <2>3, <2>5, <1>1, <1>2
<1> QED
  BY <1>3, <1>4 DEF Sums

\* What the length of nothing is, and of lines with one more.
LEMMA LengthAppend ==
  /\ Length(<<>>) = 0
  /\ \A ls \in Seq(Lines), l \in Lines :
       Length(Append(ls, l)) = Length(ls) + l.len /\ Length(ls) \in Nat
<1>1. Length(<<>>) = 0
  <2>1. Sums([i \in 0 .. 0 |-> 0], <<>>)
    BY DEF Sums
  <2>2. Length(<<>>) = [i \in 0 .. 0 |-> 0][0]
    BY <2>1, LengthIs
  <2> QED
    BY <2>2
<1>2. ASSUME NEW ls \in Seq(Lines), NEW l \in Lines
      PROVE  Length(Append(ls, l)) = Length(ls) + l.len /\ Length(ls) \in Nat
  <2> DEFINE t == Append(ls, l)
  <2>1. /\ t \in Seq(Lines) /\ Len(t) = Len(ls) + 1 /\ Len(ls) \in Nat
        /\ \A i \in 1 .. Len(ls) : ls[i] = t[i]
        /\ t[Len(t)] = l
    OBVIOUS
  <2> HIDE DEF t
  <2>2. PICK f : Sums(f, ls)
    BY SumsExist
  <2>3. PICK g : Sums(g, t)
    BY SumsExist, <2>1
  <2>4. f[Len(ls)] = g[Len(ls)]
    BY <2>1, <2>2, <2>3, SumsAgree
  <2>5. g[Len(t)] = g[Len(ls)] + l.len
    BY <2>1, <2>3 DEF Sums
  <2>6. Length(ls) = f[Len(ls)] /\ Length(t) = g[Len(t)] /\ Length(ls) \in Nat
    BY <2>1, <2>2, <2>3, LengthIs
  <2> QED
    BY <2>4, <2>5, <2>6 DEF t
<1> QED
  BY <1>1, <1>2

-----------------------------------------------------------------------------
(* What is said by the lines read already does not change.                  *)

\* A line is read, and the fates of those before it stay.
Reads(l) ==
  /\ file' = Append(file, l)
  /\ \A e \in DOMAIN file : e \in DOMAIN fate' <=> e \in DOMAIN fate
  /\ \A e \in DOMAIN fate : fate'[e] = fate[e]

\* A logical line starts at a line of the file, not behind its end.
LEMMA StartIn ==
  ASSUME file \in Seq(Lines), NEW e \in 1 .. Len(file) + 1
  PROVE  Start(e) \in 1 .. e
<1> DEFINE S == {0} \cup {j \in Ends : j < e}
<1>1. S \in SUBSET Nat /\ S # {} /\ \A x \in S : x <= e - 1 /\ x \in 0 .. e - 1
  BY DEF Ends
<1>2. e - 1 \in Nat
  OBVIOUS
<1> HIDE DEF S
<1>3. Max(S) \in S
  BY <1>1, <1>2, MaxOf
<1>4. Max(S) \in 0 .. e - 1
  BY <1>1, <1>3
<1>5. Start(e) = 1 + Max(S)
  BY DEF Start, S
<1> QED
  BY <1>4, <1>5

\* The file has one line more.
LEMMA FileGrows ==
  ASSUME file \in Seq(Lines), NEW l \in Lines, Reads(l), NEW n, n = Len(file) + 1
  PROVE  /\ file' \in Seq(Lines) /\ Len(file') = n /\ n \in Nat \ {0}
         /\ DOMAIN file = 1 .. n - 1 /\ DOMAIN file' = 1 .. n
         /\ file'[n] = l /\ \A e \in DOMAIN file : file'[e] = file[e]
         /\ Ends' = Ends \cup {e \in {n} : ~l.cont}
         /\ Ends \subseteq 1 .. n - 1
<1>1. /\ file' \in Seq(Lines) /\ Len(file') = n /\ n \in Nat \ {0}
      /\ DOMAIN file = 1 .. n - 1 /\ DOMAIN file' = 1 .. n
      /\ file'[n] = l /\ \A e \in DOMAIN file : file'[e] = file[e]
  BY DEF Reads
<1>2. Ends' = Ends \cup {e \in {n} : ~l.cont}
  BY <1>1 DEF Ends
<1> QED
  BY <1>1, <1>2 DEF Ends

\* So every line that ended says what it said.
LEMMA PastStays ==
  ASSUME file \in Seq(Lines), NEW l \in Lines, Reads(l), NEW n, n = Len(file) + 1
  PROVE  /\ \A e \in 1 .. n : Start(e)' = Start(e)
         /\ \A e \in 1 .. n - 1 : Says(e)' = Says(e)
         /\ \A e \in 1 .. n - 1 : \A fates : Had(e, fates)' <=> Had(e, fates)
         /\ \A e \in 0 .. n - 1 : SectionAt(e)' = SectionAt(e)
         /\ \A e \in 1 .. n - 1 : KeyOf(e)' = KeyOf(e)
         /\ \A e \in 1 .. n - 1 : e \in Setters' <=> e \in Setters
<1>1. /\ file' \in Seq(Lines) /\ Len(file') = n /\ n \in Nat \ {0}
      /\ DOMAIN file = 1 .. n - 1 /\ DOMAIN file' = 1 .. n
      /\ file'[n] = l /\ \A e \in DOMAIN file : file'[e] = file[e]
      /\ Ends' = Ends \cup {e \in {n} : ~l.cont}
      /\ Ends \subseteq 1 .. n - 1
  BY FileGrows
<1>2. ASSUME NEW e \in 1 .. n PROVE Start(e)' = Start(e)
  <2>1. {j \in Ends' : j < e} = {j \in Ends : j < e}
    BY <1>1
  <2> QED
    BY <2>1 DEF Start
<1>3. ASSUME NEW e \in 1 .. n - 1, NEW fates PROVE Had(e, fates)' <=> Had(e, fates)
  BY <1>1 DEF Had, Reads
<1>4. ASSUME NEW e \in 1 .. n - 1 PROVE Says(e)' = Says(e)
  <2>1. Start(e) \in 1 .. e /\ Start(e)' = Start(e)
    BY <1>1, <1>2, StartIn
  <2>2. SubSeq(file', Start(e), e) = SubSeq(file, Start(e), e)
    BY <1>1, <2>1
  <2>3. SubSeq(file, Start(e), e)' = SubSeq(file, Start(e), e)
    BY <2>1, <2>2
  <2>4. Had(e, {"skipped", "unread"})' <=> Had(e, {"skipped", "unread"})
    BY <1>3
  <2> QED
    BY <2>3, <2>4 DEF Says, Classify
<1>5. ASSUME NEW e \in 0 .. n - 1 PROVE SectionAt(e)' = SectionAt(e)
  <2> DEFINE lines == {j \in Ends : j <= e /\ Says(j).sta = "SECTION"}
             named == {j \in lines : Says(j).name # <<>>}
  <2>1. lines' = lines
    <3>1. \A j : j \in Ends' /\ j <= e <=> j \in Ends /\ j <= e
      BY <1>1
    <3>2. \A j \in Ends : Says(j)' = Says(j)
      BY <1>1, <1>4
    <3> QED
      BY <3>1, <3>2
  <2>2. named' = named
    <3>1. \A j \in lines : Says(j)' = Says(j)
      BY <1>1, <1>4
    <3> QED
      BY <2>1, <3>1
  <2>3. CASE named = {}
    BY <2>2, <2>3 DEF SectionAt
  <2>4. CASE named # {}
    <3>1. Max(named) \in 1 .. n - 1
      <4>1. named \in SUBSET Nat /\ named \subseteq 1 .. n - 1 /\ n - 1 \in Nat
            /\ \A x \in named : x <= n - 1
        <5>1. \A x \in named : x \in 1 .. n - 1
          BY <1>1
        <5>2. n - 1 \in Nat
          BY <1>1
        <5> HIDE DEF named
        <5> QED
          BY <5>1, <5>2
      <4> HIDE DEF named
      <4> QED
        BY <4>1, <2>4, MaxOf
    <3>2. PICK m \in 1 .. n - 1 : m = Max(named)
      BY <3>1
    <3>3. Says(m)' = Says(m)
      BY <1>4
    <3>4. Says(Max(named))' = Says(Max(named))
      BY <3>2, <3>3, <2>2 DEF Says, Had
    <3> QED
      BY <2>1, <2>2, <2>4, <3>4 DEF SectionAt
  <2> QED
    BY <2>3, <2>4
<1>6. ASSUME NEW e \in 1 .. n - 1
      PROVE  KeyOf(e)' = KeyOf(e) /\ (e \in Setters' <=> e \in Setters)
  <2>1. Had(e, {"ignored"})' <=> Had(e, {"ignored"})
    BY <1>3
  <2>2. Says(e)' = Says(e)
    BY <1>4
  <2>3. e \in 0 .. n - 1
    BY <1>1
  <2>4. SectionAt(e)' = SectionAt(e)
    BY <2>3, <1>5
  <2>5. e \in Ends' <=> e \in Ends
    BY <1>1
  <2> QED
    BY <2>1, <2>2, <2>4, <2>5 DEF KeyOf, Setters
<1> QED
  BY <1>2, <1>3, <1>4, <1>5, <1>6

-----------------------------------------------------------------------------
(* What the line read last adds.                                            *)

\* The next logical line starts behind the last that ended.
LEMMA StartAfter ==
  ASSUME file \in Seq(Lines), NEW l \in Lines, Reads(l), NEW n, n = Len(file) + 1
  PROVE  Start(n + 1)' = IF l.cont THEN Start(n) ELSE n + 1
<1> DEFINE S == {0} \cup {j \in Ends' : j < n + 1}
<1>1. /\ n \in Nat \ {0} /\ Ends \subseteq 1 .. n - 1
      /\ Ends' = Ends \cup {e \in {n} : ~l.cont}
  BY FileGrows
<1>2. Start(n + 1)' = 1 + Max(S)
  BY DEF Start
<1>3. CASE l.cont
  <2>1. Ends' = Ends
    BY <1>1, <1>3
  <2>2. \A j \in Ends : j < n + 1 <=> j < n
    BY <1>1
  <2>3. {j \in Ends' : j < n + 1} = {j \in Ends : j < n}
    BY <2>1, <2>2
  <2> QED
    BY <2>3, <1>2, <1>3 DEF Start
<1>4. CASE ~l.cont
  <2>1. n \in Ends' /\ \A j \in Ends' : j \in 1 .. n
    BY <1>1, <1>4
  <2>2. n \in S /\ \A x \in S : x \in Nat /\ x <= n
    BY <2>1, <1>1
  <2> HIDE DEF S
  <2>3. S \in SUBSET Nat
    BY <2>2
  <2>4. Max(S) = n
    BY <2>2, <2>3, MaxIs
  <2> QED
    BY <2>4, <1>1, <1>2, <1>4
<1> QED
  BY <1>3, <1>4

\* A line that ends says what it says with those the buffer holds.
LEMMA LastSays ==
  ASSUME file \in Seq(Lines), NEW l \in Lines, Reads(l), NEW n, n = Len(file) + 1,
         held = SubSeq(file, Start(n), n - 1)
  PROVE  /\ SubSeq(file, Start(n), n)' = Append(held, l)
         /\ Says(n)' = IF Had(n, {"skipped", "unread"})' THEN Line("EMPTY", <<>>)
                       ELSE Classify(Append(held, l))
<1>1. /\ file' \in Seq(Lines) /\ Len(file') = n /\ n \in Nat \ {0}
      /\ DOMAIN file = 1 .. n - 1 /\ DOMAIN file' = 1 .. n
      /\ file'[n] = l /\ \A e \in DOMAIN file : file'[e] = file[e]
  BY FileGrows
<1>2. Start(n) \in 1 .. n /\ Start(n)' = Start(n)
  BY <1>1, StartIn, PastStays
<1>3. SubSeq(file', Start(n), n) = Append(SubSeq(file, Start(n), n - 1), l)
  BY <1>1, <1>2
<1>4. SubSeq(file, Start(n), n)' = Append(held, l)
  BY <1>2, <1>3
<1>5. Says(n)' = IF Had(n, {"skipped", "unread"})' THEN Line("EMPTY", <<>>)
                 ELSE Classify(SubSeq(file, Start(n), n)')
  BY DEF Says, Classify
<1> QED
  BY <1>4, <1>5

\* The section changes with a line that says one.
LEMMA LastSection ==
  ASSUME file \in Seq(Lines), NEW l \in Lines, Reads(l), NEW n, n = Len(file) + 1,
         section = SectionAt(n - 1), NEW line, line = Says(n)'
  PROVE  SectionAt(n)' = IF ~l.cont /\ line.sta = "SECTION" THEN SectionOf(line.name)
                         ELSE section
<1> DEFINE lines(e) == {j \in Ends : j <= e /\ Says(j).sta = "SECTION"}
           named(e) == {j \in lines(e) : Says(j).name # <<>>}
           old  == lines(n - 1)
           olds == named(n - 1)
           new  == ~l.cont /\ line.sta = "SECTION"
<1>1. /\ n \in Nat \ {0} /\ Ends \subseteq 1 .. n - 1
      /\ Ends' = Ends \cup {e \in {n} : ~l.cont}
  BY FileGrows
<1>2. \A e \in 1 .. n - 1 : Says(e)' = Says(e)
  BY PastStays
<1>3. \A j : j \in lines(n)' <=> j \in old \/ (j = n /\ new)
  <2> TAKE j
  <2>1. CASE j = n
    <3>1. j \notin Ends /\ (j \in Ends' <=> ~l.cont) /\ j <= n
      BY <1>1, <2>1
    <3> QED
      BY <3>1, <2>1
  <2>2. CASE j # n
    <3>1. j \in Ends' <=> j \in Ends
      BY <1>1, <2>2
    <3>2. j \in Ends => j <= n /\ j <= n - 1 /\ Says(j)' = Says(j)
      BY <1>1, <1>2
    <3> QED
      BY <3>1, <3>2, <2>2
  <2> QED
    BY <2>1, <2>2
<1>4. \A j : j \in named(n)' <=> j \in olds \/ (j = n /\ new /\ line.name # <<>>)
  <2> TAKE j
  <2>1. j \in old => j # n /\ Says(j)' = Says(j)
    BY <1>1, <1>2
  <2>2. j \in named(n)' <=> j \in lines(n)' /\ Says(j)'.name # <<>>
    OBVIOUS
  <2> QED
    BY <1>3, <2>1, <2>2
<1>5. \A j \in old : j \in 1 .. n - 1
  BY <1>1
<1>6. SectionAt(n)' =
        LET name == Says(Max(named(n)))'.name
        IN  IF named(n)' = {} THEN NoSection
            ELSE IF Max(lines(n)') \in named(n)' \/ name = NoSection THEN name ELSE <<Odd>>
  BY DEF SectionAt, NoSection
<1>7. section =
        LET name == Says(Max(olds)).name
        IN  IF olds = {} THEN NoSection
            ELSE IF Max(old) \in olds \/ name = NoSection THEN name ELSE <<Odd>>
  BY DEF SectionAt
<1>8. olds # {} => Max(olds) \in 1 .. n - 1
  <2>1. n - 1 \in Nat
    BY <1>1
  <2>2. \A j \in olds : j \in 1 .. n - 1
    BY <1>5
  <2> HIDE DEF olds
  <2>3. olds \in SUBSET Nat /\ \A j \in olds : j <= n - 1
    BY <2>1, <2>2
  <2> QED
    BY <2>1, <2>2, <2>3, MaxOf
<1>9. ASSUME olds # {}, named(n)' = olds
      PROVE  Says(Max(named(n)))'.name = Says(Max(olds)).name
  <2>1. PICK m \in 1 .. n - 1 : m = Max(olds)
    BY <1>8, <1>9
  <2>2. Says(m)' = Says(m)
    BY <1>2
  <2> QED
    BY <2>1, <2>2, <1>9 DEF Says, Had
<1> HIDE DEF lines, named
<1>10. CASE ~new
  <2>1. lines(n)' = old /\ named(n)' = olds
    BY <1>3, <1>4, <1>10
  <2> QED
    BY <2>1, <1>6, <1>7, <1>9, <1>10
<1>11. ASSUME new PROVE Max(lines(n)') = n
  <2>1. lines(n)' \in SUBSET Nat /\ n \in lines(n)' /\ \A j \in lines(n)' : j <= n
    BY <1>1, <1>3, <1>5, <1>11
  <2> QED
    BY <2>1, MaxIs
<1>12. CASE new /\ line.name # <<>>
  <2>1. named(n)' \in SUBSET Nat /\ n \in named(n)' /\ \A j \in named(n)' : j <= n
    BY <1>1, <1>4, <1>5, <1>12 DEF named
  <2>2. Max(named(n)') = n
    BY <2>1, MaxIs
  <2>3. Says(Max(named(n)))'.name = line.name
    BY <2>2 DEF Says, Had
  <2> QED
    BY <2>1, <2>3, <1>6, <1>11, <1>12 DEF SectionOf
<1>13. CASE new /\ line.name = <<>>
  <2>1. named(n)' = olds /\ n \notin olds
    BY <1>1, <1>4, <1>5, <1>13 DEF named
  <2>2. CASE olds = {}
    BY <2>1, <2>2, <1>6, <1>7, <1>13 DEF SectionOf
  <2>3. CASE olds # {}
    BY <2>1, <2>3, <1>6, <1>7, <1>9, <1>11, <1>13 DEF SectionOf
  <2> QED
    BY <2>2, <2>3
<1> QED
  BY <1>10, <1>12, <1>13

\* A key gets the value of the line if that sets it, and keeps its own otherwise.
LEMMA LastWrites ==
  ASSUME file \in Seq(Lines), NEW l \in Lines, Reads(l), NEW n, n = Len(file) + 1,
         NEW line, line = Says(n)', NEW key
  PROVE  Written(key, Default)' =
           IF n \in Setters' /\ KeyOf(n)' = key
             THEN IF Had(n, {"nulled"})' THEN NULL ELSE line.val
             ELSE Written(key, Default)
<1> DEFINE old == {e \in Setters : KeyOf(e) = key}
           new == n \in Setters' /\ KeyOf(n)' = key
<1>1. /\ n \in Nat \ {0} /\ Ends \subseteq 1 .. n - 1
      /\ Ends' = Ends \cup {e \in {n} : ~l.cont}
  BY FileGrows
<1>2. \A e \in 1 .. n - 1 : KeyOf(e)' = KeyOf(e) /\ (e \in Setters' <=> e \in Setters)
  BY PastStays
<1>3. \A e : e \in old' <=> e \in old \/ (e = n /\ new)
  <2> TAKE e
  <2>1. /\ e \in Setters => e \in 1 .. n - 1
        /\ e \in Setters' => e \in 1 .. n - 1 \/ e = n
        /\ n \notin Setters
    <3>1. Setters \subseteq 1 .. n - 1 /\ Setters' \subseteq (1 .. n - 1) \cup {n}
      BY <1>1 DEF Setters
    <3>2. n \notin Setters
      BY <3>1, <1>1
    <3> QED
      BY <3>1, <3>2
  <2> QED
    BY <2>1, <1>2
<1>4. \A e \in old : e \in 1 .. n - 1
  BY <1>1 DEF Setters
<1>5. Written(key, Default)' =
        IF old' = {} THEN Default
        ELSE IF Had(Max(old), {"nulled"})' THEN NULL ELSE Says(Max(old))'.val
  BY DEF Written, LastValue
<1>6. Written(key, Default) =
        IF old = {} THEN Default
        ELSE IF Had(Max(old), {"nulled"}) THEN NULL ELSE Says(Max(old)).val
  BY DEF Written, LastValue
<1>7. CASE new
  <2> HIDE DEF old
  <2>1. old' \in SUBSET Nat /\ n \in old' /\ \A e \in old' : e <= n
    BY <1>1, <1>3, <1>4, <1>7
  <2>2. Max(old') = n
    BY <2>1, MaxIs
  <2>3. Says(Max(old))' = line /\ (Had(Max(old), {"nulled"})' <=> Had(n, {"nulled"})')
    BY <2>2 DEF Says, Had
  <2> QED
    BY <2>1, <2>3, <1>5, <1>7
<1>8. CASE ~new
  <2>1. old' = old
    BY <1>3, <1>8
  <2>2. CASE old = {}
    BY <2>1, <2>2, <1>5, <1>6, <1>8
  <2>3. CASE old # {}
    <3>1. PICK m \in 1 .. n - 1 : m = Max(old)
      <4>1. n - 1 \in Nat
        BY <1>1
      <4> HIDE DEF old
      <4>2. old \in SUBSET Nat /\ \A e \in old : e <= n - 1
        BY <4>1, <1>4
      <4> QED
        BY <4>1, <4>2, <1>4, <2>3, MaxOf
    <3>2. Says(m)' = Says(m) /\ (Had(m, {"nulled"})' <=> Had(m, {"nulled"}))
      BY PastStays
    <3>3. /\ Says(Max(old))' = Says(Max(old))
          /\ Had(Max(old), {"nulled"})' <=> Had(Max(old), {"nulled"})
      BY <2>1, <3>1, <3>2 DEF Says, Had
    <3> QED
      BY <2>1, <2>3, <3>3, <1>5, <1>6, <1>8
  <2> QED
    BY <2>2, <2>3
<1> QED
  BY <1>7, <1>8

\* The file is bad if it was, or if the line is.
LEMMA LastIsBad ==
  ASSUME file \in Seq(Lines), NEW l \in Lines, Reads(l), NEW n, n = Len(file) + 1,
         NEW line, line = Says(n)'
  PROVE  IsBad' <=> IsBad \/ (~l.cont /\ line.sta = "ERROR")
<1>1. /\ n \in Nat \ {0} /\ Ends \subseteq 1 .. n - 1
      /\ Ends' = Ends \cup {e \in {n} : ~l.cont}
  BY FileGrows
<1>2. \A e \in Ends : Says(e)' = Says(e)
  BY <1>1, PastStays
<1>3. IsBad' <=> \E e \in Ends' : Says(e)'.sta = "ERROR"
  BY DEF IsBad
<1> QED
  BY <1>1, <1>2, <1>3 DEF IsBad

-----------------------------------------------------------------------------
(* Type correctness.                                                        *)

Stas == {"EMPTY", "COMMENT", "SECTION", "VALUE", "ERROR"}

\* What a line can be; a section is named by a line of it.
LEMMA ClassifyIs ==
  ASSUME NEW ls \in Seq(Lines), NEW line, line = Classify(ls)
  PROVE  /\ line.sta \in Stas /\ line.name \in Seq(Words)
         /\ line.sta = "VALUE" => line.val \in Vals
         /\ line.sta = "SECTION" =>
              /\ line.val = NULL
              /\ \E i \in DOMAIN ls : ls[i].kind = "section" /\ ls[i].name = line.name
<1> DEFINE text == TextOf(ls)
           ents == {i \in text : ls[i].kind = "entry"}
<1>1. text \in SUBSET Nat /\ text \subseteq DOMAIN ls
  BY DEF TextOf
<1>2. \A i \in DOMAIN ls : ls[i] \in Lines /\ ls[i].name \in Seq(Words) /\ ls[i].val \in Vals
  BY IniAssumption DEF Vals
<1>3. Odd \in Words /\ <<Odd>> \in Seq(Words) /\ Odd \in Vals /\ <<>> \in Seq(Words)
  <2>1. Odd \in Words /\ Odd \in Vals
    BY DEF Words, Vals
  <2> QED
    BY <2>1
<1>4. text # {} => Min(text) \in DOMAIN ls
  BY <1>1, MinOf
<1>5. ents # {} => Min(ents) \in DOMAIN ls
  BY <1>1, MinOf
<1>6. CASE text = {}
  BY <1>3, <1>6 DEF Classify, Line, Stas
<1>7. CASE text # {}
  <2> DEFINE first == ls[Min(text)]
  <2>1. first.name \in Seq(Words)
    BY <1>2, <1>4, <1>7
  <2>2. CASE first.kind = "comment"
    BY <1>3, <1>7, <2>2 DEF Classify, Line, Stas
  <2>3. CASE first.kind = "section" /\ ls[Max(text)].kind = "section"
    <3>1. line = Line("SECTION", first.name)
      BY <1>7, <2>3 DEF Classify
    <3> QED
      BY <3>1, <2>1, <2>3, <1>4, <1>7 DEF Line, Stas
  <2>4. CASE /\ first.kind # "comment"
             /\ ~(first.kind = "section" /\ ls[Max(text)].kind = "section")
    <3>1. CASE ents # {}
      <4>1. line = EntryOf(ls)
        BY <1>7, <2>4, <3>1 DEF Classify
      <4>2. /\ line.sta = "VALUE"
            /\ line.name \in {ls[Min(ents)].name, <<Odd>>}
            /\ line.val \in {ls[Min(ents)].val, Odd}
        BY <4>1 DEF EntryOf
      <4> QED
        BY <4>2, <1>2, <1>3, <1>5, <3>1 DEF Stas
    <3>2. CASE ents = {}
      <4>1. line = Line("ERROR", <<>>)
        BY <1>7, <2>4, <3>2 DEF Classify
      <4> QED
        BY <4>1, <1>3 DEF Line, Stas
    <3> QED
      BY <3>1, <3>2
  <2> QED
    BY <2>2, <2>3, <2>4
<1> QED
  BY <1>6, <1>7

\* What becomes of a line is known of it alone.
LEMMA FatesAre ==
  ASSUME TypeInv, NEW l \in Lines, file' = Append(file, l), NEW n, n = Len(file) + 1
  PROVE  /\ UNCHANGED fate => Reads(l) /\ \A S : ~Had(n, S)'
         /\ \A what : Fated(what) => Reads(l) /\ \A S : Had(n, S)' <=> what \in S
<1>1. DOMAIN fate \subseteq 1 .. n - 1 /\ DOMAIN file = 1 .. n - 1 /\ Len(file') = n /\ n \in Nat
  BY DEF TypeInv, Consistent, TypeOK
<1>2. n \notin DOMAIN fate
  BY <1>1
<1>3. ASSUME UNCHANGED fate PROVE Reads(l) /\ \A S : ~Had(n, S)'
  BY <1>2, <1>3 DEF Reads, Had
<1>4. ASSUME NEW what, Fated(what) PROVE Reads(l) /\ \A S : Had(n, S)' <=> what \in S
  <2>1. fate' = [i \in DOMAIN fate \cup {n} |-> IF i = n THEN what ELSE fate[i]]
    BY <1>1, <1>4 DEF Fated
  <2>2. DOMAIN fate' = DOMAIN fate \cup {n} /\ fate'[n] = what
    BY <2>1
  <2>3. \A e \in DOMAIN fate : e # n /\ fate'[e] = fate[e]
    BY <2>1, <1>2
  <2>4. \A e \in DOMAIN file : e # n
    BY <1>1
  <2> QED
    BY <2>2, <2>3, <2>4 DEF Reads, Had
<1> QED
  BY <1>3, <1>4

\* The parser starts with every variable in its range.
LEMMA TypeInvInit == Init => TypeInv
<1> SUFFICES ASSUME Init PROVE TypeInv
  OBVIOUS
<1>1. \A k \in DOMAIN map : FALSE
  BY DEF Init
<1>2. DOMAIN fate \subseteq DOMAIN file
  BY DEF Init
<1> QED
  BY <1>1, <1>2, IniAssumption DEF Init, TypeInv, Consistent, TypeOK, RoomLeft

\* What dictionary_set leaves is a dictionary.
LEMMA SetEntryTypes ==
  ASSUME TypeInv, NEW key, NEW val \in Vals \cup {NULL}, SetEntry(key, val), pc = "reading"
  PROVE  /\ \A k \in DOMAIN map' : map'[k] \in Vals \cup {NULL}
         /\ mem_err' \in {0, -1} /\ faults' \in 0 .. MaxFaults
         /\ pc' \in {"reading", "ended"}
<1>1. /\ \A k \in DOMAIN map : map[k] \in Vals \cup {NULL}
      /\ faults \in 0 .. MaxFaults /\ MaxFaults \in Nat
  BY IniAssumption DEF TypeInv, Consistent, TypeOK
<1>2. \A v \in {val, NULL} : \A k \in DOMAIN D!With(map, key, v) :
        D!With(map, key, v)[k] \in Vals \cup {NULL}
  BY <1>1 DEF D!With
<1>3. CASE D!Put(key, val) /\ UNCHANGED <<pc, fate>>
  BY <1>1, <1>2, <1>3 DEF D!Put
<1>4. CASE Fault /\ val # NULL /\ D!PutNothing(key) /\ Fated("nulled") /\ UNCHANGED pc
  BY <1>1, <1>2, <1>4 DEF D!PutNothing, Fault
<1>5. CASE Fault /\ D!Ignore(key) /\ Fated("ignored") /\ UNCHANGED pc
  BY <1>1, <1>5 DEF D!Ignore, Fault
<1>6. CASE Fault /\ key \notin DOMAIN map /\ D!Refuse /\ Fated("ignored") /\ pc' = "ended"
  BY <1>1, <1>6 DEF D!Refuse, Fault
<1> QED
  BY <1>3, <1>4, <1>5, <1>6 DEF SetEntry

\* A fate is that of a line of the file.
LEMMA FateIn ==
  ASSUME TypeInv, NEW l \in Lines, ReadsLine(l),
         UNCHANGED fate \/ \E what : Fated(what)
  PROVE  DOMAIN fate' \subseteq DOMAIN file'
BY DEF TypeInv, Consistent, TypeOK, ReadsLine, Fated

\* The bounds on what is counted, after a line.
LEMMA ReadTypes ==
  ASSUME TypeInv, NEW l \in Lines, ReadsLine(l)
  PROVE  /\ file' \in Seq(Lines) /\ Len(file') <= MaxLines /\ Len(file') = Len(file) + 1
         /\ errs \in Nat /\ errs < Len(file') /\ errs < MaxLines
         /\ last \in 0 .. Cap - 2 /\ l.len \in Nat /\ l.cont \in BOOLEAN
         /\ Append(held, l) \in Seq(Lines) /\ held \in Seq(Lines)
         /\ (l.cont => l.len > 0) /\ Cap \in Nat /\ MaxLines \in Nat
         /\ faults \in 0 .. MaxFaults /\ MaxFaults \in Nat
<1>1. /\ l.len \in Nat /\ l.cont \in BOOLEAN /\ (l.cont => l.len > 0)
      /\ Cap \in Nat /\ Cap >= 2 /\ MaxLines \in Nat /\ MaxFaults \in Nat
  BY IniAssumption
<1>2. /\ file \in Seq(Lines) /\ held \in Seq(Lines) /\ errs \in 0 .. MaxLines
      /\ errs <= Len(file) /\ faults \in 0 .. MaxFaults /\ last \in 0 .. Cap
  BY DEF TypeInv, Consistent, TypeOK
<1>3. Cap - last >= 2
  BY DEF TypeInv, Consistent, RoomLeft, ReadsLine
<1> QED
  BY <1>1, <1>2, <1>3 DEF ReadsLine

\* Every step leaves every variable in its range.
LEMMA TypeInvStep == TypeInv /\ [Next]_vars => TypeInv'
<1> SUFFICES ASSUME TypeInv, [Next]_vars PROVE TypeInv'
  OBVIOUS
<1> USE DEF TypeInv, Consistent, TypeOK, RoomLeft
<1>1. CASE UNCHANGED vars
  BY <1>1 DEF vars
<1>2. CASE Load \/ LoadFails
  BY <1>2, IniAssumption DEF Load, LoadFails
<1>3. CASE End
  <2>1. \A k \in DOMAIN map' : map'[k] \in Vals \cup {NULL}
    BY <1>3 DEF End
  <2> QED
    BY <1>3, <2>1 DEF End
<1>4. CASE GetConfig
  <2>1. cfg' \in [Settings -> Vals \cup {Default, NULL}]
    BY <1>4 DEF GetConfig, GetString
  <2>2. pc' \in {"crashed", "configured"}
    BY <1>4 DEF GetConfig
  <2> QED
    BY <1>4, <2>1, <2>2 DEF GetConfig
<1>5. CASE GetConfigFails
  BY <1>5 DEF GetConfigFails
<1>6. ASSUME NEW l \in Lines, TooLong(l) PROVE TypeInv'
  <2>1. ReadsLine(l) /\ pc' = "null" /\ map' = << >>
        /\ UNCHANGED <<held, last, section, mem_err, errs, faults, cfg, fate>>
    BY <1>6 DEF TooLong
  <2>2. \A k \in DOMAIN map' : map'[k] \in Vals \cup {NULL}
    BY <2>1
  <2>3. DOMAIN fate' \subseteq DOMAIN file'
    BY <2>1, FateIn
  <2> QED
    BY <2>1, <2>2, <2>3, ReadTypes
<1>7. ASSUME NEW l \in Lines, Continued(l) PROVE TypeInv'
  <2>1. /\ ReadsLine(l) /\ last + l.len <= Cap - 2 /\ l.cont
        /\ last' = last + l.len - 1 /\ held' = Append(held, l)
        /\ UNCHANGED <<pc, section, map, mem_err, errs, faults, cfg, fate>>
    BY <1>7 DEF Continued, Fits
  <2>2. DOMAIN fate' \subseteq DOMAIN file'
    BY <2>1, FateIn
  <2>3. /\ last \in 0 .. Cap - 2 /\ l.len \in Nat /\ l.len > 0 /\ Cap \in Nat
        /\ file' \in Seq(Lines) /\ Len(file') <= MaxLines /\ errs <= Len(file')
        /\ Append(held, l) \in Seq(Lines)
    <3>1. /\ file' \in Seq(Lines) /\ Len(file') <= MaxLines
          /\ errs \in Nat /\ errs < Len(file') /\ Append(held, l) \in Seq(Lines)
          /\ last \in 0 .. Cap - 2 /\ l.len \in Nat /\ (l.cont => l.len > 0) /\ Cap \in Nat
      BY <2>1, ReadTypes
    <3> QED
      BY ONLY <3>1, <2>1
  <2>4. last' \in 0 .. Cap /\ Cap - last' >= 2
    BY ONLY <2>1, <2>3
  <2> QED
    BY <2>1, <2>2, <2>3, <2>4 DEF ReadsLine
<1>8. ASSUME NEW l \in Lines, LastCharacter(l) PROVE TypeInv'
  <2>1. /\ ReadsLine(l) /\ Fated("unread") /\ pc' = "ended"
        /\ UNCHANGED <<held, last, section, map, mem_err, errs, faults, cfg>>
    BY <1>8 DEF LastCharacter
  <2>2. DOMAIN fate' \subseteq DOMAIN file'
    BY <2>1, FateIn
  <2> QED
    BY <2>1, <2>2, ReadTypes
<1>9. ASSUME NEW l \in Lines, Processed(l) PROVE TypeInv'
  <2> DEFINE line == Classify(Append(held, l))
  <2>1. /\ ReadsLine(l) /\ held' = <<>> /\ last' = 0 /\ UNCHANGED cfg
        /\ \/ /\ line.sta \in {"EMPTY", "COMMENT"}
              /\ UNCHANGED <<pc, section, map, mem_err, errs, faults, fate>>
           \/ /\ line.sta = "SECTION"
              /\ section' = SectionOf(line.name)
              /\ SetEntry(section', NULL)
              /\ UNCHANGED errs
           \/ /\ line.sta = "VALUE"
              /\ SetEntry(section \o line.name, line.val)
              /\ UNCHANGED <<section, errs>>
           \/ /\ line.sta = "ERROR"
              /\ errs' = errs + 1
              /\ UNCHANGED <<pc, section, map, mem_err, faults, fate>>
    BY <1>9 DEF Processed, ClearsBuffer
  <2>2. pc = "reading"
    BY <2>1 DEF ReadsLine
  <2>3. line.sta = "VALUE" => line.val \in Vals
    BY <2>1, ReadTypes, ClassifyIs
  <2> HIDE DEF line
  <2>4. UNCHANGED fate \/ \E what : Fated(what)
    BY <2>1 DEF SetEntry
  <2>5. DOMAIN fate' \subseteq DOMAIN file'
    BY <2>1, <2>4, FateIn
  <2>6. errs' \in {errs, errs + 1}
    BY <2>1
  <2>7. errs' \in 0 .. MaxLines /\ errs' <= Len(file')
    BY <2>1, <2>6, ReadTypes
  <2>8. ASSUME NEW key, NEW val \in Vals \cup {NULL}, SetEntry(key, val)
        PROVE  /\ \A k \in DOMAIN map' : map'[k] \in Vals \cup {NULL}
               /\ mem_err' \in {0, -1} /\ faults' \in 0 .. MaxFaults
               /\ pc' \in {"reading", "ended"}
    BY <2>2, <2>8, SetEntryTypes
  <2>9. /\ \A k \in DOMAIN map' : map'[k] \in Vals \cup {NULL}
        /\ mem_err' \in {0, -1} /\ faults' \in 0 .. MaxFaults
        /\ pc' \in {"reading", "ended"}
    <3>1. CASE UNCHANGED <<map, mem_err, faults, pc>>
      BY <3>1, <2>2
    <3>2. CASE line.sta = "SECTION" /\ SetEntry(section', NULL)
      <4>1. PICK key : key = section'
        OBVIOUS
      <4> QED
        BY <3>2, <4>1, <2>8
    <3>3. CASE line.sta = "VALUE" /\ SetEntry(section \o line.name, line.val)
      BY <3>3, <2>3, <2>8
    <3> QED
      BY <2>1, <3>1, <3>2, <3>3
  <2> QED
    BY <2>1, <2>5, <2>7, <2>9, ReadTypes
<1>10. ASSUME NEW l \in Lines, Skipped(l) PROVE TypeInv'
  <2>1. /\ ReadsLine(l) /\ Fated("skipped") /\ held' = <<>> /\ last' = 0 /\ Fault
        /\ UNCHANGED <<pc, section, map, mem_err, errs, cfg>>
    BY <1>10 DEF Skipped, ClearsBuffer
  <2>2. DOMAIN fate' \subseteq DOMAIN file'
    BY <2>1, FateIn
  <2>3. faults' \in 0 .. MaxFaults
    BY <2>1, ReadTypes DEF Fault
  <2> QED
    BY <2>1, <2>2, <2>3, ReadTypes DEF ReadsLine
<1> QED
  BY <1>1, <1>2, <1>3, <1>4, <1>5, <1>6, <1>7, <1>8, <1>9, <1>10 DEF Next

-----------------------------------------------------------------------------
(* The dictionary and the file.                                             *)

\* A line read is in the dictionary when it is set there, and nothing else changes.
LEMMA MappedRead ==
  ASSUME TypeInv, Mapped, pc = "reading", NEW l \in Lines, Reads(l),
         NEW n, n = Len(file) + 1, ~l.cont,
         NEW line, line = Says(n)', NEW sec, sec = SectionAt(n)',
         \/ /\ UNCHANGED map
            /\ line.sta \notin {"SECTION", "VALUE"} \/ Had(n, {"ignored"})'
         \/ /\ ~Had(n, {"ignored"})'
            /\ \E key : /\ \/ line.sta = "SECTION" /\ key = sec
                           \/ line.sta = "VALUE" /\ key = sec \o line.name
                        /\ map' = D!With(map, key, IF Had(n, {"nulled"})' THEN NULL ELSE line.val)
  PROVE  Mapped'
<1>1. /\ n \in Nat \ {0} /\ Ends \subseteq 1 .. n - 1 /\ Ends' = Ends \cup {n}
      /\ file \in Seq(Lines)
  BY FileGrows DEF TypeInv
<1>2. ASSUME NEW key
      PROVE  Written(key, Default)' =
               IF n \in Setters' /\ KeyOf(n)' = key
                 THEN IF Had(n, {"nulled"})' THEN NULL ELSE line.val
                 ELSE Written(key, Default)
  BY <1>1, LastWrites
<1>3. /\ n \in Setters' <=> line.sta \in {"SECTION", "VALUE"} /\ ~Had(n, {"ignored"})'
      /\ KeyOf(n)' = IF line.sta = "SECTION" THEN sec ELSE sec \o line.name
  BY <1>1 DEF Setters, KeyOf
<1>4. /\ DOMAIN map = {KeyOf(e) : e \in Setters}
      /\ \A key \in DOMAIN map : map[key] = Written(key, Default)
  BY DEF Mapped
<1>5. /\ Setters' = IF n \in Setters' THEN Setters \cup {n} ELSE Setters
      /\ \A e \in Setters : KeyOf(e)' = KeyOf(e)
  <2>1. \A e \in 1 .. n - 1 : KeyOf(e)' = KeyOf(e) /\ (e \in Setters' <=> e \in Setters)
    BY <1>1, PastStays
  <2>2. Setters \subseteq 1 .. n - 1 /\ Setters' \subseteq (1 .. n - 1) \cup {n}
    BY <1>1 DEF Setters
  <2>3. \A e \in Setters : e \in Setters' /\ KeyOf(e)' = KeyOf(e)
    BY <2>1, <2>2
  <2>4. \A e \in Setters' : e = n \/ e \in Setters
    BY <2>1, <2>2
  <2> QED
    BY <2>3, <2>4
<1>6. SUFFICES /\ DOMAIN map' = {KeyOf(e)' : e \in Setters'}
               /\ \A key \in DOMAIN map' : map'[key] = Written(key, Default)'
  BY DEF Mapped
<1>7. CASE /\ UNCHANGED map
           /\ line.sta \notin {"SECTION", "VALUE"} \/ Had(n, {"ignored"})'
  <2>1. n \notin Setters'
    BY <1>3, <1>7
  <2>2. \A key : Written(key, Default)' = Written(key, Default)
    BY <1>2, <2>1
  <2>3. {KeyOf(e)' : e \in Setters'} = {KeyOf(e) : e \in Setters}
    BY <1>5, <2>1
  <2> QED
    BY <2>2, <2>3, <1>4, <1>7
<1>8. ASSUME ~Had(n, {"ignored"})',
             NEW k, \/ line.sta = "SECTION" /\ k = sec
                    \/ line.sta = "VALUE" /\ k = sec \o line.name,
             NEW v, v = IF Had(n, {"nulled"})' THEN NULL ELSE line.val,
             map' = D!With(map, k, v)
      PROVE  /\ DOMAIN map' = {KeyOf(e)' : e \in Setters'}
             /\ \A key \in DOMAIN map' : map'[key] = Written(key, Default)'
  <2>1. /\ DOMAIN map' = DOMAIN map \cup {k} /\ map'[k] = v
        /\ \A key \in DOMAIN map : key # k => map'[key] = map[key]
    BY <1>8 DEF D!With
  <2>2. n \in Setters' /\ KeyOf(n)' = k
    BY <1>3, <1>8
  <2>3. Written(k, Default)' = v
    BY <1>2, <1>8, <2>2
  <2>4. \A key : key # k => Written(key, Default)' = Written(key, Default)
    BY <1>2, <2>2
  <2>5. \A key \in DOMAIN map' : map'[key] = Written(key, Default)'
    BY <2>1, <2>3, <2>4, <1>4
  <2>6. {KeyOf(e)' : e \in Setters'} = {KeyOf(e) : e \in Setters} \cup {k}
    BY <1>5, <2>2
  <2> QED
    BY <2>1, <2>5, <2>6, <1>4
<1> QED
  BY <1>7, <1>8

\* A line that goes on changes nothing that is said.
LEMMA MappedGoesOn ==
  ASSUME TypeInv, Mapped, pc = "reading", NEW l \in Lines, Reads(l), l.cont, UNCHANGED map
  PROVE  Mapped' /\ (IsBad' <=> IsBad)
<1>1. PICK n : n = Len(file) + 1
  OBVIOUS
<1>2. n \in Nat \ {0} /\ Ends \subseteq 1 .. n - 1 /\ Ends' = Ends /\ file \in Seq(Lines)
  BY <1>1, FileGrows DEF TypeInv
<1>3. n \notin Setters'
  BY <1>2 DEF Setters
<1>4. \A key : Written(key, Default)' = Written(key, Default)
  BY <1>1, <1>2, <1>3, LastWrites
<1>5. Setters' = Setters /\ \A e \in Setters : KeyOf(e)' = KeyOf(e)
  <2>1. \A e \in 1 .. n - 1 : KeyOf(e)' = KeyOf(e) /\ (e \in Setters' <=> e \in Setters)
    BY <1>1, <1>2, PastStays
  <2>2. Setters \subseteq 1 .. n - 1 /\ Setters' \subseteq 1 .. n - 1
    BY <1>2 DEF Setters
  <2> QED
    BY <2>1, <2>2
<1>6. {KeyOf(e)' : e \in Setters'} = {KeyOf(e) : e \in Setters}
  BY <1>5
<1>7. IsBad' <=> IsBad
  BY <1>1, <1>2, LastIsBad
<1> QED
  BY <1>4, <1>6, <1>7 DEF Mapped

\* Nothing else is said while no line is read.
LEMMA SameFile ==
  ASSUME UNCHANGED <<file, fate>>
  PROVE  /\ \A e : Start(e)' = Start(e)
         /\ \A e : Says(e)' = Says(e)
         /\ \A e : SectionAt(e)' = SectionAt(e)
         /\ Setters' = Setters /\ \A e : KeyOf(e)' = KeyOf(e)
         /\ \A key : Written(key, Default)' = Written(key, Default)
         /\ \A e, fates : Had(e, fates)' <=> Had(e, fates)
         /\ IsBad' <=> IsBad
         /\ Ends' = Ends
<1>1. Ends' = Ends
  BY DEF Ends
<1>2. \A e : Start(e)' = Start(e)
  BY <1>1 DEF Start
<1>3. \A e, fates : Had(e, fates)' <=> Had(e, fates)
  BY DEF Had
<1>4. \A e : Says(e)' = Says(e)
  BY <1>2, <1>3 DEF Says, Classify
<1>5. ASSUME NEW e PROVE SectionAt(e)' = SectionAt(e)
  <2> DEFINE lines == {j \in Ends : j <= e /\ Says(j).sta = "SECTION"}
             named == {j \in lines : Says(j).name # <<>>}
  <2>1. lines' = lines
    BY <1>1, <1>4
  <2>2. named' = named
    BY <2>1, <1>4
  <2>3. Says(Max(named))' = Says(Max(named))
    <3>1. PICK m : m = Max(named)
      OBVIOUS
    <3>2. Says(m)' = Says(m)
      BY <1>4
    <3> QED
      BY <2>2, <3>1, <3>2 DEF Says, Had
  <2> QED
    BY <2>1, <2>2, <2>3 DEF SectionAt, NoSection
<1>6. Setters' = Setters /\ \A e : KeyOf(e)' = KeyOf(e)
  BY <1>1, <1>3, <1>4, <1>5 DEF Setters, KeyOf
<1>7. ASSUME NEW key PROVE Written(key, Default)' = Written(key, Default)
  <2> DEFINE setters == {e \in Setters : KeyOf(e) = key}
  <2>1. setters' = setters
    BY <1>6
  <2>2. /\ Says(Max(setters))' = Says(Max(setters))
        /\ Had(Max(setters), {"nulled"})' <=> Had(Max(setters), {"nulled"})
    <3>1. PICK m : m = Max(setters)
      OBVIOUS
    <3>2. Says(m)' = Says(m) /\ (Had(m, {"nulled"})' <=> Had(m, {"nulled"}))
      BY <1>3, <1>4
    <3> QED
      BY <2>1, <3>1, <3>2 DEF Says, Had
  <2> QED
    BY <2>1, <2>2 DEF Written, LastValue
<1>8. IsBad' <=> IsBad
  BY <1>1, <1>4 DEF IsBad
<1> QED
  BY <1>1, <1>2, <1>3, <1>4, <1>5, <1>6, <1>7, <1>8

\* A section is the name of a line, unless it has none or was cut.
LEMMA SectionNamed ==
  ASSUME file \in Seq(Lines), NEW e \in Nat
  PROVE  \/ SectionAt(e) \in {NoSection, <<Odd>>}
         \/ \E l \in Range(file) :
              l.kind = "section" /\ l.name = SectionAt(e) /\ l.name # <<>>
<1> DEFINE lines == {j \in Ends : j <= e /\ Says(j).sta = "SECTION"}
           named == {j \in lines : Says(j).name # <<>>}
<1>1. CASE named = {}
  BY <1>1 DEF SectionAt
<1>2. CASE named # {}
  <2>1. \A j \in named : j \in Ends /\ j \in 1 .. Len(file) /\ j <= e /\ Says(j).sta = "SECTION"
    BY DEF Ends
  <2>2. Max(named) \in named
    <3> HIDE DEF named
    <3>1. named \in SUBSET Nat /\ \A j \in named : j <= e
      BY <2>1
    <3> QED
      BY <3>1, <1>2, MaxOf
  <2>3. PICK m \in Ends : /\ m = Max(named) /\ m \in 1 .. Len(file)
                          /\ Says(m).sta = "SECTION"
    BY <2>1, <2>2
  <2>4. Start(m) \in 1 .. m
    BY <2>3, StartIn
  <2> DEFINE text == SubSeq(file, Start(m), m)
  <2>5. text \in Seq(Lines) /\ \A i \in DOMAIN text : text[i] \in Range(file)
    <3>1. /\ text \in Seq(Lines) /\ DOMAIN text = 1 .. m - Start(m) + 1
          /\ \A i \in DOMAIN text : text[i] = file[Start(m) + i - 1]
      <4>1. PICK b \in 1 .. m : b = Start(m)
        BY <2>4
      <4>2. /\ m \in Int /\ b \in Int /\ b <= m
            /\ \A i \in b .. m : i \in 1 .. Len(file) /\ file[i] \in Lines
        <5>1. m \in Nat /\ b \in Nat /\ 1 <= b /\ b <= m /\ m <= Len(file) /\ Len(file) \in Nat
          BY <4>1, <2>3
        <5>2. \A i \in b .. m : i \in 1 .. Len(file)
          BY <5>1
        <5> QED
          BY <5>1, <5>2
      <4>3. /\ SubSeq(file, b, m) \in Seq(Lines) /\ Len(SubSeq(file, b, m)) = m - b + 1
            /\ \A i \in 1 .. m - b + 1 : SubSeq(file, b, m)[i] = file[b + i - 1]
        BY <4>2, SubSeqProperties
      <4> QED
        BY <4>1, <4>3
    <3>2. \A i \in DOMAIN text : Start(m) + i - 1 \in DOMAIN file
      BY <3>1, <2>3, <2>4
    <3> QED
      BY <3>1, <3>2 DEF Range
  <2>6. Says(m) = Classify(text)
    BY <2>3 DEF Says, Line
  <2>7. PICK i \in DOMAIN text : text[i].kind = "section" /\ text[i].name = Says(m).name
    BY <2>3, <2>5, <2>6, ClassifyIs
  <2>8. SectionAt(e) \in {Says(m).name, <<Odd>>} /\ Says(m).name # <<>>
    BY <2>2, <2>3, <1>2 DEF SectionAt
  <2> QED
    BY <2>5, <2>7, <2>8
<1> QED
  BY <1>1, <1>2

-----------------------------------------------------------------------------
(* The invariant, action by action.                                         *)

\* Before a line is read, nothing is carried, mapped or wrong.
LEMMA FileInvInit == Init => FileInv
<1> SUFFICES ASSUME Init PROVE FileInv
  OBVIOUS
<1>1. /\ pc = "load" /\ file = <<>> /\ Ends = {} /\ held = <<>> /\ last = 0 /\ errs = 0
      /\ section = NoSection /\ map = << >>
  BY DEF Init, Ends
<1>2. Start(1) = 1
  <2>1. {0} \cup {j \in Ends : j < 1} = {0}
    BY <1>1
  <2>2. Max({0}) = 0
    BY MaxIs
  <2> QED
    BY <2>1, <2>2 DEF Start
<1>3. Length(<<>>) = 0
  BY LengthAppend
<1>4. SectionAt(0) = NoSection
  BY <1>1 DEF SectionAt
<1>5. Carried
  <2>1. SUFFICES ASSUME NEW n \in Nat, n = Len(file)
                 PROVE  /\ held = SubSeq(file, Start(n + 1), n)
                        /\ last = Length(held) - Len(held)
                        /\ section = SectionAt(n)
    BY DEF Carried
  <2>2. n = 0 /\ Start(n + 1) = 1
    BY <1>1, <1>2, <2>1
  <2>3. SubSeq(file, 1, 0) = <<>>
    BY <1>1
  <2> QED
    BY <1>1, <1>3, <1>4, <2>2, <2>3
<1>6. Mapped
  <2>1. Setters = {} /\ DOMAIN map = {}
    BY <1>1 DEF Setters
  <2> QED
    BY <2>1 DEF Mapped
<1>7. Errors
  BY <1>1 DEF Errors, IsBad
<1> QED
  BY <1>1, <1>5, <1>6, <1>7 DEF FileInv, RefusedOnlyBad, ConfigTaken

\* Without a line, the file and its dictionary stay as they are.
LEMMA QuietStep ==
  ASSUME TypeInv, FileInv, UNCHANGED vars \/ Load \/ LoadFails \/ End \/ GetConfigFails
  PROVE  FileInv'
<1>1. UNCHANGED <<file, fate, held, last, section>>
  BY DEF vars, Load, LoadFails, End, GetConfigFails
<1>2. /\ \A e : Start(e)' = Start(e)
      /\ \A e : Says(e)' = Says(e)
      /\ \A e : SectionAt(e)' = SectionAt(e)
      /\ Setters' = Setters /\ \A e : KeyOf(e)' = KeyOf(e)
      /\ \A key : Written(key, Default)' = Written(key, Default)
      /\ \A e, fates : Had(e, fates)' <=> Had(e, fates)
      /\ IsBad' <=> IsBad
      /\ Ends' = Ends
  BY <1>1, SameFile
<1>3. pc' \in {"load", "reading"} => pc \in {"load", "reading"}
  BY DEF vars, Load, LoadFails, End, GetConfigFails
<1>4. Carried'
  <2>1. SUFFICES ASSUME pc' \in {"load", "reading"}, NEW n \in Nat, n = Len(file)'
                 PROVE  /\ held' = SubSeq(file', Start(n + 1)', n)
                        /\ last' = Length(held') - Len(held')
                        /\ section' = SectionAt(n)'
    BY DEF Carried
  <2>2. /\ held = SubSeq(file, Start(n + 1), n)
        /\ last = Length(held) - Len(held)
        /\ section = SectionAt(n)
    BY <1>1, <1>3, <2>1 DEF FileInv, Carried
  <2> QED
    BY <1>1, <1>2, <2>2
<1>5. Mapped'
  <2>1. pc' \notin {"null", "refused"} => UNCHANGED map /\ pc \notin {"null", "refused"}
    BY DEF vars, Load, LoadFails, End, GetConfigFails, TypeInv, Consistent, TypeOK
  <2> QED
    BY <1>2, <2>1 DEF FileInv, Mapped
<1>6. Errors'
  <2>1. pc' \in {"load", "reading", "ended"} => UNCHANGED errs /\ pc \in {"load", "reading", "ended"}
    BY DEF vars, Load, LoadFails, End, GetConfigFails
  <2> QED
    BY <1>2, <2>1 DEF FileInv, Errors
<1>7. RefusedOnlyBad'
  <2>1. CASE UNCHANGED vars
    <3>1. pc' = pc
      BY <2>1 DEF vars
    <3>2. Start(Len(file))' = Start(Len(file))
      BY <1>1, <1>2 DEF Start
    <3> QED
      BY <1>1, <1>2, <3>1, <3>2 DEF FileInv, RefusedOnlyBad, Length
  <2>2. CASE Load \/ GetConfigFails
    BY <2>2 DEF Load, GetConfigFails, RefusedOnlyBad
  <2>3. CASE LoadFails
    BY <2>3 DEF LoadFails, RefusedOnlyBad, TypeInv
  <2>4. CASE End
    <3>1. errs \in Nat /\ (errs > 0 <=> IsBad)
      BY <2>4 DEF End, FileInv, Errors, TypeInv, Consistent, TypeOK
    <3>2. \/ pc' = "null" /\ errs > 0
          \/ pc' = "loaded" /\ ~(errs > 0)
      BY <2>4 DEF End
    <3> QED
      BY <1>2, <3>1, <3>2 DEF RefusedOnlyBad
  <2> QED
    BY <2>1, <2>2, <2>3, <2>4
<1>8. ConfigTaken'
  <2>1. CASE UNCHANGED vars
    BY <1>1, <1>2, <2>1 DEF vars, FileInv, ConfigTaken, Range
  <2>2. CASE Load \/ LoadFails \/ End \/ GetConfigFails
    BY <2>2 DEF Load, LoadFails, End, GetConfigFails, ConfigTaken
  <2> QED
    BY <2>1, <2>2
<1> QED
  BY <1>4, <1>5, <1>6, <1>7, <1>8 DEF FileInv

\* The settings taken are those of the dictionary.
LEMMA GetConfigStep ==
  ASSUME TypeInv, FileInv, GetConfig
  PROVE  FileInv'
<1>1. /\ pc = "loaded" /\ pc' \in {"crashed", "configured"}
      /\ UNCHANGED <<file, fate, map, errs>>
      /\ cfg' = [s \in Settings |-> GetString(map, s, Default)]
      /\ pc' = "crashed" => \E s \in Settings : cfg'[s] = NULL
  BY DEF GetConfig
<1>2. /\ \A e : Says(e)' = Says(e)
      /\ \A e : SectionAt(e)' = SectionAt(e)
      /\ Setters' = Setters /\ \A e : KeyOf(e)' = KeyOf(e)
      /\ \A key : Written(key, Default)' = Written(key, Default)
      /\ \A e, fates : Had(e, fates)' <=> Had(e, fates)
      /\ Ends' = Ends
  BY <1>1, SameFile
<1>3. /\ DOMAIN map = {KeyOf(e) : e \in Setters}
      /\ \A key \in DOMAIN map : map[key] = Written(key, Default)
  BY <1>1 DEF FileInv, Mapped
<1>4. Mapped'
  BY <1>1, <1>2, <1>3 DEF Mapped
<1>5. \A s \in Settings : cfg'[s] = Written(s, Default)
  <2> TAKE s \in Settings
  <2>1. cfg'[s] = IF s \in DOMAIN map THEN map[s] ELSE Default
    BY <1>1 DEF GetString
  <2>2. s \notin DOMAIN map => {e \in Setters : KeyOf(e) = s} = {}
    BY <1>3
  <2>3. s \notin DOMAIN map => Written(s, Default) = Default
    BY <2>2 DEF Written, LastValue
  <2> QED
    BY <2>1, <2>3, <1>3
<1>6. ASSUME NEW s \in Settings, Written(s, Default) = NULL
      PROVE  \/ \E l \in Range(file) : l.kind = "section" /\ l.name \in Settings
             \/ \E e \in Ends : Had(e, {"nulled"})
  <2> DEFINE setters == {e \in Setters : KeyOf(e) = s}
  <2>1. NULL # Default /\ NULL \notin Vals /\ Len(s) = 2
    BY IniAssumption
  <2>2. /\ file \in Seq(Lines) /\ \A e \in Ends : e \in 1 .. Len(file)
        /\ Setters \subseteq Ends
    BY DEF TypeInv, Ends, Setters
  <2>3. setters # {}
    BY <1>6, <2>1 DEF Written, LastValue
  <2>4. Max(setters) \in setters
    <3>1. \A e \in setters : e \in 1 .. Len(file)
      BY <2>2
    <3> HIDE DEF setters
    <3>2. setters \in SUBSET Nat /\ (\A e \in setters : e <= Len(file)) /\ Len(file) \in Nat
      BY <3>1, <2>2
    <3> QED
      BY <3>2, <2>3, MaxOf
  <2>5. PICK e \in Ends : e = Max(setters) /\ e \in Setters /\ KeyOf(e) = s
    BY <2>2, <2>4
  <2>6. CASE Had(e, {"nulled"})
    BY <2>6
  <2>7. CASE ~Had(e, {"nulled"})
    <3>1. Says(e).val = NULL
      BY <1>6, <2>3, <2>5, <2>7 DEF Written, LastValue
    <3>2. Says(e).sta # "VALUE"
      <4>1. Start(e) \in 1 .. e
        BY <2>2, StartIn
      <4>2. SubSeq(file, Start(e), e) \in Seq(Lines)
        BY <4>1, <2>2
      <4>3. Says(e) = Line("EMPTY", <<>>) \/ Says(e) = Classify(SubSeq(file, Start(e), e))
        BY DEF Says
      <4>4. CASE Says(e) = Line("EMPTY", <<>>)
        BY <4>4 DEF Line
      <4>5. CASE Says(e) = Classify(SubSeq(file, Start(e), e))
        BY <4>2, <4>5, <3>1, <2>1, ClassifyIs
      <4> QED
        BY <4>3, <4>4, <4>5
    <3>3. s = SectionAt(e)
      BY <3>2, <2>5 DEF Setters, KeyOf
    <3>4. s \notin {NoSection, <<Odd>>}
      <4>1. \A w : Len(<<w>>) = 1
        OBVIOUS
      <4>2. Len(s) # 1
        BY <2>1
      <4> QED
        BY <4>1, <4>2, Zenon DEF NoSection
    <3>5. e \in Nat
      BY <2>2
    <3> QED
      BY <3>3, <3>4, <3>5, <2>2, SectionNamed
  <2> QED
    BY <2>6, <2>7
<1>7. ConfigTaken'
  <2>1. pc' = "configured" => \A s \in Settings : cfg'[s] = Written(s, Default)'
    BY <1>2, <1>5
  <2>2. pc' = "crashed" =>
          \/ \E l \in Range(file)' : l.kind = "section" /\ l.name \in Settings
          \/ \E e \in Ends' : Had(e, {"nulled"})'
    BY <1>1, <1>2, <1>5, <1>6 DEF Range
  <2> QED
    BY <2>1, <2>2 DEF ConfigTaken
<1> QED
  BY <1>1, <1>4, <1>7 DEF FileInv, Carried, Errors, RefusedOnlyBad

\* What the buffer holds before a line, and how long it is with the line.
LEMMA HeldIs ==
  ASSUME TypeInv, FileInv, NEW l \in Lines, ReadsLine(l), NEW n, n = Len(file) + 1
  PROVE  /\ pc = "reading" /\ file \in Seq(Lines) /\ held \in Seq(Lines) /\ n \in Nat \ {0}
         /\ held = SubSeq(file, Start(n), n - 1)
         /\ section = SectionAt(n - 1)
         /\ last = Length(held) - Len(held)
         /\ Length(Append(held, l)) = Length(held) + l.len /\ Length(held) \in Nat
         /\ Len(Append(held, l)) = Len(held) + 1
<1>1. pc = "reading" /\ file \in Seq(Lines) /\ held \in Seq(Lines) /\ n \in Nat \ {0}
  BY DEF TypeInv, Consistent, TypeOK, ReadsLine
<1>2. PICK m \in Nat : m = Len(file)
  BY <1>1
<1>3. /\ held = SubSeq(file, Start(m + 1), m)
      /\ last = Length(held) - Len(held)
      /\ section = SectionAt(m)
  BY <1>1, <1>2 DEF FileInv, Carried
<1>4. m + 1 = n /\ m = n - 1
  BY <1>2
<1>5. Length(Append(held, l)) = Length(held) + l.len /\ Length(held) \in Nat
  BY <1>1, LengthAppend
<1> QED
  BY <1>1, <1>3, <1>4, <1>5

\* A line that does not fit ends the reading, and the file is bad.
LEMMA TooLongStep ==
  ASSUME TypeInv, FileInv, NEW l \in Lines, TooLong(l)
  PROVE  FileInv'
<1>1. PICK n : n = Len(file) + 1
  OBVIOUS
<1>2. /\ ReadsLine(l) /\ file' = Append(file, l) /\ pc' = "null" /\ UNCHANGED fate
      /\ ~(last + l.len <= Cap - 2)
  BY DEF TooLong, Fits, ReadsLine
<1>3. /\ file \in Seq(Lines) /\ held = SubSeq(file, Start(n), n - 1)
      /\ last = Length(held) - Len(held) /\ held \in Seq(Lines)
      /\ Length(Append(held, l)) = Length(held) + l.len /\ Length(held) \in Nat
      /\ Len(Append(held, l)) = Len(held) + 1
  BY <1>1, <1>2, HeldIs
<1>4. Reads(l)
  BY <1>1, <1>2, FatesAre
<1>5. SubSeq(file, Start(n), n)' = Append(held, l) /\ Len(file') = n
  BY <1>1, <1>3, <1>4, LastSays, FileGrows
<1>6. Start(Len(file))' = Start(n)'
  BY <1>5 DEF Start
<1>7. SubSeq(file', Start(Len(file))', Len(file')) = Append(held, l)
  BY <1>5, <1>6
<1>8. Length(Append(held, l)) - (Len(Append(held, l)) - 1) > Cap - 2
  BY <1>2, <1>3, IniAssumption
<1>9. RefusedOnlyBad'
  BY <1>2, <1>7, <1>8 DEF RefusedOnlyBad, Length
<1> QED
  BY <1>2, <1>9 DEF FileInv, Carried, Mapped, Errors, ConfigTaken

\* A line that goes on stays in the buffer, and says nothing yet.
LEMMA ContinuedStep ==
  ASSUME TypeInv, FileInv, NEW l \in Lines, Continued(l)
  PROVE  FileInv'
<1>1. PICK n : n = Len(file) + 1
  OBVIOUS
<1>2. /\ ReadsLine(l) /\ file' = Append(file, l) /\ l.cont
      /\ last' = last + l.len - 1 /\ held' = Append(held, l)
      /\ UNCHANGED <<pc, section, map, errs, fate>>
  BY DEF Continued, ReadsLine
<1>3. /\ file \in Seq(Lines) /\ held = SubSeq(file, Start(n), n - 1)
      /\ last = Length(held) - Len(held) /\ held \in Seq(Lines)
      /\ Length(Append(held, l)) = Length(held) + l.len /\ Length(held) \in Nat
      /\ Len(Append(held, l)) = Len(held) + 1
      /\ section = SectionAt(n - 1) /\ pc = "reading" /\ n \in Nat \ {0}
  BY <1>1, <1>2, HeldIs
<1>4. Reads(l)
  BY <1>1, <1>2, FatesAre
<1>5. SubSeq(file, Start(n), n)' = Append(held, l) /\ Len(file') = n
  BY <1>1, <1>3, <1>4, LastSays, FileGrows
<1>6. Start(n + 1)' = Start(n) /\ Start(n)' = Start(n)
  BY <1>1, <1>2, <1>3, <1>4, StartAfter, PastStays
<1>7. SectionAt(n)' = section
  BY <1>1, <1>2, <1>3, <1>4, LastSection
<1>8. Carried'
  <2>1. SubSeq(file', Start(n + 1)', n) = Append(held, l)
    BY <1>5, <1>6
  <2>2. Length(held') = Length(held) + l.len
    BY <1>2, <1>3
  <2>3. last' = Length(held') - Len(held')
    BY <1>2, <1>3, <2>2, IniAssumption
  <2>4. SUFFICES ASSUME NEW m \in Nat, m = Len(file')
                 PROVE  /\ held' = SubSeq(file', Start(m + 1)', m)
                        /\ last' = Length(held') - Len(held')
                        /\ section' = SectionAt(m)'
    BY DEF Carried, Length
  <2>5. m = n
    BY <1>5, <2>4
  <2> QED
    BY <1>2, <1>7, <2>1, <2>3, <2>5
<1>9. Mapped' /\ (IsBad' <=> IsBad)
  BY <1>2, <1>3, <1>4, MappedGoesOn DEF FileInv
<1>10. Errors'
  BY <1>2, <1>3, <1>9 DEF FileInv, Errors
<1> QED
  BY <1>2, <1>3, <1>8, <1>9, <1>10 DEF FileInv, RefusedOnlyBad, ConfigTaken

\* After a line that ends, the buffer is empty.
LEMMA CarriedEnds ==
  ASSUME TypeInv, FileInv, NEW l \in Lines, ReadsLine(l), Reads(l), ~l.cont,
         NEW n, n = Len(file) + 1,
         held' = <<>>, last' = 0,
         section' = SectionAt(n)'
  PROVE  Carried'
<1>1. /\ file' \in Seq(Lines) /\ Len(file') = n /\ n \in Nat \ {0}
      /\ Start(n + 1)' = n + 1
  BY FileGrows, StartAfter DEF TypeInv
<1>2. SubSeq(file', n + 1, n) = <<>>
  BY <1>1
<1>3. Length(held') = 0 /\ Len(held') = 0
  BY LengthAppend
<1>4. SUFFICES ASSUME NEW m \in Nat, m = Len(file')
               PROVE  /\ held' = SubSeq(file', Start(m + 1)', m)
                      /\ last' = Length(held') - Len(held')
                      /\ section' = SectionAt(m)'
  BY DEF Carried, Length
<1>5. m = n
  BY <1>1, <1>4
<1> QED
  BY <1>1, <1>2, <1>3, <1>5

\* A line nobody looks at, or that could not be copied, says nothing.
LEMMA SilentStep ==
  ASSUME TypeInv, FileInv, NEW l \in Lines, LastCharacter(l) \/ Skipped(l)
  PROVE  FileInv'
<1>1. PICK n : n = Len(file) + 1
  OBVIOUS
<1>2. PICK what \in {"unread", "skipped"} :
        /\ ReadsLine(l) /\ file' = Append(file, l) /\ ~l.cont /\ Fated(what)
        /\ UNCHANGED <<section, map, errs>>
        /\ pc' = "ended" \/ (pc' = pc /\ held' = <<>> /\ last' = 0)
  BY DEF LastCharacter, Skipped, ReadsLine, ClearsBuffer
<1>3. /\ file \in Seq(Lines) /\ held = SubSeq(file, Start(n), n - 1)
      /\ section = SectionAt(n - 1) /\ pc = "reading" /\ n \in Nat \ {0}
  BY <1>1, <1>2, HeldIs
<1>4. Reads(l) /\ \A S : Had(n, S)' <=> what \in S
  BY <1>1, <1>2, FatesAre
<1>5. Says(n)' = Line("EMPTY", <<>>)
  <2>1. Had(n, {"skipped", "unread"})'
    BY <1>4
  <2> QED
    BY <2>1, <1>1, <1>3, <1>4, LastSays
<1>6. PICK line : line = Says(n)' /\ line.sta = "EMPTY"
  BY <1>5 DEF Line
<1>7. SectionAt(n)' = section
  BY <1>1, <1>3, <1>4, <1>6, LastSection
<1>8. Mapped'
  <2>1. line.sta \notin {"SECTION", "VALUE"}
    BY <1>6
  <2> QED
    BY <2>1, <1>1, <1>2, <1>3, <1>4, <1>6, MappedRead DEF FileInv
<1>9. IsBad' <=> IsBad
  BY <1>1, <1>3, <1>4, <1>6, LastIsBad
<1>10. Carried'
  <2>1. CASE pc' = "ended"
    BY <2>1 DEF Carried
  <2>2. CASE pc' = pc /\ held' = <<>> /\ last' = 0
    BY <2>2, <1>1, <1>2, <1>4, <1>7, CarriedEnds
  <2> QED
    BY <1>2, <2>1, <2>2
<1>11. Errors'
  BY <1>2, <1>3, <1>9 DEF FileInv, Errors
<1>12. pc' \in {"reading", "ended"}
  BY <1>2, <1>3
<1> QED
  BY <1>8, <1>10, <1>11, <1>12 DEF FileInv, RefusedOnlyBad, ConfigTaken

\* What dictionary_set does, by what becomes of the line.
LEMMA SetEntryIs ==
  ASSUME TypeInv, NEW l \in Lines, ReadsLine(l), NEW n, n = Len(file) + 1,
         NEW key, NEW val, SetEntry(key, val)
  PROVE  /\ Reads(l) /\ ~Had(n, {"skipped", "unread"})'
         /\ pc' \in {"reading", "ended"}
         /\ \/ UNCHANGED map /\ Had(n, {"ignored"})'
            \/ /\ ~Had(n, {"ignored"})'
               /\ map' = D!With(map, key, IF Had(n, {"nulled"})' THEN NULL ELSE val)
<1>1. file' = Append(file, l) /\ pc = "reading"
  BY DEF ReadsLine
<1>2. UNCHANGED fate => Reads(l) /\ \A S : ~Had(n, S)'
  BY <1>1, FatesAre
<1>3. \A what : Fated(what) => Reads(l) /\ \A S : Had(n, S)' <=> what \in S
  BY <1>1, FatesAre
<1>4. CASE D!Put(key, val) /\ UNCHANGED <<pc, fate>>
  BY <1>1, <1>2, <1>4 DEF D!Put
<1>5. CASE Fault /\ val # NULL /\ D!PutNothing(key) /\ Fated("nulled") /\ UNCHANGED pc
  <2>1. /\ Reads(l) /\ ~Had(n, {"skipped", "unread"})'
        /\ ~Had(n, {"ignored"})' /\ Had(n, {"nulled"})'
    BY <1>3, <1>5
  <2> QED
    BY <2>1, <1>1, <1>5 DEF D!PutNothing
<1>6. CASE Fated("ignored") /\ UNCHANGED map /\ pc' \in {"reading", "ended"}
  <2>1. /\ Reads(l) /\ ~Had(n, {"skipped", "unread"})' /\ Had(n, {"ignored"})'
    BY <1>3, <1>6
  <2> QED
    BY <2>1, <1>6
<1> QED
  BY <1>1, <1>4, <1>5, <1>6 DEF SetEntry, D!Ignore, D!Refuse

\* A line that ends sets what it says, or is counted as an error.
LEMMA ProcessedStep ==
  ASSUME TypeInv, FileInv, NEW l \in Lines, Processed(l)
  PROVE  FileInv'
<1>1. PICK n : n = Len(file) + 1
  OBVIOUS
<1>2. PICK line : line = Classify(Append(held, l))
  OBVIOUS
<1>3. /\ ReadsLine(l) /\ file' = Append(file, l) /\ ~l.cont /\ held' = <<>> /\ last' = 0
      /\ \/ /\ line.sta \in {"EMPTY", "COMMENT"}
            /\ UNCHANGED <<pc, section, map, mem_err, errs, faults, fate>>
         \/ /\ line.sta = "SECTION"
            /\ section' = SectionOf(line.name)
            /\ SetEntry(section', NULL)
            /\ UNCHANGED errs
         \/ /\ line.sta = "VALUE"
            /\ SetEntry(section \o line.name, line.val)
            /\ UNCHANGED <<section, errs>>
         \/ /\ line.sta = "ERROR"
            /\ errs' = errs + 1
            /\ UNCHANGED <<pc, section, map, mem_err, faults, fate>>
  BY <1>2 DEF Processed, ClearsBuffer, ReadsLine
<1>4. /\ file \in Seq(Lines) /\ held = SubSeq(file, Start(n), n - 1) /\ held \in Seq(Lines)
      /\ section = SectionAt(n - 1) /\ pc = "reading" /\ n \in Nat \ {0}
      /\ errs \in Nat
  BY <1>1, <1>3, HeldIs DEF TypeInv, Consistent, TypeOK
<1>5. line.sta = "SECTION" => line.val = NULL
  <2>1. Append(held, l) \in Seq(Lines)
    BY <1>4
  <2> QED
    BY <2>1, <1>2, ClassifyIs
<1>6. PICK key, val :
        line.sta \in {"SECTION", "VALUE"} =>
          /\ \/ line.sta = "SECTION" /\ key = section'
             \/ line.sta = "VALUE" /\ key = section' \o line.name
          /\ val = line.val /\ SetEntry(key, val)
  <2>1. CASE line.sta = "SECTION"
    <3>1. SetEntry(section', NULL)
      BY <1>3, <2>1
    <3>2. PICK k : k = section'
      OBVIOUS
    <3>3. SetEntry(k, NULL)
      BY <3>1, <3>2
    <3> QED
      BY <2>1, <3>2, <3>3, <1>5
  <2>2. CASE line.sta = "VALUE"
    <3>1. SetEntry(section \o line.name, line.val) /\ section' = section
      BY <1>3, <2>2
    <3> QED
      BY <2>2, <3>1
  <2>3. CASE line.sta \notin {"SECTION", "VALUE"}
    BY <2>3
  <2> QED
    BY <2>1, <2>2, <2>3
<1>7. line.sta \in {"SECTION", "VALUE"} =>
        /\ Reads(l) /\ ~Had(n, {"skipped", "unread"})'
        /\ pc' \in {"reading", "ended"}
        /\ \/ UNCHANGED map /\ Had(n, {"ignored"})'
           \/ /\ ~Had(n, {"ignored"})'
              /\ map' = D!With(map, key, IF Had(n, {"nulled"})' THEN NULL ELSE val)
  BY <1>1, <1>3, <1>6, SetEntryIs
<1>8. line.sta \notin {"SECTION", "VALUE"} =>
        /\ Reads(l) /\ ~Had(n, {"skipped", "unread"})'
        /\ UNCHANGED <<pc, map, section>>
  BY <1>1, <1>3, FatesAre
<1>9. Reads(l) /\ ~Had(n, {"skipped", "unread"})'
  BY <1>7, <1>8
<1>10. Says(n)' = line
  BY <1>1, <1>2, <1>4, <1>9, LastSays
<1>11. section' = SectionAt(n)'
  <2>1. SectionAt(n)' = IF line.sta = "SECTION" THEN SectionOf(line.name) ELSE section
    BY <1>1, <1>3, <1>4, <1>9, <1>10, LastSection
  <2> QED
    BY <2>1, <1>3
<1>12. Carried'
  BY <1>1, <1>3, <1>9, <1>11, CarriedEnds
<1>13. Mapped'
  <2>1. PICK sec : sec = section'
    OBVIOUS
  <2>2. sec = SectionAt(n)'
    BY <2>1, <1>11
  <2>3. CASE line.sta \notin {"SECTION", "VALUE"}
    BY <2>2, <2>3, <1>1, <1>3, <1>4, <1>8, <1>9, <1>10, MappedRead DEF FileInv
  <2>4. CASE line.sta \in {"SECTION", "VALUE"}
    <3>1. \/ line.sta = "SECTION" /\ key = sec
          \/ line.sta = "VALUE" /\ key = sec \o line.name
      BY <2>1, <2>4, <1>6
    <3>2. CASE UNCHANGED map /\ Had(n, {"ignored"})'
      BY <2>2, <3>2, <1>1, <1>3, <1>4, <1>9, <1>10, MappedRead DEF FileInv
    <3>3. CASE /\ ~Had(n, {"ignored"})'
               /\ map' = D!With(map, key, IF Had(n, {"nulled"})' THEN NULL ELSE line.val)
      BY <2>2, <3>1, <3>3, <1>1, <1>3, <1>4, <1>9, <1>10, MappedRead DEF FileInv
    <3> QED
      BY <2>4, <3>2, <3>3, <1>6, <1>7
  <2> QED
    BY <2>3, <2>4
<1>14. Errors'
  <2>1. IsBad' <=> IsBad \/ line.sta = "ERROR"
    BY <1>1, <1>3, <1>4, <1>9, <1>10, LastIsBad
  <2>2. \/ line.sta = "ERROR" /\ errs' = errs + 1
        \/ line.sta # "ERROR" /\ errs' = errs
    BY <1>3
  <2>3. errs > 0 <=> IsBad
    BY <1>4 DEF FileInv, Errors
  <2> QED
    BY <1>4, <2>1, <2>2, <2>3 DEF Errors
<1>15. pc' \in {"reading", "ended"}
  <2>1. line.sta \notin {"SECTION", "VALUE"} => pc' = "reading"
    BY <1>4, <1>8
  <2> QED
    BY <2>1, <1>7
<1> QED
  BY <1>12, <1>13, <1>14, <1>15 DEF FileInv, RefusedOnlyBad, ConfigTaken

\* The inductive invariant holds in every state.
LEMMA Invariance == Spec => [](TypeInv /\ FileInv)
<1>1. Init => TypeInv /\ FileInv
  BY TypeInvInit, FileInvInit
<1>2. TypeInv /\ FileInv /\ [Next]_vars => (TypeInv /\ FileInv)'
  <2> SUFFICES ASSUME TypeInv, FileInv, [Next]_vars PROVE (TypeInv /\ FileInv)'
    OBVIOUS
  <2>1. TypeInv'
    BY TypeInvStep
  <2>2. CASE UNCHANGED vars \/ Load \/ LoadFails \/ End \/ GetConfigFails
    BY <2>1, <2>2, QuietStep
  <2>3. CASE GetConfig
    BY <2>1, <2>3, GetConfigStep
  <2>4. CASE \E l \in Lines : TooLong(l) \/ Continued(l)
    BY <2>1, <2>4, TooLongStep, ContinuedStep
  <2>5. CASE \E l \in Lines : LastCharacter(l) \/ Processed(l) \/ Skipped(l)
    BY <2>1, <2>5, SilentStep, ProcessedStep
  <2> QED
    BY <2>2, <2>3, <2>4, <2>5 DEF Next
<1> QED
  BY <1>1, <1>2, PTL DEF Spec

-----------------------------------------------------------------------------
(* The theorems.                                                            *)

\* There is room in the buffer for the next line, however many were joined, and every
\* variable is in its range (iniparser.c:749-777).
THEOREM IniParserConsistent == Spec => []Consistent
<1>1. TypeInv => Consistent
  BY DEF TypeInv
<1> QED
  BY <1>1, Invariance, PTL

\* The dictionary is what the file says, and only a file with a line that is bad or too
\* long is refused (iniparser.c:716-836).
THEOREM IniParserReadsAsWritten == Spec => []AsWritten
<1>1. FileInv => AsWritten
  <2> SUFFICES ASSUME FileInv PROVE AsWritten
    OBVIOUS
  <2>1. ASSUME pc \in {"reading", "ended", "loaded"}
        PROVE  LET key == [e \in Setters |-> KeyOf(e)]
               IN  /\ DOMAIN map = Range(key)
                   /\ \A k \in DOMAIN map :
                        map[k] = LastValue({e \in Setters : key[e] = k}, Default)
    <3> DEFINE key == [e \in Setters |-> KeyOf(e)]
    <3>1. Range(key) = {KeyOf(e) : e \in Setters}
      BY DEF Range
    <3>2. ASSUME NEW k PROVE {e \in Setters : key[e] = k} = {e \in Setters : KeyOf(e) = k}
      OBVIOUS
    <3>3. /\ DOMAIN map = {KeyOf(e) : e \in Setters}
          /\ \A k \in DOMAIN map : map[k] = Written(k, Default)
      BY <2>1 DEF FileInv, Mapped
    <3>4. \A k \in DOMAIN map : map[k] = LastValue({e \in Setters : key[e] = k}, Default)
      <4> TAKE k \in DOMAIN map
      <4>1. map[k] = Written(k, Default)
        BY <3>3
      <4> QED
        BY <4>1, <3>2, Zenon DEF Written
    <3> QED
      BY <3>1, <3>3, <3>4, Zenon
  <2>2. MapAsWritten
    BY <2>1, Zenon DEF MapAsWritten
  <2> QED
    BY <2>2 DEF FileInv, AsWritten
<1> QED
  BY <1>1, Invariance, PTL

\* A section is in the dictionary, if nothing failed.
LEMMA SectionIsKept ==
  ASSUME TypeInv, FileInv, pc = "loaded", fate = << >>, NEW e \in Ends,
         SectionAt(e) # NoSection
  PROVE  SectionAt(e) \in DOMAIN map
<1> DEFINE lines(k) == {j \in Ends : j <= k /\ Says(j).sta = "SECTION"}
<1>1. Ends \subseteq 1 .. Len(file) /\ Len(file) \in Nat
  BY DEF Ends, TypeInv
<1>2. lines(e) # {}
  BY DEF SectionAt
<1>3. Max(lines(e)) \in lines(e) /\ \A j \in lines(e) : j <= Max(lines(e))
  <2>1. \A j \in lines(e) : j \in 1 .. Len(file) /\ j <= e
    BY <1>1
  <2>2. e \in Nat
    BY <1>1
  <2> HIDE DEF lines
  <2>3. lines(e) \in SUBSET Nat
    BY <2>1
  <2> QED
    BY <2>1, <2>2, <2>3, <1>2, MaxOf
<1>4. PICK m \in Ends : /\ m <= e /\ Says(m).sta = "SECTION"
                        /\ \A j \in lines(e) : j <= m
  BY <1>3
<1>5. lines(m) = lines(e)
  <2>1. \A j \in Ends : j <= m => j <= e
    BY <1>1, <1>4
  <2> QED
    BY <2>1, <1>4
<1>6. SectionAt(m) = SectionAt(e)
  BY <1>5 DEF SectionAt
<1>7. m \in Setters
  <2>1. DOMAIN fate = {}
    OBVIOUS
  <2> QED
    BY <2>1, <1>4 DEF Setters, Had
<1>8. KeyOf(m) = SectionAt(e)
  BY <1>4, <1>6 DEF KeyOf
<1> QED
  BY <1>7, <1>8 DEF FileInv, Mapped

\* A key that is listed for no section has one of the reasons SectionListsKeys gives.
LEMMA KeysAreListed ==
  ASSUME TypeInv, FileInv
  PROVE  SectionListsKeys
<1>1. SUFFICES ASSUME pc = "loaded", NEW key \in DOMAIN map, Len(key) > 1,
                      Head(key) # "", fate = << >>,
                      \A l \in Range(file) : l.kind = "section" => ~(Len(l.name) > 1)
               PROVE  key \in SecKeys(map, Head(key))
  BY DEF SectionListsKeys
<1>2. PICK e \in Setters : key = KeyOf(e)
  BY <1>1 DEF FileInv, Mapped
<1>3. /\ e \in Ends /\ e \in 1 .. Len(file) /\ e \in Nat /\ file \in Seq(Lines)
      /\ Says(e).sta \in {"SECTION", "VALUE"}
  BY DEF Setters, Ends, TypeInv
<1>4. PICK sec : sec = SectionAt(e)
  OBVIOUS
<1>5. PICK name \in Seq(Words) :
        \/ Says(e).sta = "SECTION" /\ key = sec
        \/ Says(e).sta = "VALUE" /\ key = sec \o name
  <2>1. Start(e) \in 1 .. e
    BY <1>3, StartIn
  <2>2. SubSeq(file, Start(e), e) \in Seq(Lines)
    BY <2>1, <1>3
  <2>3. PICK text \in Seq(Lines) : text = SubSeq(file, Start(e), e)
    BY <2>2
  <2>4. Says(e) = Classify(text)
    BY <2>3, <1>3 DEF Says, Line
  <2>5. Says(e).name \in Seq(Words)
    BY <2>4, ClassifyIs
  <2> QED
    BY <2>5, <1>2, <1>3, <1>4 DEF KeyOf
<1>6. sec # NoSection
  <2> SUFFICES ASSUME sec = NoSection PROVE FALSE
    OBVIOUS
  <2>1. PICK w \in Words : sec = <<w>> /\ w = ""
    BY DEF NoSection, Words
  <2>2. key # sec
    <3>1. Len(<<w>>) = 1
      OBVIOUS
    <3>2. Len(sec) = 1
      BY <3>1, <2>1
    <3>3. ~(Len(sec) > 1)
      BY <3>2
    <3> QED
      BY <3>3, <1>1, Zenon
  <2>3. key = <<w>> \o name
    BY <2>1, <2>2, <1>5
  <2>4. Head(key) = w
    BY <2>3
  <2> QED
    BY <2>1, <2>4, <1>1
<1>7. PICK w \in Words : sec = <<w>>
  <2>1. CASE sec \in {NoSection, <<Odd>>}
    BY <2>1 DEF NoSection, Words
  <2>2. CASE \E l \in Range(file) : l.kind = "section" /\ l.name = sec /\ l.name # <<>>
    <3>1. PICK l \in Lines : l \in Range(file) /\ l.kind = "section" /\ l.name = sec /\ l.name # <<>>
      BY <2>2, <1>3 DEF Range
    <3>2. sec \in Seq(Words) /\ sec # <<>> /\ ~(Len(sec) > 1)
      BY <3>1, <1>1, IniAssumption
    <3>3. sec = <<sec[1]>> /\ sec[1] \in Words
      <4>1. Len(sec) = 1 /\ sec[1] \in Words
        <5>1. Len(sec) \in Nat /\ Len(sec) # 0
          BY <3>2
        <5>2. PICK k \in Nat : k = Len(sec)
          BY <5>1
        <5>3. k # 0 /\ ~(k > 1)
          BY <5>1, <5>2, <3>2, Zenon
        <5>4. k = 1
          BY ONLY <5>3, k \in Nat
        <5> QED
          BY <5>2, <5>4, <3>2
      <4>2. <<sec[1]>> \in Seq(Words) /\ Len(<<sec[1]>>) = 1 /\ <<sec[1]>>[1] = sec[1]
        BY <4>1
      <4> QED
        BY <3>2, <4>1, <4>2, SeqEqual
    <3> QED
      BY <3>3
  <2> QED
    BY <2>1, <2>2, <1>3, <1>4, SectionNamed
<1>8. sec \in DOMAIN map
  BY <1>1, <1>3, <1>4, <1>6, SectionIsKept
<1>9. key # sec
  <2>1. Len(<<w>>) = 1
    OBVIOUS
  <2>2. Len(sec) = 1
    BY <2>1, <1>7
  <2>3. ~(Len(sec) > 1)
    BY <2>2
  <2> QED
    BY <2>3, <1>1, Zenon
<1>10. key = <<w>> \o name
  BY <1>5, <1>7, <1>9
<1>11. Head(key) = w
  BY <1>10
<1> QED
  BY <1>1, <1>7, <1>8, <1>11 DEF SecKeys

\* The settings taken and the keys listed are those of the file (mqtt_config.c:42-70,
\* iniparser.c:296-425).
THEOREM IniParserReadsBack == Spec => []ReadBack
<1>1. TypeInv /\ FileInv => ReadBack
  BY KeysAreListed DEF FileInv, ReadBack
<1> QED
  BY <1>1, Invariance, PTL

=============================================================================
