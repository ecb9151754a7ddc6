---------------------------- MODULE ReceivedProofs ----------------------------
(***************************************************************************)
(* What the event processor makes of its command line is what it was meant *)
(* to get, for strings of any length: the two readers of CommandLine take  *)
(* apart again what WriteArgument and EscapeArgumentForPS put together,    *)
(* and no argument that these two fail to protect ever gets through.       *)
(*                                                                         *)
(* A reader is a function over the places of the text, so each fact about  *)
(* it is an induction over these; the sets of places are explicit.         *)
(***************************************************************************)
EXTENDS CommandLineProofs

Letter == Char \cup {Space, Tab, Quote, Backslash}

LEMMA Associative ==
  \A x, y, z \in Seq(Letter) : (x \o y) \o z = x \o (y \o z)
BY ConcatAssociative

LEMMA AssociativeLists ==
  \A x, y, z \in Seq(Seq(Letter)) : (x \o y) \o z = x \o (y \o z)
<1>1. \A S : S = Seq(Letter) =>
        \A x, y, z \in Seq(S) : (x \o y) \o z = x \o (y \o z)
  BY ConcatAssociative
<1> QED
  BY <1>1

(* Induction up to n, over a set.                                           *)
LEMMA Upward ==
  ASSUME NEW n \in Nat, NEW S, 0 \in S,
         \A i \in 0 .. n - 1 : i \in S => i + 1 \in S
  PROVE  \A i \in 0 .. n : i \in S
<1> DEFINE T == {i \in 0 .. n : i \notin S}
           R == OpToRel(<, Nat)
<1>1. T = {}
  <2> SUFFICES ASSUME T # {} PROVE FALSE
    OBVIOUS
  <2>1. T \subseteq Nat
    OBVIOUS
  <2>2. \A a, b \in Nat : a < b => <<a, b>> \in R
    BY DEF OpToRel
  <2>3. IsWellFoundedOn(R, Nat)
    BY NatLessThanWellFounded, Zenon
  <2> HIDE DEF R, T
  <2>4. PICK i \in T : \A k \in T : ~ (<<k, i>> \in R)
    BY <2>1, <2>3, WFMin
  <2>5. i \in 0 .. n /\ i \notin S
    BY DEF T
  <2>6. i - 1 \in 0 .. n - 1 /\ i - 1 \in Nat /\ i - 1 < i /\ i \in Nat
    BY <2>5
  <2>7. i - 1 \notin S
    BY <2>5, <2>6
  <2>8. i - 1 \in T
    BY <2>6, <2>7 DEF T
  <2> QED
    BY <2>2, <2>4, <2>6, <2>8
<1> QED
  BY <1>1

-----------------------------------------------------------------------------
(* The reader of the command line is defined at every place.                *)

ArgvPlaces(f, text, n) ==
  f = [i \in 0 .. n |->
         IF i = 0 THEN ArgvStart ELSE ArgvChar(f[i - 1], text[i])]

LEMMA ArgvPlacesExist ==
  ASSUME NEW text, NEW n \in Nat
  PROVE  \E f : ArgvPlaces(f, text, n)
<1> DEFINE S == {k \in 0 .. n : \E f : ArgvPlaces(f, text, k)}
<1>1. 0 \in S
  <2> DEFINE f == [i \in 0 .. 0 |-> ArgvStart]
  <2>1. ArgvPlaces(f, text, 0)
    BY DEF ArgvPlaces
  <2> QED
    BY <2>1
<1>2. ASSUME NEW k \in 0 .. n - 1, k \in S
      PROVE  k + 1 \in S
  <2>1. PICK f : ArgvPlaces(f, text, k)
    BY <1>2
  <2> DEFINE g == [i \in 0 .. k + 1 |->
                     IF i = k + 1 THEN ArgvChar(f[k], text[k + 1]) ELSE f[i]]
  <2>2. ASSUME NEW i \in 0 .. k + 1
        PROVE  g[i] = IF i = 0 THEN ArgvStart ELSE ArgvChar(g[i - 1], text[i])
    <3>1. CASE i = k + 1
      <4>1. i # 0 /\ i - 1 = k /\ k \in 0 .. k + 1 /\ k # k + 1
        BY <3>1
      <4> QED
        BY <3>1, <4>1
    <3>2. CASE i # k + 1
      <4>1. i \in 0 .. k
        BY <3>2
      <4>2. f[i] = IF i = 0 THEN ArgvStart ELSE ArgvChar(f[i - 1], text[i])
        BY <2>1, <4>1 DEF ArgvPlaces
      <4>3. i # 0 => i - 1 \in 0 .. k + 1 /\ i - 1 # k + 1
        BY <4>1
      <4> QED
        BY <3>2, <4>2, <4>3
    <3> QED
      BY <3>1, <3>2
  <2>3. ArgvPlaces(g, text, k + 1)
    BY <2>2 DEF ArgvPlaces
  <2> QED
    BY <2>3
<1>3. n \in S
  <2>1. \A i \in 0 .. n : i \in S
    <3> HIDE DEF S
    <3> QED
      BY <1>1, <1>2, Upward
  <2> QED
    BY <2>1
<1> QED
  BY <1>3

LEMMA ArgvReadPlaces ==
  ASSUME NEW text, Len(text) \in Nat
  PROVE  \E f : ArgvPlaces(f, text, Len(text)) /\ ArgvRead(text) = f[Len(text)]
<1> DEFINE F == CHOOSE f : ArgvPlaces(f, text, Len(text))
<1>1. ArgvPlaces(F, text, Len(text))
  BY ArgvPlacesExist, Zenon
<1>2. ArgvRead(text) = F[Len(text)]
  BY DEF ArgvRead, ArgvPlaces
<1> QED
  BY <1>1, <1>2

(* The reader has no memory but its state.                                  *)
LEMMA ArgvReadOn ==
  ASSUME NEW T, NEW text \in Seq(T), NEW ch \in T
  PROVE  ArgvRead(text \o <<ch>>) = ArgvChar(ArgvRead(text), ch)
<1> DEFINE more == text \o <<ch>>
           n == Len(text)
<1>1. /\ n \in Nat /\ Len(more) = n + 1 /\ more[n + 1] = ch
      /\ \A i \in 1 .. n : more[i] = text[i]
  OBVIOUS
<1>2. PICK f : ArgvPlaces(f, text, n) /\ ArgvRead(text) = f[n]
  BY <1>1, ArgvReadPlaces
<1> HIDE DEF more, n
<1>3. PICK g : ArgvPlaces(g, more, n + 1) /\ ArgvRead(more) = g[n + 1]
  <2>1. Len(more) \in Nat
    BY <1>1
  <2> QED
    BY <1>1, <2>1, ArgvReadPlaces
<1> DEFINE S == {i \in 0 .. n : g[i] = f[i]}
<1>4. 0 \in S
  BY <1>1, <1>2, <1>3 DEF ArgvPlaces
<1>5. ASSUME NEW i \in 0 .. n - 1, i \in S
      PROVE  i + 1 \in S
  <2>1. /\ i + 1 \in 0 .. n /\ i + 1 \in 0 .. n + 1 /\ i + 1 # 0
        /\ (i + 1) - 1 = i /\ i + 1 \in 1 .. n
    BY <1>1
  <2>2. f[i + 1] = ArgvChar(f[i], text[i + 1])
    BY <1>2, <2>1 DEF ArgvPlaces
  <2>3. g[i + 1] = ArgvChar(g[i], more[i + 1])
    BY <1>3, <2>1 DEF ArgvPlaces
  <2>4. g[i] = f[i]
    BY <1>5
  <2>5. g[i + 1] = f[i + 1]
    BY <1>1, <2>1, <2>2, <2>3, <2>4
  <2> QED
    BY <2>1, <2>5
<1>6. n \in S
  <2> HIDE DEF S
  <2>1. \A i \in 0 .. n : i \in S
    BY <1>1, <1>4, <1>5, Upward
  <2> QED
    BY <1>1, <2>1
<1>7. g[n + 1] = ArgvChar(g[n], more[n + 1])
  <2>1. n + 1 \in 0 .. n + 1 /\ n + 1 # 0 /\ (n + 1) - 1 = n
    BY <1>1
  <2> QED
    BY <1>3, <2>1 DEF ArgvPlaces
<1> QED
  BY <1>1, <1>2, <1>3, <1>6, <1>7 DEF more

LEMMA ArgvReadNothing == ArgvRead(<<>>) = ArgvStart
<1>1. Len(<<>>) = 0 /\ 0 \in 0 .. 0
  OBVIOUS
<1>2. PICK f : ArgvPlaces(f, <<>>, 0) /\ ArgvRead(<<>>) = f[0]
  BY <1>1, ArgvReadPlaces
<1> QED
  BY <1>1, <1>2 DEF ArgvPlaces

-----------------------------------------------------------------------------
(* What one character does to the reader                                    *)

Reader == [argv : Seq(Seq(Letter)), arg : Seq(Letter), in : BOOLEAN,
           quoted : BOOLEAN, slashes : Nat]

(* The argument that is being read, if no quote follows.                    *)
Pending(p) == p.arg \o Slashes(p.slashes)

(* Between two arguments.                                                   *)
Between(p, argv) ==
  /\ p \in Reader
  /\ p.argv = argv /\ p.arg = <<>> /\ p.slashes = 0
  /\ p.in = FALSE /\ p.quoted = FALSE

LEMMA Marks ==
  /\ Space \in Letter /\ Tab \in Letter /\ Quote \in Letter
  /\ Backslash \in Letter /\ Apostrophe \in Letter
  /\ Space # Tab /\ Space # Quote /\ Space # Backslash /\ Space # Apostrophe
  /\ Tab # Quote /\ Tab # Backslash /\ Tab # Apostrophe
  /\ Quote # Backslash /\ Quote # Apostrophe /\ Backslash # Apostrophe
<1>1. /\ Space \in Letter /\ Tab \in Letter /\ Quote \in Letter
      /\ Backslash \in Letter /\ Apostrophe \in Letter
  BY DEF Letter, Char
<1>2. /\ Space # Tab /\ Space # Quote /\ Space # Backslash /\ Space # Apostrophe
      /\ Tab # Quote /\ Tab # Backslash /\ Tab # Apostrophe
      /\ Quote # Backslash /\ Quote # Apostrophe /\ Backslash # Apostrophe
  BY DEF Space, Tab, Quote, Backslash, Apostrophe
<1> QED
  BY <1>1, <1>2

LEMMA Joining ==
  ASSUME NEW s \in Seq(Letter), NEW t \in Seq(Letter)
  PROVE  /\ s \o t \in Seq(Letter)
         /\ Len(s \o t) = Len(s) + Len(t)
         /\ \A i \in 1 .. Len(s) : (s \o t)[i] = s[i]
         /\ \A i \in 1 .. Len(t) : (s \o t)[Len(s) + i] = t[i]
OBVIOUS

LEMMA Extended ==
  ASSUME NEW S, NEW s \in Seq(S), NEW c \in S
  PROVE  LET t == s \o <<c>>
         IN  /\ t \in Seq(S) /\ Len(t) = Len(s) + 1 /\ t[Len(s) + 1] = c
             /\ \A i \in 1 .. Len(s) : t[i] = s[i]
OBVIOUS

LEMMA Appended ==
  ASSUME NEW S, NEW s \in Seq(S), NEW c \in S
  PROVE  LET t == Append(s, c)
         IN  /\ t \in Seq(S) /\ Len(t) = Len(s) + 1 /\ t[Len(s) + 1] = c
             /\ \A i \in 1 .. Len(s) : t[i] = s[i]
OBVIOUS

LEMMA SlashesAre ==
  ASSUME NEW n \in Nat
  PROVE  /\ Slashes(n) \in Seq(Letter) /\ Len(Slashes(n)) = n
         /\ \A i \in 1 .. n : Slashes(n)[i] = Backslash
<1>1. Slashes(n) \in [1 .. n -> Letter]
  BY Marks DEF Slashes
<1> QED
  BY <1>1 DEF Slashes

LEMMA NoSlashes ==
  ASSUME NEW s \in Seq(Letter)
  PROVE  s \o Slashes(0) = s
<1>1. Slashes(0) = <<>>
  BY SlashesAre, EmptySeq
<1> QED
  BY <1>1

LEMMA OneSlash ==
  ASSUME NEW s \in Seq(Letter), NEW n \in Nat
  PROVE  s \o Slashes(n + 1) = (s \o Slashes(n)) \o <<Backslash>>
<1> DEFINE a == Slashes(n)
           b == Slashes(n + 1)
           c == <<Backslash>>
<1>1. /\ a \in Seq(Letter) /\ Len(a) = n /\ \A i \in 1 .. n : a[i] = Backslash
      /\ b \in Seq(Letter) /\ Len(b) = n + 1
      /\ \A i \in 1 .. n + 1 : b[i] = Backslash
      /\ c \in Seq(Letter) /\ Len(c) = 1 /\ c[1] = Backslash
  BY SlashesAre, Marks
<1> HIDE DEF a, b, c
<1>2. b = a \o c
  <2>1. /\ a \o c \in Seq(Letter) /\ Len(a \o c) = n + 1
        /\ \A i \in 1 .. n + 1 : (a \o c)[i] = IF i <= n THEN a[i] ELSE c[i - n]
    <3>1. /\ a \o c \in Seq(Letter) /\ Len(a \o c) = Len(a) + Len(c)
          /\ \A i \in 1 .. Len(a) + Len(c) :
               (a \o c)[i] = IF i <= Len(a) THEN a[i] ELSE c[i - Len(a)]
      BY <1>1, ConcatProperties, Zenon
    <3> QED
      BY <1>1, <3>1
  <2>2. \A i \in 1 .. n + 1 : (a \o c)[i] = b[i]
    <3> TAKE i \in 1 .. n + 1
    <3>1. i <= n \/ i - n = 1
      OBVIOUS
    <3> QED
      BY <1>1, <2>1, <3>1
  <2> QED
    BY <1>1, <2>1, <2>2, SeqEqual
<1>3. (s \o a) \o c = s \o (a \o c)
  <2>1. a \in Seq(Letter) /\ c \in Seq(Letter)
    BY <1>1
  <2> QED
    BY <2>1, Associative, Zenon
<1> QED
  BY <1>2, <1>3 DEF a, b, c

LEMMA PendingIs ==
  ASSUME NEW p \in Reader
  PROVE  Pending(p) \in Seq(Letter)
<1>1. p.arg \in Seq(Letter) /\ Slashes(p.slashes) \in Seq(Letter)
  BY SlashesAre DEF Reader
<1> QED
  BY <1>1, ConcatProperties DEF Pending

LEMMA ReadSlash ==
  ASSUME NEW p \in Reader
  PROVE  LET q == ArgvChar(p, Backslash)
         IN  /\ q \in Reader
             /\ q.argv = p.argv /\ q.arg = p.arg /\ q.in = TRUE
             /\ q.quoted = p.quoted /\ q.slashes = p.slashes + 1
<1> DEFINE q == ArgvChar(p, Backslash)
<1>1. PICK n \in Nat : n = p.slashes + 1
  BY DEF Reader
<1>2. q = [p EXCEPT !.slashes = n, !.in = TRUE]
  BY <1>1, Marks DEF ArgvChar
<1> HIDE DEF q
<1>3. q \in Reader
  BY <1>2 DEF Reader
<1>4. /\ q.argv = p.argv /\ q.arg = p.arg /\ q.in = TRUE
      /\ q.quoted = p.quoted /\ q.slashes = n
  BY <1>2 DEF Reader
<1> QED
  BY <1>1, <1>3, <1>4 DEF q

LEMMA ReadQuote ==
  ASSUME NEW p \in Reader, p.slashes % 2 = 0
  PROVE  LET q == ArgvChar(p, Quote)
         IN  /\ q \in Reader
             /\ q.argv = p.argv /\ q.in = TRUE /\ q.slashes = 0
             /\ q.quoted = ~ p.quoted
             /\ q.arg = p.arg \o Slashes(p.slashes \div 2)
<1> DEFINE q == ArgvChar(p, Quote)
<1>1. p.slashes \div 2 \in Nat
  BY DEF Reader
<1>2. PICK a \in Seq(Letter) : a = p.arg \o Slashes(p.slashes \div 2)
  BY <1>1, SlashesAre, ConcatProperties DEF Reader
<1>3. PICK b \in BOOLEAN : b = ~ p.quoted
  BY DEF Reader
<1>4. q = [p EXCEPT !.arg = a, !.slashes = 0, !.in = TRUE, !.quoted = b]
  BY <1>2, <1>3, Marks DEF ArgvChar
<1> HIDE DEF q
<1>5. q \in Reader
  BY <1>4 DEF Reader
<1>6. /\ q.argv = p.argv /\ q.arg = a /\ q.in = TRUE
      /\ q.quoted = b /\ q.slashes = 0
  BY <1>4 DEF Reader
<1> QED
  BY <1>2, <1>3, <1>5, <1>6 DEF q

LEMMA ReadEscapedQuote ==
  ASSUME NEW p \in Reader, p.slashes % 2 = 1
  PROVE  LET q == ArgvChar(p, Quote)
         IN  /\ q \in Reader
             /\ q.argv = p.argv /\ q.in = p.in /\ q.slashes = 0
             /\ q.quoted = p.quoted
             /\ q.arg = (p.arg \o Slashes(p.slashes \div 2)) \o <<Quote>>
<1> DEFINE q == ArgvChar(p, Quote)
<1>1. p.slashes \div 2 \in Nat
  BY DEF Reader
<1>2. p.arg \o Slashes(p.slashes \div 2) \in Seq(Letter)
  BY <1>1, SlashesAre, ConcatProperties DEF Reader
<1>3. PICK a \in Seq(Letter) : a = (p.arg \o Slashes(p.slashes \div 2)) \o <<Quote>>
  BY <1>2, Marks, Extended
<1>4. q = [p EXCEPT !.arg = a, !.slashes = 0]
  BY <1>3, Marks DEF ArgvChar
<1> HIDE DEF q
<1>5. q \in Reader
  BY <1>4 DEF Reader
<1>6. /\ q.argv = p.argv /\ q.arg = a /\ q.in = p.in
      /\ q.quoted = p.quoted /\ q.slashes = 0
  BY <1>4 DEF Reader
<1> QED
  BY <1>3, <1>5, <1>6 DEF q

LEMMA ReadBlank ==
  ASSUME NEW p \in Reader, NEW ch \in {Space, Tab}, p.quoted = FALSE
  PROVE  /\ p.in = TRUE =>
              Between(ArgvChar(p, ch), Append(p.argv, Pending(p)))
         /\ p.in = FALSE => ArgvChar(p, ch) = p
<1> DEFINE q == ArgvChar(p, ch)
<1>1. PICK a \in Seq(Seq(Letter)) : a = Append(p.argv, Pending(p))
  <2>1. Pending(p) \in Seq(Letter) /\ p.argv \in Seq(Seq(Letter))
    BY PendingIs DEF Reader
  <2> QED
    BY <2>1, Appended
<1>2. q = IF p.in THEN [ArgvStart EXCEPT !.argv = a] ELSE p
  BY <1>1, Marks DEF ArgvChar, Pending
<1>3. <<>> \in Seq(Letter)
  OBVIOUS
<1> HIDE DEF q
<1>4. ASSUME p.in = TRUE
      PROVE  Between(q, a)
  <2>1. q = [argv |-> a, arg |-> <<>>, in |-> FALSE, quoted |-> FALSE,
             slashes |-> 0]
    BY <1>2, <1>4 DEF ArgvStart
  <2> QED
    BY <1>3, <2>1 DEF Between, Reader
<1> QED
  BY <1>1, <1>2, <1>4 DEF q

(* A character that is itself.                                              *)
Ordinary(p, ch) == ch # Quote /\ (p.quoted = TRUE \/ ch \notin {Space, Tab})

LEMMA ReadOrdinary ==
  ASSUME NEW p \in Reader, NEW ch \in Letter, Ordinary(p, ch)
  PROVE  LET q == ArgvChar(p, ch)
         IN  /\ q \in Reader
             /\ q.argv = p.argv /\ q.in = TRUE /\ q.quoted = p.quoted
             /\ Pending(q) = Pending(p) \o <<ch>>
             /\ IF ch = Backslash
                THEN q.arg = p.arg /\ q.slashes = p.slashes + 1
                ELSE q.arg = Pending(p) \o <<ch>> /\ q.slashes = 0
<1> DEFINE q == ArgvChar(p, ch)
<1>1. CASE ch = Backslash
  <2>1. /\ q \in Reader
        /\ q.argv = p.argv /\ q.arg = p.arg /\ q.in = TRUE
        /\ q.quoted = p.quoted /\ q.slashes = p.slashes + 1
    BY <1>1, ReadSlash
  <2>2. Pending(q) = Pending(p) \o <<ch>>
    BY <1>1, <2>1, OneSlash DEF Pending, Reader
  <2> QED
    BY <1>1, <2>1, <2>2
<1>2. CASE ch # Backslash
  <2>1. PICK a \in Seq(Letter) : a = Pending(p) \o <<ch>>
    <3>1. Pending(p) \in Seq(Letter)
      BY PendingIs
    <3> QED
      BY <3>1, Extended
  <2>2. q = [p EXCEPT !.arg = a, !.slashes = 0, !.in = TRUE]
    BY <1>2, <2>1 DEF ArgvChar, Ordinary, Reader, Pending
  <2> HIDE DEF q
  <2>3. q \in Reader
    BY <2>2 DEF Reader
  <2>4. /\ q.argv = p.argv /\ q.in = TRUE /\ q.quoted = p.quoted
        /\ q.arg = a /\ q.slashes = 0
    BY <2>2 DEF Reader
  <2>5. Pending(q) = a
    BY <2>4, NoSlashes DEF Pending
  <2> QED
    BY <1>2, <2>1, <2>3, <2>4, <2>5 DEF q
<1> QED
  BY <1>1, <1>2

-----------------------------------------------------------------------------
(* A text that goes on with the first j characters of s.                    *)
Upto(text, s, j) == text \o SubSeq(s, 1, j)

LEMMA UptoGrows ==
  ASSUME NEW text \in Seq(Letter), NEW s \in Seq(Letter)
  PROVE  /\ Upto(text, s, 0) = text
         /\ Upto(text, s, Len(s)) = text \o s
         /\ \A j \in 0 .. Len(s) - 1 :
              /\ s[j + 1] \in Letter
              /\ Upto(text, s, j) \in Seq(Letter)
              /\ Upto(text, s, j + 1) = Upto(text, s, j) \o <<s[j + 1]>>
              /\ SubSeq(s, 1, j) \in Seq(Letter)
              /\ SubSeq(s, 1, j + 1) = SubSeq(s, 1, j) \o <<s[j + 1]>>
<1>1. Upto(text, s, 0) = text
  BY SubSeqEmpty, ConcatEmptySeq DEF Upto
<1>2. Upto(text, s, Len(s)) = text \o s
  BY SubSeqFull DEF Upto
<1>3. ASSUME NEW j \in 0 .. Len(s) - 1
      PROVE  /\ s[j + 1] \in Letter
             /\ Upto(text, s, j) \in Seq(Letter)
             /\ Upto(text, s, j + 1) = Upto(text, s, j) \o <<s[j + 1]>>
             /\ SubSeq(s, 1, j) \in Seq(Letter)
             /\ SubSeq(s, 1, j + 1) = SubSeq(s, 1, j) \o <<s[j + 1]>>
  <2> DEFINE u == SubSeq(s, 1, j)
  <2>1. s[j + 1] \in Letter /\ <<s[j + 1]>> \in Seq(Letter)
    OBVIOUS
  <2>2. u \in Seq(Letter)
    <3>1. \A i \in 1 .. j : s[i] \in Letter
      OBVIOUS
    <3> QED
      BY <3>1, SubSeqProperties
  <2>3. SubSeq(s, 1, j + 1) = u \o <<s[j + 1]>>
    <3>1. 1 \in 1 .. Len(s) /\ j + 1 \in 1 .. Len(s) /\ (j + 1) - 1 = j
      OBVIOUS
    <3> QED
      BY <3>1, SubSeqRecursiveSecond
  <2> HIDE DEF u
  <2>4. text \o (u \o <<s[j + 1]>>) = (text \o u) \o <<s[j + 1]>>
    BY <2>1, <2>2, Associative
  <2>5. text \o u \in Seq(Letter)
    BY <2>2, ConcatProperties
  <2> QED
    BY <2>1, <2>2, <2>3, <2>4, <2>5 DEF Upto, u
<1> QED
  BY <1>1, <1>2, <1>3

LEMMA ReadUpto ==
  ASSUME NEW text \in Seq(Letter), NEW s \in Seq(Letter)
  PROVE  /\ ArgvRead(Upto(text, s, 0)) = ArgvRead(text)
         /\ ArgvRead(Upto(text, s, Len(s))) = ArgvRead(text \o s)
         /\ \A j \in 0 .. Len(s) - 1 :
              ArgvRead(Upto(text, s, j + 1))
                = ArgvChar(ArgvRead(Upto(text, s, j)), s[j + 1])
<1>1. ASSUME NEW j \in 0 .. Len(s) - 1
      PROVE  ArgvRead(Upto(text, s, j + 1))
               = ArgvChar(ArgvRead(Upto(text, s, j)), s[j + 1])
  <2>1. /\ s[j + 1] \in Letter /\ Upto(text, s, j) \in Seq(Letter)
        /\ Upto(text, s, j + 1) = Upto(text, s, j) \o <<s[j + 1]>>
    BY UptoGrows
  <2> QED
    BY <2>1, ArgvReadOn
<1> QED
  BY <1>1, UptoGrows

(* Characters that are themselves, one after the other.                     *)
LEMMA OrdinaryRun ==
  ASSUME NEW text \in Seq(Letter), NEW s \in Seq(Letter),
         ArgvRead(text) \in Reader,
         \A i \in 1 .. Len(s) : Ordinary(ArgvRead(text), s[i])
  PROVE  LET p == ArgvRead(text)
             q == ArgvRead(text \o s)
         IN  /\ q \in Reader
             /\ q.argv = p.argv /\ q.quoted = p.quoted
             /\ Pending(q) = Pending(p) \o s
             /\ Len(s) > 0 =>
                  /\ q.in = TRUE
                  /\ IF s[Len(s)] = Backslash THEN q.slashes > 0
                     ELSE q.slashes = 0 /\ q.arg = Pending(p) \o s
             /\ Len(s) = 0 => q = p
<1> DEFINE p == ArgvRead(text)
           q(j) == ArgvRead(Upto(text, s, j))
           Run(j) ==
             /\ q(j) \in Reader
             /\ q(j).argv = p.argv /\ q(j).quoted = p.quoted
             /\ Pending(q(j)) = Pending(p) \o SubSeq(s, 1, j)
             /\ j > 0 =>
                  /\ q(j).in = TRUE
                  /\ IF s[j] = Backslash THEN q(j).slashes > 0
                     ELSE q(j).slashes = 0 /\ q(j).arg = Pending(p) \o SubSeq(s, 1, j)
           S == {j \in 0 .. Len(s) : Run(j)}
<1>1. Len(s) \in Nat
  OBVIOUS
<1>2. 0 \in S
  <2>1. q(0) = p /\ SubSeq(s, 1, 0) = <<>>
    BY ReadUpto, SubSeqEmpty
  <2>2. Pending(p) \o <<>> = Pending(p)
    BY PendingIs, ConcatEmptySeq
  <2>3. Pending(q(0)) = Pending(p) \o SubSeq(s, 1, 0)
    BY <2>1, <2>2
  <2>4. q(0) \in Reader /\ q(0).argv = p.argv /\ q(0).quoted = p.quoted
    BY <2>1
  <2> HIDE DEF q, p
  <2>5. Run(0)
    BY <2>3, <2>4
  <2> QED
    BY <1>1, <2>5
<1>3. ASSUME NEW j \in 0 .. Len(s) - 1, j \in S
      PROVE  j + 1 \in S
  <2> DEFINE ch == s[j + 1]
             a == q(j)
             b == q(j + 1)
             u == SubSeq(s, 1, j)
  <2>1. /\ ch \in Letter /\ b = ArgvChar(a, ch)
        /\ u \in Seq(Letter) /\ SubSeq(s, 1, j + 1) = u \o <<ch>>
    BY ReadUpto, UptoGrows
  <2>2. Run(j) /\ j + 1 \in 0 .. Len(s) /\ j + 1 > 0 /\ j + 1 \in 1 .. Len(s)
    BY <1>1, <1>3
  <2>3. a \in Reader /\ a.argv = p.argv /\ a.quoted = p.quoted
        /\ Pending(a) = Pending(p) \o u
    BY <2>2
  <2>4. Ordinary(a, ch)
    BY <2>2, <2>3 DEF Ordinary
  <2> HIDE DEF a, b, p, u, ch
  <2>5. /\ b \in Reader
        /\ b.argv = a.argv /\ b.in = TRUE /\ b.quoted = a.quoted
        /\ Pending(b) = Pending(a) \o <<ch>>
        /\ IF ch = Backslash
           THEN b.slashes = a.slashes + 1
           ELSE b.arg = Pending(a) \o <<ch>> /\ b.slashes = 0
    BY <2>1, <2>3, <2>4, ReadOrdinary
  <2>6. (Pending(p) \o u) \o <<ch>> = Pending(p) \o (u \o <<ch>>)
    <3>1. <<ch>> \in Seq(Letter) /\ Pending(p) \in Seq(Letter)
      BY <2>1, PendingIs DEF p
    <3>2. u \in Seq(Letter)
      BY <2>1
    <3> QED
      BY <3>1, <3>2, Associative, Zenon
  <2>7. a.slashes \in Nat
    BY <2>3 DEF Reader
  <2>8. Run(j + 1)
    <3>1. Pending(b) = Pending(p) \o SubSeq(s, 1, j + 1)
      BY <2>1, <2>3, <2>5, <2>6
    <3>2. b.argv = p.argv /\ b.quoted = p.quoted
      BY <2>3, <2>5
    <3>3. IF ch = Backslash THEN b.slashes > 0
          ELSE b.slashes = 0 /\ b.arg = Pending(p) \o SubSeq(s, 1, j + 1)
      <4>1. CASE ch = Backslash
        BY <2>5, <2>7, <4>1
      <4>2. CASE ch # Backslash
        BY <2>1, <2>3, <2>5, <2>6, <4>2
      <4> QED
        BY <4>1, <4>2
    <3> HIDE DEF q
    <3> QED
      BY <2>2, <2>5, <3>1, <3>2, <3>3 DEF ch, b
  <2> QED
    BY <2>2, <2>8
<1>4. Run(Len(s))
  <2> HIDE DEF S
  <2>1. \A j \in 0 .. Len(s) : j \in S
    BY <1>1, <1>2, <1>3, Upward
  <2> QED
    BY <1>1, <2>1 DEF S
<1>5. SubSeq(s, 1, Len(s)) = s
  BY SubSeqFull
<1>6. q(Len(s)) = ArgvRead(text \o s)
  BY ReadUpto
<1>7. Len(s) = 0 => ArgvRead(text \o s) = p
  BY <1>6, ReadUpto
<1> QED
  BY <1>4, <1>5, <1>6, <1>7

-----------------------------------------------------------------------------
(* One argument that gets through                                           *)

(* WriteArgument, of the text alone.                                        *)
Written(text, s) ==
  IF HasWhiteSpace(s) THEN ((text \o <<Quote>>) \o s) \o <<Quote>>
  ELSE text \o s

(* At the end of an argument that the next blank completes.                 *)
Ready(p, argv) ==
  p \in Reader /\ p.quoted = FALSE /\ Between(ArgvChar(p, Space), argv)

Unquoted(s) == s \in Seq(Letter) /\ \A i \in 1 .. Len(s) : s[i] # Quote

LEMMA AwkwardIs ==
  ASSUME NEW s \in Seq(Letter)
  PROVE  /\ HasWhiteSpace(s) <=> \E i \in 1 .. Len(s) : s[i] = Space
         /\ HasWhiteSpace(s) => (Awkward(s) <=> s[Len(s)] = Backslash)
         /\ ~ HasWhiteSpace(s) =>
              (Awkward(s) <=> Len(s) = 0 \/ \E i \in 1 .. Len(s) : s[i] = Tab)
<1>1. DOMAIN s = 1 .. Len(s) /\ (s = <<>> <=> Len(s) = 0)
  BY EmptySeq, LenProperties
<1>2. HasWhiteSpace(s) <=> \E i \in 1 .. Len(s) : s[i] = Space
  BY <1>1 DEF HasWhiteSpace
<1>3. \A c : c \in Range(s) <=> \E i \in 1 .. Len(s) : s[i] = c
  BY <1>1 DEF Range
<1> QED
  BY <1>1, <1>2, <1>3 DEF Awkward, Last

LEMMA WrittenIs ==
  ASSUME NEW text \in Seq(Letter), NEW s \in Seq(Letter)
  PROVE  /\ text \o <<Quote>> \in Seq(Letter)
         /\ (text \o <<Quote>>) \o s \in Seq(Letter)
         /\ Written(text, s) \in Seq(Letter)
<1>1. text \o <<Quote>> \in Seq(Letter)
  BY Marks, Extended
<1>2. (text \o <<Quote>>) \o s \in Seq(Letter) /\ text \o s \in Seq(Letter)
  BY <1>1, ConcatProperties
<1>3. ((text \o <<Quote>>) \o s) \o <<Quote>> \in Seq(Letter)
  BY <1>2, Marks, Extended
<1> QED
  BY <1>1, <1>2, <1>3 DEF Written

(* The quote that WriteArgument puts in front.                              *)
LEMMA OpenQuote ==
  ASSUME NEW text \in Seq(Letter), NEW argv, Between(ArgvRead(text), argv)
  PROVE  LET q == ArgvRead(text \o <<Quote>>)
         IN  /\ q \in Reader /\ q.argv = argv /\ q.in = TRUE
             /\ q.quoted = TRUE /\ Pending(q) = <<>>
<1> DEFINE p == ArgvRead(text)
           q == ArgvRead(text \o <<Quote>>)
<1>1. q = ArgvChar(p, Quote)
  BY Marks, ArgvReadOn
<1>2. /\ p \in Reader /\ p.argv = argv /\ p.arg = <<>> /\ p.slashes = 0
      /\ p.quoted = FALSE /\ p.slashes % 2 = 0 /\ p.slashes \div 2 = 0
  BY DEF Between
<1> HIDE DEF p, q
<1>3. /\ q \in Reader /\ q.argv = argv /\ q.in = TRUE
      /\ q.quoted = TRUE /\ q.slashes = 0 /\ q.arg = <<>> \o Slashes(0)
  BY <1>1, <1>2, ReadQuote
<1>4. <<>> \in Seq(Letter)
  OBVIOUS
<1>5. q.arg = <<>>
  BY <1>3, <1>4, NoSlashes
<1>6. Pending(q) = <<>>
  BY <1>3, <1>4, <1>5, NoSlashes DEF Pending
<1> QED
  BY <1>3, <1>6 DEF q

LEMMA GoodWord ==
  ASSUME NEW text \in Seq(Letter), NEW argv, Between(ArgvRead(text), argv),
         NEW s, Unquoted(s), ~ Awkward(s)
  PROVE  Ready(ArgvRead(Written(text, s)), Append(argv, s))
<1> DEFINE p == ArgvRead(text)
<1>1. s \in Seq(Letter) /\ Len(s) \in Nat
  BY DEF Unquoted
<1>2. p \in Reader /\ p.argv = argv /\ p.quoted = FALSE
  BY DEF Between
<1>3. CASE ~ HasWhiteSpace(s)
  <2> DEFINE q == ArgvRead(text \o s)
  <2>1. /\ Len(s) > 0
        /\ \A i \in 1 .. Len(s) : s[i] # Quote /\ s[i] # Space /\ s[i] # Tab
    BY <1>1, <1>3, AwkwardIs DEF Unquoted
  <2>2. \A i \in 1 .. Len(s) : Ordinary(p, s[i])
    BY <2>1 DEF Ordinary
  <2>3. /\ q \in Reader /\ q.argv = argv /\ q.quoted = FALSE /\ q.in = TRUE
        /\ Pending(q) = Pending(p) \o s
    BY <1>1, <1>2, <2>1, <2>2, OrdinaryRun
  <2>4. Pending(p) \o s = s
    <3>1. Pending(p) = <<>>
      BY NoSlashes, EmptySeq DEF Pending, Between, Reader
    <3> QED
      BY <1>1, <3>1, ConcatEmptySeq
  <2> HIDE DEF q
  <2>5. Between(ArgvChar(q, Space), Append(argv, s))
    BY <2>3, <2>4, ReadBlank
  <2>6. Ready(q, Append(argv, s))
    BY <2>3, <2>5 DEF Ready
  <2> QED
    BY <1>3, <2>6 DEF q, Written
<1>4. CASE HasWhiteSpace(s)
  <2> DEFINE t == text \o <<Quote>>
             a == ArgvRead(t)
             b == ArgvRead(t \o s)
             q == ArgvRead((t \o s) \o <<Quote>>)
  <2>1. t \in Seq(Letter) /\ t \o s \in Seq(Letter)
    BY <1>1, WrittenIs
  <2>2. /\ a \in Reader /\ a.argv = argv /\ a.quoted = TRUE
        /\ Pending(a) = <<>>
    BY OpenQuote
  <2>3. Len(s) > 0 /\ s[Len(s)] # Backslash
    BY <1>1, <1>4, AwkwardIs
  <2>4. \A i \in 1 .. Len(s) : Ordinary(a, s[i])
    BY <2>2 DEF Ordinary, Unquoted
  <2> HIDE DEF t
  <2>5. /\ b \in Reader /\ b.argv = argv /\ b.quoted = TRUE /\ b.in = TRUE
        /\ b.slashes = 0 /\ b.arg = Pending(a) \o s
    BY <1>1, <2>1, <2>2, <2>3, <2>4, OrdinaryRun
  <2>6. q = ArgvChar(b, Quote)
    BY <2>1, Marks, ArgvReadOn
  <2> HIDE DEF a, b, q
  <2>7. b.arg = s
    BY <1>1, <2>2, <2>5, ConcatEmptySeq
  <2>8. /\ q \in Reader /\ q.argv = argv /\ q.in = TRUE /\ q.slashes = 0
        /\ q.quoted = FALSE /\ q.arg = s \o Slashes(0)
    <3>1. b.slashes % 2 = 0 /\ b.slashes \div 2 = 0
      BY <2>5
    <3> QED
      BY <2>5, <2>6, <2>7, <3>1, ReadQuote
  <2>9. Pending(q) = s
    BY <1>1, <2>8, NoSlashes DEF Pending
  <2>10. Between(ArgvChar(q, Space), Append(argv, s))
    BY <2>8, <2>9, ReadBlank
  <2>11. Ready(q, Append(argv, s))
    BY <2>8, <2>10 DEF Ready
  <2> QED
    BY <1>4, <2>11 DEF q, t, Written
<1> QED
  BY <1>3, <1>4

-----------------------------------------------------------------------------
(* One argument that does not get through: a is the argument and the place  *)
(* of a is k + 1.                                                           *)

(* A string that has what a does not have.                                  *)
Alien(w, a) == \E i \in 1 .. Len(w) : w[i] \notin Range(a)

(* Something else stands in its place, or is going to.                      *)
Lost(p, k, a) ==
  \/ Len(p.argv) > k /\ p.argv[k + 1] # a
  \/ /\ Len(p.argv) = k /\ p.in = TRUE
     /\ Alien(p.arg, a) \/ (p.slashes > 0 /\ Backslash \notin Range(a))

(* There is nothing of it, so the next argument is taken for it.            *)
Skipped(p, k, a) ==
  /\ Len(p.argv) = k /\ Between(p, p.argv)
  /\ \A i \in 1 .. Len(a) : a[i] = Tab

LEMMA RangeOf ==
  ASSUME NEW s \in Seq(Letter), NEW c
  PROVE  c \in Range(s) <=> \E i \in 1 .. Len(s) : s[i] = c
BY LenProperties DEF Range

LEMMA AlienGrows ==
  ASSUME NEW w \in Seq(Letter), NEW v \in Seq(Letter), NEW a \in Seq(Letter)
  PROVE  /\ Alien(w, a) \/ Alien(v, a) => Alien(w \o v, a)
         /\ Alien(w, a) => w # a
<1>1. /\ Len(w) \in Nat /\ Len(v) \in Nat /\ Len(w \o v) = Len(w) + Len(v)
      /\ \A i \in 1 .. Len(w) : (w \o v)[i] = w[i]
      /\ \A i \in 1 .. Len(v) : (w \o v)[Len(w) + i] = v[i]
  OBVIOUS
<1>2. Alien(w, a) => Alien(w \o v, a)
  <2> SUFFICES ASSUME NEW i \in 1 .. Len(w), w[i] \notin Range(a)
               PROVE  Alien(w \o v, a)
    BY DEF Alien
  <2>1. i \in 1 .. Len(w \o v) /\ (w \o v)[i] = w[i]
    BY <1>1
  <2> QED
    BY <2>1 DEF Alien
<1>3. Alien(v, a) => Alien(w \o v, a)
  <2> SUFFICES ASSUME NEW i \in 1 .. Len(v), v[i] \notin Range(a)
               PROVE  Alien(w \o v, a)
    BY DEF Alien
  <2>1. Len(w) + i \in 1 .. Len(w \o v) /\ (w \o v)[Len(w) + i] = v[i]
    BY <1>1
  <2> QED
    BY <2>1 DEF Alien
<1>4. Alien(w, a) => w # a
  BY RangeOf DEF Alien
<1> QED
  BY <1>2, <1>3, <1>4

LEMMA AlienSlashes ==
  ASSUME NEW n \in Nat \ {0}, NEW a, Backslash \notin Range(a)
  PROVE  Alien(Slashes(n), a)
<1>1. 1 \in 1 .. Len(Slashes(n)) /\ Slashes(n)[1] = Backslash
  BY SlashesAre
<1> QED
  BY <1>1 DEF Alien

(* What is lost stays lost, whatever is read.                               *)
LEMMA LostStays ==
  ASSUME NEW p \in Reader, NEW ch \in Letter, NEW k \in Nat, NEW a,
         Unquoted(a), Lost(p, k, a)
  PROVE  ArgvChar(p, ch) \in Reader /\ Lost(ArgvChar(p, ch), k, a)
<1> DEFINE q == ArgvChar(p, ch)
           Other(x) == Len(x.argv) > k /\ x.argv[k + 1] # a
<1>1. a \in Seq(Letter) /\ Quote \notin Range(a)
  BY RangeOf DEF Unquoted
<1>2. /\ p.argv \in Seq(Seq(Letter)) /\ p.arg \in Seq(Letter)
      /\ p.slashes \in Nat /\ Slashes(p.slashes) \in Seq(Letter)
      /\ Pending(p) \in Seq(Letter)
      /\ p.in \in BOOLEAN /\ p.quoted \in BOOLEAN
  BY SlashesAre, PendingIs DEF Reader
<1>3. ASSUME p.in = TRUE, Len(p.argv) = k,
             Alien(p.arg, a) \/ (p.slashes > 0 /\ Backslash \notin Range(a))
      PROVE  Alien(Pending(p), a)
  <2>1. Alien(p.arg, a) \/ Alien(Slashes(p.slashes), a)
    BY <1>2, <1>3, AlienSlashes
  <2> QED
    BY <1>1, <1>2, <2>1, AlienGrows DEF Pending
<1>4. CASE ch = Backslash
  <2>1. /\ q \in Reader
        /\ q.argv = p.argv /\ q.arg = p.arg /\ q.in = TRUE
        /\ q.slashes = p.slashes + 1
    BY <1>4, ReadSlash
  <2> HIDE DEF q
  <2>2. p.slashes > 0 => q.slashes > 0
    BY <1>2, <2>1
  <2> QED
    BY <2>1, <2>2 DEF Lost, q
<1>5. CASE ch = Quote
  <2> DEFINE n == p.slashes \div 2
  <2>1. n \in Nat /\ Slashes(n) \in Seq(Letter)
        /\ p.arg \o Slashes(n) \in Seq(Letter)
    <3>1. n \in Nat
      BY <1>2
    <3> HIDE DEF n
    <3>2. Slashes(n) \in Seq(Letter)
      BY <3>1, SlashesAre
    <3> QED
      BY <1>2, <3>1, <3>2, ConcatProperties
  <2>2. CASE p.slashes % 2 = 0
    <3>1. /\ q \in Reader
          /\ q.argv = p.argv /\ q.in = TRUE
          /\ q.arg = p.arg \o Slashes(n)
      BY <1>5, <2>2, ReadQuote
    <3>2. p.slashes > 0 => n \in Nat \ {0}
      BY <1>2, <2>2
    <3> HIDE DEF q, n
    <3>3. Alien(p.arg, a) \/ (p.slashes > 0 /\ Backslash \notin Range(a))
            => Alien(q.arg, a)
      <4>1. Alien(p.arg, a) \/ (p.slashes > 0 /\ Backslash \notin Range(a))
              => Alien(p.arg, a) \/ Alien(Slashes(n), a)
        BY <3>2, AlienSlashes
      <4> QED
        BY <1>1, <1>2, <2>1, <3>1, <4>1, AlienGrows
    <3> QED
      BY <3>1, <3>3 DEF Lost, q
  <2>3. CASE p.slashes % 2 # 0
    <3>1. /\ q \in Reader
          /\ q.argv = p.argv /\ q.in = p.in
          /\ q.arg = (p.arg \o Slashes(n)) \o <<Quote>>
      <4>1. p.slashes % 2 = 1
        BY <1>2, <2>3
      <4> QED
        BY <1>5, <4>1, ReadEscapedQuote
    <3>2. Alien(<<Quote>>, a) /\ <<Quote>> \in Seq(Letter)
      <4>1. 1 \in 1 .. Len(<<Quote>>) /\ <<Quote>>[1] = Quote
        OBVIOUS
      <4> QED
        BY <1>1, <4>1, Marks DEF Alien
    <3> HIDE DEF q, n
    <3>3. Alien(q.arg, a)
      BY <1>1, <2>1, <3>1, <3>2, AlienGrows
    <3> QED
      BY <3>1, <3>3 DEF Lost, q
  <2> QED
    BY <2>2, <2>3
<1>6. CASE ch \in {Space, Tab} /\ p.quoted = FALSE
  <2>1. CASE p.in = FALSE
    <3>1. q = p
      BY <1>6, <2>1, ReadBlank
    <3> QED
      BY <3>1
  <2>2. CASE p.in = TRUE
    <3>1. q \in Reader /\ q.argv = Append(p.argv, Pending(p))
      BY <1>6, <2>2, ReadBlank DEF Between
    <3>2. /\ Len(q.argv) = Len(p.argv) + 1
          /\ q.argv[Len(p.argv) + 1] = Pending(p)
          /\ \A i \in 1 .. Len(p.argv) : q.argv[i] = p.argv[i]
          /\ Len(p.argv) \in Nat
      BY <1>2, <3>1, Appended
    <3> HIDE DEF q
    <3>3. CASE Other(p)
      <4>1. k + 1 \in 1 .. Len(p.argv)
        BY <3>2, <3>3
      <4> QED
        BY <3>1, <3>2, <3>3, <4>1 DEF Lost, q
    <3>4. CASE ~ Other(p)
      <4>1. Len(p.argv) = k /\ Alien(Pending(p), a)
        BY <1>3, <3>4 DEF Lost
      <4>2. Pending(p) # a
        BY <1>1, <1>2, <4>1, AlienGrows
      <4> QED
        BY <3>1, <3>2, <4>1, <4>2 DEF Lost, q
    <3> QED
      BY <3>3, <3>4
  <2> QED
    BY <1>2, <2>1, <2>2
<1>7. CASE ch # Backslash /\ Ordinary(p, ch)
  <2>1. /\ q \in Reader
        /\ q.argv = p.argv /\ q.in = TRUE
        /\ q.arg = Pending(p) \o <<ch>>
    BY <1>7, ReadOrdinary
  <2> HIDE DEF q
  <2>2. <<ch>> \in Seq(Letter)
    OBVIOUS
  <2>3. Alien(Pending(p), a) => Alien(q.arg, a)
    BY <1>1, <1>2, <2>1, <2>2, AlienGrows
  <2> QED
    BY <1>3, <2>1, <2>3 DEF Lost, q
<1> QED
  BY <1>2, <1>4, <1>5, <1>6, <1>7 DEF Ordinary

LEMMA LostRun ==
  ASSUME NEW text \in Seq(Letter), NEW s \in Seq(Letter), NEW k \in Nat,
         NEW a, Unquoted(a),
         ArgvRead(text) \in Reader, Lost(ArgvRead(text), k, a)
  PROVE  /\ ArgvRead(text \o s) \in Reader
         /\ Lost(ArgvRead(text \o s), k, a)
<1> DEFINE q(j) == ArgvRead(Upto(text, s, j))
           S == {j \in 0 .. Len(s) : q(j) \in Reader /\ Lost(q(j), k, a)}
<1>1. Len(s) \in Nat
  OBVIOUS
<1>2. 0 \in S
  BY <1>1, ReadUpto
<1>3. ASSUME NEW j \in 0 .. Len(s) - 1, j \in S
      PROVE  j + 1 \in S
  <2>1. s[j + 1] \in Letter /\ q(j + 1) = ArgvChar(q(j), s[j + 1])
    BY ReadUpto, UptoGrows
  <2>2. q(j) \in Reader /\ Lost(q(j), k, a) /\ j + 1 \in 0 .. Len(s)
    BY <1>1, <1>3
  <2> HIDE DEF q
  <2>3. q(j + 1) \in Reader /\ Lost(q(j + 1), k, a)
    BY <2>1, <2>2, LostStays
  <2> QED
    BY <2>2, <2>3
<1>4. Len(s) \in S
  <2> HIDE DEF S
  <2>1. \A j \in 0 .. Len(s) : j \in S
    BY <1>1, <1>2, <1>3, Upward
  <2> QED
    BY <1>1, <2>1
<1> QED
  BY <1>4, ReadUpto

(* At the end of an argument after one that does not get through.           *)
Bad(p, k, a) ==
  /\ p \in Reader
  /\ \/ Lost(p, k, a)
     \/ Skipped(p, k, a)
     \/ p.quoted = FALSE /\ Lost(ArgvChar(p, Space), k, a)

(* An argument with a tab and no space, or an empty one: it is cut at the   *)
(* first tab behind another character, or it is nothing but tabs.           *)
LEMMA TabWord ==
  ASSUME NEW text \in Seq(Letter), NEW k \in Nat, NEW argv, Len(argv) = k,
         Between(ArgvRead(text), argv),
         NEW a, Unquoted(a), ~ HasWhiteSpace(a), Awkward(a)
  PROVE  Bad(ArgvRead(Written(text, a)), k, a)
<1> DEFINE q(j) == ArgvRead(Upto(text, a, j))
           NoTab(w) == \A i \in 1 .. Len(w) : w[i] # Tab
           Cut(p) == /\ p.argv = argv /\ p.in = TRUE /\ p.quoted = FALSE
                     /\ NoTab(Pending(p))
           Blank(p, j) == Between(p, argv) /\ \A i \in 1 .. j : a[i] = Tab
           S == {j \in 0 .. Len(a) :
                   q(j) \in Reader /\ (Lost(q(j), k, a) \/ Cut(q(j)) \/ Blank(q(j), j))}
<1>1. /\ a \in Seq(Letter) /\ Len(a) \in Nat
      /\ \A i \in 1 .. Len(a) : a[i] # Quote /\ a[i] # Space
      /\ Len(a) = 0 \/ \E i \in 1 .. Len(a) : a[i] = Tab
  BY AwkwardIs DEF Unquoted
<1>2. argv \in Seq(Seq(Letter))
  BY DEF Between, Reader
<1>3. ASSUME NEW p \in Reader, Cut(p), NEW ch \in {Space, Tab}, Len(a) > 0
      PROVE  /\ ArgvChar(p, ch) \in Reader
             /\ Lost(ArgvChar(p, ch), k, a)
  <2> DEFINE r == ArgvChar(p, ch)
  <2>1. r \in Reader /\ r.argv = Append(argv, Pending(p))
    BY <1>3, ReadBlank DEF Between
  <2>2. Len(r.argv) = k + 1 /\ r.argv[k + 1] = Pending(p)
    BY <1>2, <2>1, PendingIs, Appended
  <2>3. Pending(p) # a
    BY <1>1, <1>3
  <2> HIDE DEF r
  <2> QED
    BY <2>1, <2>2, <2>3 DEF Lost, r
<1>4. 0 \in S
  <2>1. q(0) = ArgvRead(text)
    BY <1>1, ReadUpto
  <2>2. Blank(q(0), 0) /\ q(0) \in Reader
    BY <2>1 DEF Between
  <2> QED
    BY <1>1, <2>2
<1>5. ASSUME NEW j \in 0 .. Len(a) - 1, j \in S
      PROVE  j + 1 \in S
  <2> DEFINE ch == a[j + 1]
             r == q(j + 1)
             p == q(j)
  <2>1. ch \in Letter /\ r = ArgvChar(p, ch)
    BY <1>1, ReadUpto, UptoGrows
  <2>2. /\ j + 1 \in 1 .. Len(a) /\ j + 1 \in 0 .. Len(a) /\ Len(a) > 0
        /\ p \in Reader /\ (Lost(p, k, a) \/ Cut(p) \/ Blank(p, j))
    BY <1>1, <1>5
  <2>3. ch # Quote /\ ch # Space
    BY <1>1, <2>2
  <2> HIDE DEF q
  <2> SUFFICES r \in Reader /\ (Lost(r, k, a) \/ Cut(r) \/ Blank(r, j + 1))
    BY <2>2
  <2> HIDE DEF p, r, ch
  <2>4. CASE Lost(p, k, a)
    BY <2>1, <2>2, <2>4, LostStays
  <2>5. CASE Cut(p) /\ ch = Tab
    BY <1>3, <2>1, <2>2, <2>5
  <2>6. CASE Cut(p) /\ ch # Tab
    <3>1. Ordinary(p, ch)
      BY <2>3, <2>6 DEF Ordinary
    <3>2. /\ r \in Reader /\ r.argv = p.argv /\ r.in = TRUE
          /\ r.quoted = p.quoted /\ Pending(r) = Pending(p) \o <<ch>>
      BY <2>1, <2>2, <3>1, ReadOrdinary
    <3>3. NoTab(Pending(r))
      <4> DEFINE w == Pending(p)
      <4>1. w \in Seq(Letter) /\ NoTab(w)
        BY <2>2, <2>6, PendingIs
      <4> HIDE DEF w
      <4>2. NoTab(w \o <<ch>>)
        BY <2>1, <2>6, <4>1
      <4> QED
        BY <3>2, <4>2 DEF w
    <3> QED
      BY <2>6, <3>2, <3>3
  <2>7. CASE Blank(p, j) /\ ch = Tab
    <3>1. r = p
      BY <2>1, <2>7, ReadBlank DEF Between
    <3>2. \A i \in 1 .. j + 1 : a[i] = Tab
      BY <2>7 DEF ch
    <3> QED
      BY <2>2, <2>7, <3>1, <3>2
  <2>8. CASE Blank(p, j) /\ ch # Tab
    <3>1. p.argv = argv /\ p.quoted = FALSE /\ p.arg = <<>> /\ p.slashes = 0
      BY <2>8 DEF Between
    <3>2. Ordinary(p, ch)
      BY <2>3, <2>8 DEF Ordinary
    <3>3. /\ r \in Reader /\ r.argv = p.argv /\ r.in = TRUE
          /\ r.quoted = p.quoted /\ Pending(r) = Pending(p) \o <<ch>>
      BY <2>1, <2>2, <3>2, ReadOrdinary
    <3>4. Pending(p) = <<>>
      BY <3>1, NoSlashes, EmptySeq DEF Pending
    <3>5. <<>> \o <<ch>> = <<ch>>
      OBVIOUS
    <3>6. NoTab(<<ch>>)
      <4>1. Len(<<ch>>) = 1 /\ <<ch>>[1] = ch
        OBVIOUS
      <4> QED
        BY <2>8, <4>1
    <3> QED
      BY <3>1, <3>3, <3>4, <3>5, <3>6
  <2> QED
    BY <2>2, <2>4, <2>5, <2>6, <2>7, <2>8
<1>6. Len(a) \in S
  <2> HIDE DEF S
  <2>1. \A j \in 0 .. Len(a) : j \in S
    BY <1>1, <1>4, <1>5, Upward
  <2> QED
    BY <1>1, <2>1
<1> DEFINE z == ArgvRead(Written(text, a))
<1>7. z = q(Len(a))
  BY <1>1, ReadUpto DEF Written
<1>8. z \in Reader /\ (Lost(z, k, a) \/ Cut(z) \/ Blank(z, Len(a)))
  BY <1>6, <1>7
<1> HIDE DEF z
<1>9. CASE Cut(z)
  <2>1. CASE Len(a) > 0
    BY <1>3, <1>8, <1>9, <2>1 DEF Bad, z
  <2>2. CASE Len(a) = 0
    <3>1. z = ArgvRead(text)
      BY <1>1, <1>7, <2>2, ReadUpto
    <3> QED
      BY <1>9, <3>1 DEF Between
  <2> QED
    BY <1>1, <2>1, <2>2
<1>10. CASE Blank(z, Len(a))
  <2>1. Skipped(z, k, a)
    BY <1>10 DEF Skipped, Between
  <2> QED
    BY <1>8, <2>1 DEF Bad, z
<1> QED
  BY <1>8, <1>9, <1>10 DEF Bad, z

(* An argument with a space and a backslash at its end: the quote behind it *)
(* becomes a character, or half of the backslashes go.                      *)
LEMMA SlashWord ==
  ASSUME NEW text \in Seq(Letter), NEW k \in Nat, NEW argv, Len(argv) = k,
         Between(ArgvRead(text), argv),
         NEW a, Unquoted(a), HasWhiteSpace(a), Awkward(a)
  PROVE  Bad(ArgvRead(Written(text, a)), k, a)
<1> DEFINE t == text \o <<Quote>>
           p == ArgvRead(t)
           b == ArgvRead(t \o a)
           q == ArgvRead((t \o a) \o <<Quote>>)
           n == b.slashes \div 2
<1>1. a \in Seq(Letter) /\ Len(a) \in Nat /\ argv \in Seq(Seq(Letter))
  BY DEF Unquoted, Between, Reader
<1>2. t \in Seq(Letter) /\ t \o a \in Seq(Letter)
  BY <1>1, WrittenIs
<1>3. p \in Reader /\ p.argv = argv /\ p.quoted = TRUE /\ Pending(p) = <<>>
  BY OpenQuote
<1>4. Len(a) > 0 /\ a[Len(a)] = Backslash
  BY <1>1, AwkwardIs
<1>5. \A i \in 1 .. Len(a) : Ordinary(p, a[i])
  BY <1>3 DEF Ordinary, Unquoted
<1> HIDE DEF t
<1>6. /\ b \in Reader /\ b.argv = argv /\ b.quoted = TRUE /\ b.in = TRUE
      /\ b.slashes > 0 /\ Pending(b) = a
  <2>1. <<>> \o a = a
    BY <1>1, ConcatEmptySeq
  <2> QED
    BY <1>1, <1>2, <1>3, <1>4, <1>5, <2>1, OrdinaryRun
<1>7. q = ArgvChar(b, Quote)
  BY <1>2, Marks, ArgvReadOn
<1> HIDE DEF p, b, q
<1>8. /\ b.arg \in Seq(Letter) /\ b.slashes \in Nat
      /\ Slashes(b.slashes) \in Seq(Letter) /\ Len(Slashes(b.slashes)) = b.slashes
  BY <1>6, SlashesAre DEF Reader
<1>9. /\ n \in Nat /\ n < b.slashes
  BY <1>6, <1>8
<1> HIDE DEF n
<1>10. /\ Slashes(n) \in Seq(Letter) /\ Len(Slashes(n)) = n
       /\ b.arg \o Slashes(n) \in Seq(Letter)
  <2>1. Slashes(n) \in Seq(Letter) /\ Len(Slashes(n)) = n
    BY <1>9, SlashesAre
  <2> QED
    BY <1>8, <2>1, ConcatProperties
<1>11. CASE b.slashes % 2 = 0
  <2>1. /\ q \in Reader /\ q.argv = argv /\ q.in = TRUE /\ q.slashes = 0
        /\ q.quoted = FALSE /\ q.arg = b.arg \o Slashes(n)
    BY <1>6, <1>7, <1>11, ReadQuote DEF n
  <2>2. Pending(q) = b.arg \o Slashes(n)
    BY <1>10, <2>1, NoSlashes DEF Pending
  <2>3. b.arg \o Slashes(n) # a
    <3>1. Len(b.arg \o Slashes(n)) = Len(b.arg) + n
      <4>1. Len(b.arg \o Slashes(n)) = Len(b.arg) + Len(Slashes(n))
        BY <1>8, <1>10, Joining, Zenon
      <4> QED
        BY <1>10, <4>1
    <3>2. Len(a) = Len(b.arg) + b.slashes
      <4>1. Len(b.arg \o Slashes(b.slashes)) = Len(b.arg) + b.slashes
        <5>1. Len(b.arg \o Slashes(b.slashes)) = Len(b.arg) + Len(Slashes(b.slashes))
          BY <1>8, Joining, Zenon
        <5> QED
          BY <1>8, <5>1
      <4> QED
        BY <1>6, <4>1 DEF Pending
    <3>3. Len(b.arg) \in Nat
      BY <1>8
    <3> QED
      BY <1>8, <1>9, <3>1, <3>2, <3>3
  <2>4. ArgvChar(q, Space).argv = Append(argv, Pending(q))
    BY <2>1, ReadBlank DEF Between
  <2>5. /\ Len(Append(argv, Pending(q))) = k + 1
        /\ Append(argv, Pending(q))[k + 1] = Pending(q)
    BY <1>1, <2>1, PendingIs, Appended
  <2>6. Lost(ArgvChar(q, Space), k, a)
    BY <2>2, <2>3, <2>4, <2>5 DEF Lost
  <2> QED
    BY <2>1, <2>6 DEF Bad, q, t, Written
<1>12. CASE b.slashes % 2 # 0
  <2>1. b.slashes % 2 = 1
    BY <1>8, <1>12
  <2>2. /\ q \in Reader /\ q.argv = argv /\ q.in = TRUE
        /\ q.arg = (b.arg \o Slashes(n)) \o <<Quote>>
    BY <1>6, <1>7, <2>1, ReadEscapedQuote DEF n
  <2>3. Alien(<<Quote>>, a) /\ <<Quote>> \in Seq(Letter)
    <3>1. 1 \in 1 .. Len(<<Quote>>) /\ <<Quote>>[1] = Quote
      OBVIOUS
    <3>2. Quote \notin Range(a)
      BY <1>1, RangeOf DEF Unquoted
    <3> QED
      BY <3>1, <3>2, Marks DEF Alien
  <2>4. Alien(q.arg, a)
    BY <1>1, <1>10, <2>2, <2>3, AlienGrows
  <2>5. Lost(q, k, a)
    BY <2>2, <2>4 DEF Lost
  <2> QED
    BY <2>2, <2>5 DEF Bad, q, t, Written
<1> QED
  BY <1>11, <1>12

(* The next argument, when there is nothing of a.                           *)
LEMMA SkippedWord ==
  ASSUME NEW text \in Seq(Letter), NEW k \in Nat,
         NEW a, Unquoted(a), Skipped(ArgvRead(text), k, a),
         NEW s, Unquoted(s)
  PROVE  Bad(ArgvRead(Written(text, s)), k, a)
<1>0. PICK argv : argv = ArgvRead(text).argv
  OBVIOUS
<1>1. /\ s \in Seq(Letter) /\ Len(s) \in Nat /\ a \in Seq(Letter)
      /\ Len(argv) = k /\ Between(ArgvRead(text), argv)
      /\ \A c : c # Tab => c \notin Range(a)
  BY <1>0, RangeOf DEF Unquoted, Skipped
<1>2. CASE ~ HasWhiteSpace(s)
  <2> DEFINE q(j) == ArgvRead(Upto(text, s, j))
             S == {j \in 0 .. Len(s) :
                     q(j) \in Reader /\ (Lost(q(j), k, a) \/ Skipped(q(j), k, a))}
  <2>1. 0 \in S
    BY <1>1, ReadUpto DEF Skipped, Between
  <2>2. ASSUME NEW j \in 0 .. Len(s) - 1, j \in S
        PROVE  j + 1 \in S
    <3> DEFINE ch == s[j + 1]
               r == q(j + 1)
               p == q(j)
    <3>1. ch \in Letter /\ r = ArgvChar(p, ch)
      BY <1>1, ReadUpto, UptoGrows
    <3>2. /\ j + 1 \in 1 .. Len(s) /\ j + 1 \in 0 .. Len(s)
          /\ p \in Reader /\ (Lost(p, k, a) \/ Skipped(p, k, a))
      BY <1>1, <2>2
    <3>3. ch # Quote /\ ch # Space
      BY <1>1, <1>2, <3>2, AwkwardIs DEF Unquoted
    <3> HIDE DEF q
    <3> SUFFICES r \in Reader /\ (Lost(r, k, a) \/ Skipped(r, k, a))
      BY <3>2
    <3> HIDE DEF p, r, ch
    <3>4. CASE Lost(p, k, a)
      BY <3>1, <3>2, <3>4, LostStays
    <3>5. CASE Skipped(p, k, a) /\ ch = Tab
      <4>1. r = p
        BY <3>1, <3>2, <3>5, ReadBlank DEF Between, Skipped
      <4> QED
        BY <3>2, <3>5, <4>1
    <3>6. CASE Skipped(p, k, a) /\ ch # Tab
      <4>1. Ordinary(p, ch)
        BY <3>3, <3>6 DEF Ordinary
      <4>2. /\ r \in Reader /\ r.argv = p.argv /\ r.in = TRUE
            /\ IF ch = Backslash
               THEN r.slashes = p.slashes + 1
               ELSE r.arg = Pending(p) \o <<ch>>
        BY <3>1, <3>2, <4>1, ReadOrdinary
      <4>3. p.arg = <<>> /\ p.slashes = 0 /\ Len(p.argv) = k
        BY <3>6 DEF Skipped, Between
      <4>4. CASE ch = Backslash
        <5>1. r.slashes > 0
          BY <4>2, <4>3, <4>4
        <5>2. Backslash \notin Range(a)
          BY <1>1, Marks
        <5> QED
          BY <4>2, <4>3, <5>1, <5>2 DEF Lost
      <4>5. CASE ch # Backslash
        <5>1. <<ch>> \in Seq(Letter) /\ 1 \in 1 .. Len(<<ch>>) /\ <<ch>>[1] = ch
          BY <3>1
        <5>2. Alien(<<ch>>, a)
          BY <1>1, <3>6, <5>1 DEF Alien
        <5>3. Alien(r.arg, a)
          <6>1. Pending(p) \in Seq(Letter) /\ r.arg = Pending(p) \o <<ch>>
            BY <3>2, <4>2, <4>5, PendingIs
          <6> QED
            BY <1>1, <5>1, <5>2, <6>1, AlienGrows
        <5> QED
          BY <4>2, <4>3, <5>3 DEF Lost
      <4> QED
        BY <4>4, <4>5
    <3> QED
      BY <3>2, <3>4, <3>5, <3>6
  <2>3. Len(s) \in S
    <3> HIDE DEF S
    <3>1. \A j \in 0 .. Len(s) : j \in S
      BY <1>1, <2>1, <2>2, Upward
    <3> QED
      BY <1>1, <3>1
  <2>4. q(Len(s)) = ArgvRead(Written(text, s))
    BY <1>1, <1>2, ReadUpto DEF Written
  <2> QED
    BY <2>3, <2>4 DEF Bad
<1>3. CASE HasWhiteSpace(s)
  <2> DEFINE t == text \o <<Quote>>
             p == ArgvRead(t)
             b == ArgvRead(t \o s)
             q == ArgvRead((t \o s) \o <<Quote>>)
  <2>1. t \in Seq(Letter) /\ t \o s \in Seq(Letter)
    BY <1>1, WrittenIs
  <2>2. /\ p \in Reader /\ p.argv = argv /\ p.quoted = TRUE
        /\ Pending(p) = <<>>
    BY <1>1, OpenQuote
  <2>3. \A i \in 1 .. Len(s) : Ordinary(p, s[i])
    BY <2>2 DEF Ordinary, Unquoted
  <2>4. PICK i \in 1 .. Len(s) : s[i] = Space
    BY <1>1, <1>3, AwkwardIs
  <2> HIDE DEF t
  <2>5. /\ b \in Reader /\ b.argv = argv /\ b.in = TRUE /\ Pending(b) = s
    <3>1. <<>> \o s = s
      BY <1>1, ConcatEmptySeq
    <3>2. Len(s) > 0
      BY <1>1, <2>4
    <3>3. /\ b \in Reader /\ b.argv = p.argv
          /\ Pending(b) = Pending(p) \o s /\ b.in = TRUE
      BY <1>1, <2>1, <2>2, <2>3, <3>2, OrdinaryRun
    <3> QED
      BY <2>2, <3>1, <3>3
  <2>6. q = ArgvChar(b, Quote)
    BY <2>1, Marks, ArgvReadOn
  <2> HIDE DEF p, b, q
  <2>7. Alien(b.arg, a)
    <3>1. /\ b.arg \in Seq(Letter) /\ b.slashes \in Nat
          /\ Slashes(b.slashes) \in Seq(Letter)
          /\ Len(Slashes(b.slashes)) = b.slashes
          /\ \A j \in 1 .. b.slashes : Slashes(b.slashes)[j] = Backslash
      BY <2>5, SlashesAre DEF Reader
    <3>2. i \in 1 .. Len(b.arg)
      <4>1. \A v \in Seq(Letter) :
              Len(b.arg \o v) = Len(b.arg) + Len(v)
                /\ \A j \in 1 .. Len(b.arg) + Len(v) :
                     (b.arg \o v)[j] = IF j <= Len(b.arg) THEN b.arg[j] ELSE v[j - Len(b.arg)]
        BY <3>1
      <4>2. /\ Len(s) = Len(b.arg) + b.slashes
            /\ s[i] = IF i <= Len(b.arg) THEN b.arg[i]
                      ELSE Slashes(b.slashes)[i - Len(b.arg)]
        BY <2>4, <2>5, <3>1, <4>1 DEF Pending
      <4>3. Len(b.arg) \in Nat
        BY <3>1
      <4>4. ~ (i > Len(b.arg))
        <5> SUFFICES ASSUME i > Len(b.arg) PROVE FALSE
          OBVIOUS
        <5>1. i - Len(b.arg) \in 1 .. b.slashes
          BY <2>4, <3>1, <4>2, <4>3
        <5> QED
          BY <2>4, <3>1, <4>2, <4>3, <5>1, Marks
      <4> QED
        BY <2>4, <4>3, <4>4
    <3>3. b.arg[i] = Space
      <4>1. (b.arg \o Slashes(b.slashes))[i] = b.arg[i]
        BY <3>1, <3>2, Joining
      <4> QED
        BY <2>4, <2>5, <4>1 DEF Pending
    <3>4. Space \notin Range(a)
      BY <1>1, Marks
    <3> QED
      BY <3>2, <3>3, <3>4 DEF Alien
  <2>8. Lost(b, k, a)
    BY <1>1, <2>5, <2>7 DEF Lost
  <2>9. q \in Reader /\ Lost(q, k, a)
    BY <2>5, <2>6, <2>8, LostStays, Marks
  <2> QED
    BY <1>3, <2>9 DEF Bad, q, t, Written
<1> QED
  BY <1>2, <1>3

-----------------------------------------------------------------------------
(* From one argument to the next                                            *)

LEMMA AwkwardWord ==
  ASSUME NEW text \in Seq(Letter), NEW k \in Nat, NEW argv, Len(argv) = k,
         Between(ArgvRead(text), argv),
         NEW a, Unquoted(a), Awkward(a)
  PROVE  Bad(ArgvRead(Written(text, a)), k, a)
BY TabWord, SlashWord

LEMMA BlankAfterReady ==
  ASSUME NEW text \in Seq(Letter), NEW argv, Ready(ArgvRead(text), argv)
  PROVE  Between(ArgvRead(text \o <<Space>>), argv)
BY Marks, ArgvReadOn DEF Ready

LEMMA BlankAfterBad ==
  ASSUME NEW text \in Seq(Letter), NEW k \in Nat, NEW a, Unquoted(a),
         Bad(ArgvRead(text), k, a)
  PROVE  LET q == ArgvRead(text \o <<Space>>)
         IN  q \in Reader /\ (Lost(q, k, a) \/ Skipped(q, k, a))
<1> DEFINE p == ArgvRead(text)
           q == ArgvRead(text \o <<Space>>)
<1>1. q = ArgvChar(p, Space)
  BY Marks, ArgvReadOn
<1>2. p \in Reader /\ p.in \in BOOLEAN
  BY DEF Bad, Reader
<1> HIDE DEF p, q
<1>3. CASE Lost(p, k, a)
  BY <1>1, <1>2, <1>3, Marks, LostStays DEF q
<1>4. CASE Skipped(p, k, a)
  <2>1. q = p
    BY <1>1, <1>2, <1>4, ReadBlank DEF Skipped, Between
  <2> QED
    BY <1>2, <1>4, <2>1 DEF q
<1>5. CASE p.quoted = FALSE /\ Lost(q, k, a)
  <2>1. p.in = TRUE => q \in Reader
    BY <1>1, <1>2, <1>5, ReadBlank DEF Between
  <2>2. p.in = FALSE => q \in Reader
    BY <1>1, <1>2, <1>5, ReadBlank
  <2> QED
    BY <1>2, <1>5, <2>1, <2>2 DEF q
<1> QED
  BY <1>1, <1>3, <1>4, <1>5 DEF Bad, p

LEMMA WordAfterBad ==
  ASSUME NEW text \in Seq(Letter), NEW k \in Nat, NEW a, Unquoted(a),
         ArgvRead(text) \in Reader,
         Lost(ArgvRead(text), k, a) \/ Skipped(ArgvRead(text), k, a),
         NEW s, Unquoted(s)
  PROVE  Bad(ArgvRead(Written(text, s)), k, a)
<1>1. s \in Seq(Letter)
  BY DEF Unquoted
<1>2. CASE Skipped(ArgvRead(text), k, a)
  BY <1>2, SkippedWord
<1>3. CASE Lost(ArgvRead(text), k, a)
  <2> DEFINE t == text \o <<Quote>>
  <2>1. t \in Seq(Letter) /\ t \o s \in Seq(Letter) /\ <<Quote>> \in Seq(Letter)
    BY <1>1, WrittenIs, Marks
  <2>2. ArgvRead(t) \in Reader /\ Lost(ArgvRead(t), k, a)
    BY <1>3, <2>1, LostRun
  <2> HIDE DEF t
  <2>3. ArgvRead(t \o s) \in Reader /\ Lost(ArgvRead(t \o s), k, a)
    BY <1>1, <2>1, <2>2, LostRun
  <2>4. /\ ArgvRead((t \o s) \o <<Quote>>) \in Reader
        /\ Lost(ArgvRead((t \o s) \o <<Quote>>), k, a)
    BY <2>1, <2>3, LostRun
  <2>5. ArgvRead(text \o s) \in Reader /\ Lost(ArgvRead(text \o s), k, a)
    BY <1>1, <1>3, LostRun
  <2> QED
    BY <2>4, <2>5 DEF Bad, Written, t
<1> QED
  BY <1>2, <1>3

(* The end of the text.                                                     *)
LEMMA EndAfterReady ==
  ASSUME NEW text, NEW argv, Ready(ArgvRead(text), argv)
  PROVE  Argv(text) = argv
<1> DEFINE p == ArgvRead(text)
<1>1. p \in Reader /\ p.quoted = FALSE /\ ArgvChar(p, Space).argv = argv
  BY DEF Ready, Between
<1> HIDE DEF p
<1>2. [p EXCEPT !.quoted = FALSE] = p
  BY <1>1 DEF Reader
<1> QED
  BY <1>1, <1>2 DEF Argv, p

LEMMA EndAfterBad ==
  ASSUME NEW text, NEW k \in Nat, NEW a, Unquoted(a), Bad(ArgvRead(text), k, a),
         NEW given, Len(given) > k, given[k + 1] = a
  PROVE  Argv(text) # given
<1> DEFINE p == ArgvRead(text)
           q == [p EXCEPT !.quoted = FALSE]
           r == ArgvChar(q, Space)
<1>1. p \in Reader /\ (Lost(p, k, a) \/ Skipped(p, k, a)
                        \/ (p.quoted = FALSE /\ Lost(ArgvChar(p, Space), k, a)))
  BY DEF Bad
<1>2. Argv(text) = r.argv
  BY DEF Argv
<1> HIDE DEF p
<1>3. /\ q \in Reader
      /\ q.argv = p.argv /\ q.arg = p.arg /\ q.in = p.in /\ q.quoted = FALSE
      /\ q.slashes = p.slashes
      /\ p.quoted = FALSE => q = p
  BY <1>1 DEF Reader
<1> HIDE DEF q
<1>4. Lost(r, k, a) => r.argv # given
  BY DEF Lost
<1>5. CASE Lost(p, k, a)
  <2>1. Lost(q, k, a)
    BY <1>3, <1>5 DEF Lost
  <2>2. Lost(r, k, a)
    BY <1>3, <2>1, Marks, LostStays
  <2> QED
    BY <1>2, <1>4, <2>2
<1>6. CASE Skipped(p, k, a)
  <2>1. q.in = FALSE /\ Len(q.argv) = k
    BY <1>3, <1>6 DEF Skipped, Between
  <2>2. r = q
    BY <1>3, <2>1, ReadBlank
  <2> QED
    BY <1>2, <2>1, <2>2
<1>7. CASE p.quoted = FALSE /\ Lost(ArgvChar(p, Space), k, a)
  BY <1>2, <1>3, <1>4, <1>7
<1> QED
  BY <1>1, <1>5, <1>6, <1>7

-----------------------------------------------------------------------------
(* What is on the command line so far                                       *)

Given(n) == <<exe>> \o SubSeq(bufArgs, 1, n)

ReadInv ==
  /\ data \in ArgumentData
  /\ pc \in {"arguments", "launched"} =>
       /\ m_bufCmdLine.text \in Seq(Letter)
       /\ \/ /\ \A j \in 1 .. written : ~ Awkward(bufArgs[j])
             /\ Ready(ArgvRead(m_bufCmdLine.text), Given(written))
          \/ \E k \in 1 .. written :
               /\ Awkward(bufArgs[k])
               /\ Bad(ArgvRead(m_bufCmdLine.text), k, bufArgs[k])

LEMMA LetterOfChar ==
  ASSUME NEW s \in Seq(Char)
  PROVE  s \in Seq(Letter)
BY DEF Letter

LEMMA CopyText ==
  ASSUME NEW buf, NEW s \in Seq(Letter), StringCchCopy(buf, s).ok,
         buf.text \in Seq(Letter)
  PROVE  buf.ok /\ StringCchCopy(buf, s).text = buf.text \o s
<1>1. SubSeq(s, 1, Len(s)) = s
  BY SubSeqFull
<1>2. buf.ok
  BY DEF StringCchCopy
<1>3. PICK n : n = IF Len(s) < buf.room THEN Len(s) ELSE buf.room - 1
  OBVIOUS
<1>4. PICK fits \in BOOLEAN : fits = (n = Len(s))
  OBVIOUS
<1>5. PICK t, r : t = buf.text \o SubSeq(s, 1, n) /\ r = buf.room - n
  BY Zenon
<1>6. StringCchCopy(buf, s) = [text |-> t, room |-> r, ok |-> fits]
  BY <1>2, <1>3, <1>4, <1>5 DEF StringCchCopy
<1>7. StringCchCopy(buf, s).text = t /\ StringCchCopy(buf, s).ok = fits
  BY <1>6
<1>8. n = Len(s)
  BY <1>4, <1>7
<1> QED
  BY <1>1, <1>2, <1>5, <1>7, <1>8

LEMMA WriteText ==
  ASSUME NEW buf, NEW s \in Seq(Letter), WriteArgument(buf, s).ok,
         buf.text \in Seq(Letter)
  PROVE  buf.ok /\ WriteArgument(buf, s).text = Written(buf.text, s)
<1>1. CASE ~ HasWhiteSpace(s)
  BY <1>1, CopyText DEF WriteArgument, Written
<1>2. CASE HasWhiteSpace(s)
  <2> DEFINE a == StringCchCopy(buf, <<Quote>>)
             b == StringCchCopy(a, s)
             d == StringCchCopy(b, <<Quote>>)
  <2>1. WriteArgument(buf, s) = d /\ d.ok
    BY <1>2 DEF WriteArgument
  <2>2. <<Quote>> \in Seq(Letter)
    BY Marks
  <2>3. b.ok
    BY <2>1 DEF StringCchCopy
  <2>4. a.ok
    BY <2>3 DEF StringCchCopy
  <2>5. buf.ok /\ a.text = buf.text \o <<Quote>>
    BY <2>2, <2>4, CopyText
  <2>6. a.text \in Seq(Letter)
    BY <2>5, WrittenIs
  <2> HIDE DEF a
  <2>7. b.text = a.text \o s
    BY <2>3, <2>6, CopyText
  <2>8. b.text \in Seq(Letter)
    BY <2>6, <2>7, ConcatProperties
  <2> HIDE DEF b
  <2>9. d.text = b.text \o <<Quote>>
    BY <2>1, <2>2, <2>8, CopyText
  <2> HIDE DEF d
  <2> QED
    BY <1>2, <2>1, <2>5, <2>7, <2>9 DEF Written
<1> QED
  BY <1>1, <1>2

-----------------------------------------------------------------------------
(* No argument has a quote in it                                            *)

LEMMA UnquotedIs ==
  ASSUME NEW s \in Seq(Char), Quote \notin Range(s)
  PROVE  Unquoted(s)
<1>1. s \in Seq(Letter)
  BY LetterOfChar
<1> QED
  BY <1>1, RangeOf DEF Unquoted

LEMMA UnquotedWord ==
  ASSUME NEW w \in Word
  PROVE  Unquoted(<<w>>)
<1>1. w # Quote
  BY DEF Word, Quote
<1>2. <<w>> \in Seq(Char)
  BY OneWord
<1>3. <<w>> \in Seq(Letter)
  BY <1>2, LetterOfChar
<1>4. \A i \in 1 .. Len(<<w>>) : <<w>>[i] = w
  OBVIOUS
<1> QED
  BY <1>1, <1>3, <1>4 DEF Unquoted

LEMMA UnquotedJoined ==
  ASSUME NEW s, Unquoted(s), NEW t, Unquoted(t)
  PROVE  Unquoted(s \o t)
<1>1. /\ s \in Seq(Letter) /\ \A i \in 1 .. Len(s) : s[i] # Quote
      /\ t \in Seq(Letter) /\ \A i \in 1 .. Len(t) : t[i] # Quote
  BY DEF Unquoted
<1>2. s \o t \in Seq(Letter)
  BY <1>1, ConcatProperties
<1>3. ASSUME NEW i \in 1 .. Len(s \o t)
      PROVE  (s \o t)[i] # Quote
  <2>1. /\ Len(s) \in Nat /\ Len(t) \in Nat /\ Len(s \o t) = Len(s) + Len(t)
        /\ (s \o t)[i] = IF i <= Len(s) THEN s[i] ELSE t[i - Len(s)]
    BY <1>1, ConcatProperties
  <2>2. CASE i <= Len(s)
    BY <1>1, <2>1, <2>2
  <2>3. CASE ~ (i <= Len(s))
    <3>1. i - Len(s) \in 1 .. Len(t)
      BY <2>1, <2>3
    <3> QED
      BY <1>1, <2>1, <2>3, <3>1
  <2> QED
    BY <2>2, <2>3
<1> QED
  BY <1>2, <1>3 DEF Unquoted

LEMMA UnquotedEscaped ==
  ASSUME NEW s, Unquoted(s)
  PROVE  Unquoted(EscapeArgumentForPS(s))
<1>1. Unquoted(<<Apostrophe>>)
  BY Marks DEF Unquoted
<1>2. Unquoted(<<Apostrophe>> \o s)
  BY <1>1, UnquotedJoined
<1>3. EscapeArgumentForPS(s) = (<<Apostrophe>> \o s) \o <<Apostrophe>>
  BY DEF EscapeArgumentForPS
<1> QED
  BY <1>1, <1>2, <1>3, UnquotedJoined

LEMMA UnquotedPart ==
  ASSUME NEW s \in Seq(Char), Unquoted(s), NEW a \in Int, NEW b \in Int,
         1 <= a, b <= Len(s), a <= b + 1
  PROVE  Unquoted(SubSeq(s, a, b))
<1>1. SubSeq(s, a, b) \in Seq(Letter)
  BY PartOf, LetterOfChar
<1>2. Len(SubSeq(s, a, b)) = b - a + 1
  BY PartOf
<1>3. ASSUME NEW i \in 1 .. b - a + 1
      PROVE  SubSeq(s, a, b)[i] = s[a + i - 1] /\ a + i - 1 \in 1 .. Len(s)
  OBVIOUS
<1> QED
  BY <1>1, <1>2, <1>3 DEF Unquoted

LEMMA PlainBase ==
  ASSUME ListInv, ChainInv, Walked, Quote \notin Range(data),
         NEW k \in 1 .. Len(BaseArguments)
  PROVE  Unquoted(BaseArguments[k])
<1>1. k \in 1 .. nIndex - 1 /\ data \in Seq(Char)
  BY BaseFacts, StringIsChars DEF ListInv
<1>2. /\ BaseArguments[k] = SubSeq(data, Place(k), Place(k + 1) - 2)
      /\ Place(k) \in 1 .. cch /\ Place(k + 1) \in 1 .. cch
      /\ Place(k + 1) >= Place(k) + 2
      /\ cch \in 0 .. Len(data)
  BY <1>1, BaseFacts, Places DEF StringBetween, ListInv
<1>3. PICK a \in Int, b \in Int :
        /\ a = Place(k) /\ b = Place(k + 1) - 2
        /\ 1 <= a /\ b <= Len(data) /\ a <= b + 1
  BY <1>1, <1>2
<1>4. Unquoted(data)
  BY <1>1, UnquotedIs
<1>5. Unquoted(SubSeq(data, a, b))
  BY <1>1, <1>3, <1>4, UnquotedPart
<1> QED
  BY <1>2, <1>3, <1>5

LEMMA PlainEvent ==
  ASSUME Unquoted(ski), Unquoted(path), NEW j \in 1 .. 7
  PROVE  Unquoted(EventArguments[j])
<1>1. PICK x, y : EventArguments = Dynamic(x, y) /\ Unquoted(x) /\ Unquoted(y)
  <2>1. Unquoted(EscapeArgumentForPS(ski)) /\ Unquoted(EscapeArgumentForPS(path))
    BY UnquotedEscaped
  <2> QED
    BY <2>1 DEF EventArguments
<1>2. PICK a, b, c, d, e :
        /\ a = <<"certissued">> /\ b = <<"-subjectkeyidentifier">>
        /\ c = <<"-serialnumber">> /\ d = <<"5e">> /\ e = <<"-rawcertpath">>
  BY Zenon
<1>3. /\ Unquoted(a) /\ Unquoted(b) /\ Unquoted(c) /\ Unquoted(d) /\ Unquoted(e)
  <2>1. \A w \in Word : Unquoted(<<w>>)
    BY UnquotedWord
  <2> QED
    BY <1>2, <2>1 DEF Word
<1>4. EventArguments = <<a, b, x, c, d, e, y>>
  BY <1>1, <1>2 DEF Dynamic
<1>5. j = 1 \/ j = 2 \/ j = 3 \/ j = 4 \/ j = 5 \/ j = 6 \/ j = 7
  OBVIOUS
<1> QED
  BY <1>1, <1>3, <1>4, <1>5

LEMMA Retyped ==
  ASSUME NEW S, NEW T, NEW s \in Seq(S), \A i \in 1 .. Len(s) : s[i] \in T
  PROVE  s \in Seq(T)
OBVIOUS

LEMMA PlainArguments ==
  ASSUME PlainStrings, ListInv, ChainInv, Walked, data \in ArgumentData,
         exe \in ExePath, ski \in Identifier, path \in TempPath,
         bufArgs = BaseArguments \o EventArguments
  PROVE  /\ Unquoted(exe) /\ ~ Awkward(exe)
         /\ bufArgs \in Seq(Seq(Letter)) /\ Len(bufArgs) \in Nat
         /\ \A i \in 1 .. Len(bufArgs) : Unquoted(bufArgs[i])
<1>1. /\ Quote \notin Range(data) /\ Quote \notin Range(exe)
      /\ Quote \notin Range(ski) /\ Quote \notin Range(path)
      /\ ~ Awkward(exe)
  BY DEF PlainStrings
<1>2. Unquoted(exe) /\ Unquoted(ski) /\ Unquoted(path)
  BY <1>1, StringFacts, StringIsChars, UnquotedIs
<1>3. /\ BaseArguments \in Seq(Seq(Char)) /\ EventArguments \in Seq(Seq(Char))
      /\ Len(EventArguments) = 7
  BY BaseFacts, StringFacts, EventFacts
<1>4. PICK m \in Nat : m = Len(BaseArguments)
  BY <1>3
<1>5. /\ bufArgs \in Seq(Seq(Char)) /\ Len(bufArgs) = m + 7
      /\ \A i \in 1 .. m + 7 :
           bufArgs[i] = IF i <= m THEN BaseArguments[i] ELSE EventArguments[i - m]
  <2>1. /\ bufArgs \in Seq(Seq(Char))
        /\ Len(bufArgs) = Len(BaseArguments) + Len(EventArguments)
        /\ \A i \in 1 .. Len(BaseArguments) + Len(EventArguments) :
             bufArgs[i] = IF i <= Len(BaseArguments) THEN BaseArguments[i]
                          ELSE EventArguments[i - Len(BaseArguments)]
    BY <1>3, JoinedLists
  <2> QED
    BY <1>3, <1>4, <2>1
<1>6. ASSUME NEW i \in 1 .. m + 7
      PROVE  Unquoted(bufArgs[i])
  <2>1. CASE i <= m
    <3>1. i \in 1 .. Len(BaseArguments)
      BY <1>4, <2>1
    <3> QED
      BY <1>1, <1>5, <2>1, <3>1, PlainBase
  <2>2. CASE ~ (i <= m)
    <3>1. i - m \in 1 .. 7
      BY <2>2
    <3>2. Unquoted(EventArguments[i - m])
      BY <1>2, <3>1, PlainEvent
    <3> QED
      BY <1>5, <2>2, <3>2
  <2> QED
    BY <2>1, <2>2
<1>7. bufArgs \in Seq(Seq(Letter))
  <2>1. \A i \in 1 .. Len(bufArgs) : bufArgs[i] \in Seq(Letter)
    BY <1>5, <1>6 DEF Unquoted
  <2> QED
    BY <1>5, <2>1, Retyped
<1> QED
  BY <1>1, <1>2, <1>5, <1>6, <1>7

(* What the program is to get of its name and n arguments.                  *)
LEMMA GivenIs ==
  ASSUME bufArgs \in Seq(Seq(Letter)), exe \in Seq(Letter),
         NEW n \in 0 .. Len(bufArgs)
  PROVE  /\ Given(n) \in Seq(Seq(Letter)) /\ Len(Given(n)) = n + 1
         /\ n < Len(bufArgs) => Given(n + 1) = Append(Given(n), bufArgs[n + 1])
<1>1. /\ SubSeq(bufArgs, 1, n) \in Seq(Seq(Letter))
      /\ Len(SubSeq(bufArgs, 1, n)) = n
  BY SubSeqProperties
<1>2. <<exe>> \in Seq(Seq(Letter)) /\ Len(<<exe>>) = 1
  BY One
<1>3. Given(n) \in Seq(Seq(Letter)) /\ Len(Given(n)) = 1 + n
  BY <1>1, <1>2, ConcatProperties DEF Given
<1>4. ASSUME n < Len(bufArgs)
      PROVE  Given(n + 1) = Append(Given(n), bufArgs[n + 1])
  <2>1. SubSeq(bufArgs, 1, n + 1) = Append(SubSeq(bufArgs, 1, n), bufArgs[n + 1])
    BY <1>4
  <2>2. bufArgs[n + 1] \in Seq(Letter)
    BY <1>4
  <2> DEFINE u == SubSeq(bufArgs, 1, n)
             e == <<exe>>
  <2>3. u \in Seq(Seq(Letter)) /\ e \in Seq(Seq(Letter))
    BY <1>1, <1>2
  <2> HIDE DEF u, e
  <2>4. e \o Append(u, bufArgs[n + 1]) = Append(e \o u, bufArgs[n + 1])
    <3>1. PICK x \in Seq(Letter) : x = bufArgs[n + 1]
      BY <2>2
    <3>2. <<x>> \in Seq(Seq(Letter)) /\ e \o u \in Seq(Seq(Letter))
      BY <2>3, One, ConcatProperties
    <3>3. /\ Append(u, x) = u \o <<x>>
          /\ Append(e \o u, x) = (e \o u) \o <<x>>
      BY <2>3, <3>2, AppendIsConcat
    <3>4. (e \o u) \o <<x>> = e \o (u \o <<x>>)
      <4>1. PICK v \in Seq(Seq(Letter)) : v = <<x>>
        BY <3>2
      <4>2. (e \o u) \o v = e \o (u \o v)
        BY <2>3, <4>1, AssociativeLists, Zenon
      <4> QED
        BY <4>1, <4>2
    <3> QED
      BY <3>1, <3>3, <3>4
  <2> QED
    BY <2>1, <2>4 DEF Given, u, e
<1> QED
  BY <1>3, <1>4

LEMMA AllGiven ==
  ASSUME bufArgs \in Seq(Seq(Letter)), exe \in Seq(Letter)
  PROVE  /\ Given(0) = <<exe>>
         /\ Given(Len(bufArgs)) = <<exe>> \o bufArgs
         /\ Len(<<exe>> \o bufArgs) = Len(bufArgs) + 1
         /\ \A k \in 1 .. Len(bufArgs) : (<<exe>> \o bufArgs)[k + 1] = bufArgs[k]
<1>1. SubSeq(bufArgs, 1, 0) = <<>> /\ SubSeq(bufArgs, 1, Len(bufArgs)) = bufArgs
  BY SubSeqFull, SubSeqEmpty
<1>2. PICK e \in Seq(Seq(Letter)) : e = <<exe>> /\ Len(e) = 1
  BY One
<1>3. e \o <<>> = e
  BY <1>2, ConcatEmptySeq
<1>4. PICK n \in Nat : n = Len(bufArgs)
  OBVIOUS
<1>5. /\ Len(e \o bufArgs) = 1 + n
      /\ \A k \in 1 .. n : (e \o bufArgs)[k + 1] = bufArgs[k]
  <2>1. /\ Len(e \o bufArgs) = 1 + n
        /\ \A i \in 1 .. 1 + n :
             (e \o bufArgs)[i] = IF i <= 1 THEN e[i] ELSE bufArgs[i - 1]
    BY <1>2, <1>4, ConcatProperties
  <2>2. \A k \in 1 .. n : k + 1 \in 1 .. 1 + n /\ ~ (k + 1 <= 1) /\ (k + 1) - 1 = k
    OBVIOUS
  <2> QED
    BY <2>1, <2>2
<1>6. Given(0) = e /\ Given(n) = e \o bufArgs
  <2>1. Given(0) = e \o SubSeq(bufArgs, 1, 0) /\ Given(n) = e \o SubSeq(bufArgs, 1, n)
    BY <1>2, Zenon DEF Given
  <2> QED
    BY <1>1, <1>3, <1>4, <2>1
<1>7. n + 1 = 1 + n
  OBVIOUS
<1> QED
  BY <1>2, <1>4, <1>5, <1>6, <1>7, Zenon

-----------------------------------------------------------------------------
(* ReadInv is inductive                                                     *)

(* While the arguments are written, and of what LineInv says then.          *)
LEMMA Writing ==
  ASSUME PlainStrings, WalkInv, LineInv, ReadInv, pc \in {"application", "arguments"}
  PROVE  /\ Unquoted(exe) /\ ~ Awkward(exe) /\ exe \in Seq(Letter)
         /\ bufArgs \in Seq(Seq(Letter)) /\ Len(bufArgs) \in Nat
         /\ \A i \in 1 .. Len(bufArgs) : Unquoted(bufArgs[i])
<1>1. /\ ListInv /\ ChainInv /\ Walked /\ data \in ArgumentData
      /\ exe \in ExePath /\ ski \in Identifier /\ path \in TempPath
      /\ bufArgs = BaseArguments \o EventArguments
  BY DEF WalkInv, LineInv, ReadInv, Walked
<1> QED
  BY <1>1, PlainArguments DEF Unquoted

LEMMA GivenFrame ==
  ASSUME exe' = exe, bufArgs' = bufArgs
  PROVE  \A n : Given(n)' = Given(n)
BY DEF Given

LEMMA ApplicationRead ==
  PlainStrings /\ WalkInv /\ LineInv /\ LineInv' /\ ReadInv /\ FormatApplication
    => ReadInv'
<1> SUFFICES ASSUME PlainStrings, WalkInv, LineInv, LineInv', ReadInv,
                    FormatApplication
             PROVE  ReadInv'
  OBVIOUS
<1>1. /\ pc = "application" /\ pc' = IF m_bufCmdLine'.ok THEN "arguments" ELSE "failed"
      /\ m_bufCmdLine' = WriteArgument(m_bufCmdLine, exe)
      /\ data' = data /\ bufArgs' = bufArgs /\ exe' = exe /\ written' = written
  BY DEF FormatApplication, stringVars
<1>2. m_bufCmdLine.text = <<>> /\ written = 0
  BY <1>1 DEF LineInv
<1>3. /\ Unquoted(exe) /\ ~ Awkward(exe) /\ exe \in Seq(Letter)
      /\ bufArgs \in Seq(Seq(Letter)) /\ Len(bufArgs) \in Nat
  BY <1>1, Writing
<1>4. data' \in ArgumentData
  BY <1>1 DEF ReadInv
<1>5. CASE m_bufCmdLine'.ok
  <2>1. <<>> \in Seq(Letter) /\ <<>> \in Seq(Seq(Letter))
    OBVIOUS
  <2>2. m_bufCmdLine'.text = Written(<<>>, exe)
    BY <1>1, <1>2, <1>3, <1>5, <2>1, WriteText
  <2>3. Between(ArgvRead(<<>>), <<>>)
    <3>1. ArgvStart \in Reader
      BY <2>1 DEF ArgvStart, Reader
    <3>2. /\ ArgvStart.argv = <<>> /\ ArgvStart.arg = <<>> /\ ArgvStart.slashes = 0
          /\ ArgvStart.in = FALSE /\ ArgvStart.quoted = FALSE
      BY DEF ArgvStart
    <3> QED
      BY <3>1, <3>2, ArgvReadNothing DEF Between
  <2>4. Ready(ArgvRead(m_bufCmdLine'.text), Append(<<>>, exe))
    BY <1>3, <2>1, <2>2, <2>3, GoodWord
  <2>5. Given(0) = <<exe>> /\ Append(<<>>, exe) = <<exe>>
    BY <1>3, AllGiven
  <2>6. m_bufCmdLine'.text \in Seq(Letter)
    BY <1>3, <2>1, <2>2, WrittenIs
  <2>7. Ready(ArgvRead(m_bufCmdLine.text), Given(written))'
    BY <1>1, <1>2, <2>4, <2>5, GivenFrame
  <2>8. \A j \in 1 .. written' : ~ Awkward(bufArgs[j])'
    BY <1>1, <1>2
  <2> QED
    BY <1>4, <2>6, <2>7, <2>8 DEF ReadInv
<1>6. CASE ~ m_bufCmdLine'.ok
  BY <1>1, <1>4, <1>6 DEF ReadInv
<1> QED
  BY <1>5, <1>6

LEMMA ArgumentRead ==
  PlainStrings /\ WalkInv /\ LineInv /\ LineInv' /\ ReadInv /\ FormatArgument
    => ReadInv'
<1> SUFFICES ASSUME PlainStrings, WalkInv, LineInv, LineInv', ReadInv,
                    FormatArgument
             PROVE  ReadInv'
  OBVIOUS
<1>1. /\ pc = "arguments" /\ pc' \in {"arguments", "launched"}
      /\ data' = data /\ bufArgs' = bufArgs /\ exe' = exe
  BY DEF FormatArgument, stringVars
<1>2. /\ exe \in Seq(Letter) /\ bufArgs \in Seq(Seq(Letter)) /\ Len(bufArgs) \in Nat
      /\ \A i \in 1 .. Len(bufArgs) : Unquoted(bufArgs[i])
  BY <1>1, Writing
<1>3. data' \in ArgumentData /\ written \in 0 .. Len(bufArgs)
  BY <1>1 DEF ReadInv, LineInv
<1>4. PICK text \in Seq(Letter) : text = m_bufCmdLine.text
  BY <1>1 DEF ReadInv
<1>5. \/ /\ \A j \in 1 .. written : ~ Awkward(bufArgs[j])
         /\ Ready(ArgvRead(text), Given(written))
      \/ \E k \in 1 .. written :
           Awkward(bufArgs[k]) /\ Bad(ArgvRead(text), k, bufArgs[k])
  BY <1>1, <1>4 DEF ReadInv
<1>6. \A n : Given(n)' = Given(n)
  BY <1>1, GivenFrame
<1>7. CASE written = Len(bufArgs)
  <2>1. m_bufCmdLine' = m_bufCmdLine /\ written' = written
    BY <1>2, <1>7 DEF FormatArgument
  <2> QED
    BY <1>1, <1>3, <1>4, <1>5, <1>6, <2>1 DEF ReadInv
<1>8. CASE written # Len(bufArgs)
  <2>1. PICK s : s = bufArgs[written + 1]
    OBVIOUS
  <2>2. /\ m_bufCmdLine'
             = WriteArgument(StringCchCopy(m_bufCmdLine, <<Space>>), s)
        /\ written' = written + 1
        /\ pc' = IF m_bufCmdLine'.ok THEN "arguments" ELSE "launched"
    BY <1>8, <2>1 DEF FormatArgument
  <2>3. /\ written + 1 \in 1 .. Len(bufArgs) /\ written < Len(bufArgs)
        /\ Unquoted(s) /\ s \in Seq(Letter)
    BY <1>2, <1>3, <1>8, <2>1 DEF Unquoted
  <2>4. m_bufCmdLine'.ok
    BY <1>1, <2>2 DEF LineInv, NothingTruncated
  <2>5. PICK next \in Seq(Letter) : next = text \o <<Space>>
    BY Marks, Extended
  <2>6. m_bufCmdLine'.text = Written(next, s)
    <3> DEFINE a == StringCchCopy(m_bufCmdLine, <<Space>>)
    <3>1. WriteArgument(a, s).ok
      BY <2>2, <2>4
    <3>2. <<Space>> \in Seq(Letter)
      BY Marks
    <3>3. a.ok
      BY <3>1 DEF WriteArgument, StringCchCopy
    <3>4. a.text = next
      BY <1>4, <2>5, <3>2, <3>3, CopyText
    <3> HIDE DEF a
    <3> QED
      BY <2>2, <2>3, <3>1, <3>4, WriteText DEF a
  <2>7. Written(next, s) \in Seq(Letter)
    BY <2>3, WrittenIs
  <2>8. CASE \E k \in 1 .. written :
               Awkward(bufArgs[k]) /\ Bad(ArgvRead(text), k, bufArgs[k])
    <3>1. PICK k \in 1 .. written :
            Awkward(bufArgs[k]) /\ Bad(ArgvRead(text), k, bufArgs[k])
      BY <2>8
    <3>2. k \in Nat /\ k \in 1 .. written + 1 /\ Unquoted(bufArgs[k])
      BY <1>2, <1>3
    <3>3. /\ ArgvRead(next) \in Reader
          /\ Lost(ArgvRead(next), k, bufArgs[k]) \/ Skipped(ArgvRead(next), k, bufArgs[k])
      BY <2>5, <3>1, <3>2, BlankAfterBad
    <3>4. Bad(ArgvRead(Written(next, s)), k, bufArgs[k])
      BY <2>3, <3>2, <3>3, WordAfterBad
    <3> QED
      BY <1>1, <1>3, <2>2, <2>6, <2>7, <3>1, <3>2, <3>4 DEF ReadInv
  <2>9. CASE /\ \A j \in 1 .. written : ~ Awkward(bufArgs[j])
             /\ Ready(ArgvRead(text), Given(written))
    <3>1. Between(ArgvRead(next), Given(written))
      BY <2>5, <2>9, BlankAfterReady
    <3>2. /\ Len(Given(written)) = written + 1
          /\ Given(written + 1) = Append(Given(written), s)
      BY <1>2, <1>3, <2>1, <2>3, GivenIs
    <3>3. CASE Awkward(s)
      <4>1. Bad(ArgvRead(Written(next, s)), written + 1, s)
        BY <1>3, <2>3, <3>1, <3>2, <3>3, AwkwardWord
      <4>2. written + 1 \in 1 .. written + 1
        BY <1>3
      <4> QED
        BY <1>1, <1>3, <2>1, <2>2, <2>6, <2>7, <3>3, <4>1, <4>2 DEF ReadInv
    <3>4. CASE ~ Awkward(s)
      <4>1. Ready(ArgvRead(Written(next, s)), Given(written + 1))
        BY <2>3, <3>1, <3>2, <3>4, GoodWord
      <4>2. \A j \in 1 .. written + 1 : ~ Awkward(bufArgs[j])
        BY <1>3, <2>1, <2>9, <3>4
      <4> QED
        BY <1>1, <1>3, <1>6, <2>2, <2>6, <2>7, <4>1, <4>2 DEF ReadInv
    <3> QED
      BY <3>3, <3>4
  <2> QED
    BY <1>5, <2>8, <2>9
<1> QED
  BY <1>7, <1>8

LEMMA ReadKept ==
  PlainStrings /\ WalkInv /\ LineInv /\ LineInv' /\ ReadInv /\ [Next]_vars
    => ReadInv'
<1> SUFFICES ASSUME PlainStrings, WalkInv, LineInv, LineInv', ReadInv, [Next]_vars
             PROVE  ReadInv'
  OBVIOUS
<1>1. CASE ListNext \/ BuildArguments
  <2>1. data' = data /\ pc' \notin {"arguments", "launched"}
    BY <1>1 DEF ListNext, QueryArguments, CountArgument, AllocArguments,
                StoreArgument, BuildArguments
  <2> QED
    BY <2>1 DEF ReadInv
<1>2. CASE FormatApplication
  BY <1>2, ApplicationRead
<1>3. CASE FormatArgument
  BY <1>3, ArgumentRead
<1>4. CASE UNCHANGED vars
  <2>1. UNCHANGED <<data, pc, exe, bufArgs, written, m_bufCmdLine>>
    BY <1>4 DEF vars, listVars, stringVars
  <2>2. \A n : Given(n)' = Given(n)
    BY <2>1, GivenFrame
  <2> QED
    BY <2>1, <2>2 DEF ReadInv
<1> QED
  BY <1>1, <1>2, <1>3, <1>4 DEF Next

(* The command line, read up to any argument, is the arguments before it,   *)
(* or an awkward one among them is lost for good.                           *)
THEOREM ReadInvariance ==
  ASSUME PlainStrings
  PROVE  Spec => []ReadInv
<1>1. Init => ReadInv
  BY DEF Init, ListStart, ReadInv
<1>2. WalkInv /\ LineInv /\ LineInv' /\ ReadInv /\ [Next]_vars => ReadInv'
  BY ReadKept
<1> QED
  BY <1>1, <1>2, Invariance, LineInvariance, PTL DEF Spec

(* The program gets exactly the arguments it is registered with and those   *)
(* of the event, whatever they are, unless WriteArgument leaves one of them *)
(* open to be read otherwise, and in that case it never does.               *)
THEOREM ArgumentsAreReceived ==
  ASSUME PlainStrings
  PROVE  Spec => []ReceivedAsGiven
<1>1. WalkInv /\ LineInv /\ ReadInv => ReceivedAsGiven
  <2> SUFFICES ASSUME WalkInv, LineInv, ReadInv, pc = "launched"
               PROVE  Argv(m_bufCmdLine.text) = <<exe>> \o bufArgs
                        <=> \A i \in DOMAIN bufArgs : ~ Awkward(bufArgs[i])
    BY DEF ReceivedAsGiven
  <2>1. /\ Unquoted(exe) /\ bufArgs \in Seq(Seq(Letter))
        /\ \A i \in 1 .. Len(bufArgs) : Unquoted(bufArgs[i])
    BY PlainArguments DEF WalkInv, LineInv, ReadInv, Walked
  <2>2. exe \in Seq(Letter) /\ DOMAIN bufArgs = 1 .. Len(bufArgs) /\ Len(bufArgs) \in Nat
    BY <2>1 DEF Unquoted
  <2>3. written = Len(bufArgs)
    BY DEF LineInv, NothingTruncated
  <2>4. PICK text : text = m_bufCmdLine.text
    OBVIOUS
  <2>5. PICK given : given = <<exe>> \o bufArgs
    OBVIOUS
  <2>6. /\ Given(written) = given /\ Len(given) = Len(bufArgs) + 1
        /\ \A k \in 1 .. Len(bufArgs) : given[k + 1] = bufArgs[k]
    BY <2>1, <2>2, <2>3, <2>5, AllGiven
  <2>7. CASE /\ \A j \in 1 .. written : ~ Awkward(bufArgs[j])
             /\ Ready(ArgvRead(text), Given(written))
    BY <2>2, <2>3, <2>4, <2>5, <2>6, <2>7, EndAfterReady
  <2>8. CASE \E k \in 1 .. written :
               Awkward(bufArgs[k]) /\ Bad(ArgvRead(text), k, bufArgs[k])
    <3>1. PICK k \in 1 .. Len(bufArgs) :
            Awkward(bufArgs[k]) /\ Bad(ArgvRead(text), k, bufArgs[k])
      BY <2>3, <2>8
    <3>2. k \in Nat /\ Len(given) > k /\ given[k + 1] = bufArgs[k]
      BY <2>2, <2>6
    <3>3. Argv(text) # given
      BY <2>1, <3>1, <3>2, EndAfterBad
    <3> QED
      BY <2>2, <2>4, <2>5, <3>1, <3>3
  <2> QED
    BY <2>4, <2>7, <2>8 DEF ReadInv
<1> QED
  BY <1>1, ReadInvariance, Invariance, LineInvariance, PTL
=============================================================================
