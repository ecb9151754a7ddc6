--------------------------- MODULE PowerShellProofs ---------------------------
(***************************************************************************)
(* What PowerShell makes of the arguments that NotifyCertIssued escapes,   *)
(* for identifiers and paths of any length: the apostrophes around them    *)
(* keep their spaces, and with an apostrophe of their own in one of them   *)
(* the command is always read as another.                                  *)
(***************************************************************************)
EXTENDS ReceivedProofs

-----------------------------------------------------------------------------
(* The reader of the command is defined at every place.                     *)

TokenPlaces(f, text, n) ==
  f = [i \in 0 .. n |->
         IF i = 0 THEN TokenStart ELSE TokenChar(f[i - 1], text[i])]

LEMMA TokenPlacesExist ==
  ASSUME NEW text, NEW n \in Nat
  PROVE  \E f : TokenPlaces(f, text, n)
<1> DEFINE S == {k \in 0 .. n : \E f : TokenPlaces(f, text, k)}
<1>1. 0 \in S
  <2> DEFINE f == [i \in 0 .. 0 |-> TokenStart]
  <2>1. TokenPlaces(f, text, 0)
    BY DEF TokenPlaces
  <2> QED
    BY <2>1
<1>2. ASSUME NEW k \in 0 .. n - 1, k \in S
      PROVE  k + 1 \in S
  <2>1. PICK f : TokenPlaces(f, text, k)
    BY <1>2
  <2> DEFINE g == [i \in 0 .. k + 1 |->
                     IF i = k + 1 THEN TokenChar(f[k], text[k + 1]) ELSE f[i]]
  <2>2. ASSUME NEW i \in 0 .. k + 1
        PROVE  g[i] = IF i = 0 THEN TokenStart ELSE TokenChar(g[i - 1], text[i])
    <3>1. CASE i = k + 1
      <4>1. i # 0 /\ i - 1 = k /\ k \in 0 .. k + 1 /\ k # k + 1
        BY <3>1
      <4> QED
        BY <3>1, <4>1
    <3>2. CASE i # k + 1
      <4>1. i \in 0 .. k
        BY <3>2
      <4>2. f[i] = IF i = 0 THEN TokenStart ELSE TokenChar(f[i - 1], text[i])
        BY <2>1, <4>1 DEF TokenPlaces
      <4>3. i # 0 => i - 1 \in 0 .. k + 1 /\ i - 1 # k + 1
        BY <4>1
      <4> QED
        BY <3>2, <4>2, <4>3
    <3> QED
      BY <3>1, <3>2
  <2>3. TokenPlaces(g, text, k + 1)
    BY <2>2 DEF TokenPlaces
  <2> QED
    BY <2>3
<1>3. n \in S
  <2>1. \A i \in 0 .. n : i \in S
    <3> HIDE DEF S
    <3> QED
      BY <1>1, <1>2, Upward
  <2> QED
    BY <2>1
<1> QED
  BY <1>3

LEMMA TokenReadPlaces ==
  ASSUME NEW text, Len(text) \in Nat
  PROVE  \E f : TokenPlaces(f, text, Len(text)) /\ TokenRead(text) = f[Len(text)]
<1> DEFINE F == CHOOSE f : TokenPlaces(f, text, Len(text))
<1>1. TokenPlaces(F, text, Len(text))
  BY TokenPlacesExist, Zenon
<1>2. TokenRead(text) = F[Len(text)]
  BY DEF TokenRead, TokenPlaces
<1> QED
  BY <1>1, <1>2

(* The reader has no memory but its state.                                  *)
LEMMA TokenReadOn ==
  ASSUME NEW T, NEW text \in Seq(T), NEW ch \in T
  PROVE  TokenRead(text \o <<ch>>) = TokenChar(TokenRead(text), ch)
<1> DEFINE more == text \o <<ch>>
           n == Len(text)
<1>1. /\ n \in Nat /\ Len(more) = n + 1 /\ more[n + 1] = ch
      /\ \A i \in 1 .. n : more[i] = text[i]
  OBVIOUS
<1>2. PICK f : TokenPlaces(f, text, n) /\ TokenRead(text) = f[n]
  BY <1>1, TokenReadPlaces
<1> HIDE DEF more, n
<1>3. PICK g : TokenPlaces(g, more, n + 1) /\ TokenRead(more) = g[n + 1]
  <2>1. Len(more) \in Nat
    BY <1>1
  <2> QED
    BY <1>1, <2>1, TokenReadPlaces
<1> DEFINE S == {i \in 0 .. n : g[i] = f[i]}
<1>4. 0 \in S
  BY <1>1, <1>2, <1>3 DEF TokenPlaces
<1>5. ASSUME NEW i \in 0 .. n - 1, i \in S
      PROVE  i + 1 \in S
  <2>1. /\ i + 1 \in 0 .. n /\ i + 1 \in 0 .. n + 1 /\ i + 1 # 0
        /\ (i + 1) - 1 = i /\ i + 1 \in 1 .. n
    BY <1>1
  <2>2. f[i + 1] = TokenChar(f[i], text[i + 1])
    BY <1>2, <2>1 DEF TokenPlaces
  <2>3. g[i + 1] = TokenChar(g[i], more[i + 1])
    BY <1>3, <2>1 DEF TokenPlaces
  <2>4. g[i] = f[i]
    BY <1>5
  <2>5. g[i + 1] = f[i + 1]
    BY <1>1, <2>1, <2>2, <2>3, <2>4
  <2> QED
    BY <2>1, <2>5
<1>6. n \in S
  <2> HIDE DEF S
  <2>1. \A i \in 0 .. n : i \in S
    BY <1>1, <1>4, <1>5, Upward
  <2> QED
    BY <1>1, <2>1
<1>7. g[n + 1] = TokenChar(g[n], more[n + 1])
  <2>1. n + 1 \in 0 .. n + 1 /\ n + 1 # 0 /\ (n + 1) - 1 = n
    BY <1>1
  <2> QED
    BY <1>3, <2>1 DEF TokenPlaces
<1> QED
  BY <1>1, <1>2, <1>3, <1>6, <1>7 DEF more

LEMMA TokenReadNothing == TokenRead(<<>>) = TokenStart
<1>1. Len(<<>>) = 0 /\ 0 \in 0 .. 0
  OBVIOUS
<1>2. PICK f : TokenPlaces(f, <<>>, 0) /\ TokenRead(<<>>) = f[0]
  BY <1>1, TokenReadPlaces
<1> QED
  BY <1>1, <1>2 DEF TokenPlaces

LEMMA TokenReadUpto ==
  ASSUME NEW text \in Seq(Letter), NEW s \in Seq(Letter)
  PROVE  /\ TokenRead(Upto(text, s, 0)) = TokenRead(text)
         /\ TokenRead(Upto(text, s, Len(s))) = TokenRead(text \o s)
         /\ \A j \in 0 .. Len(s) - 1 :
              TokenRead(Upto(text, s, j + 1))
                = TokenChar(TokenRead(Upto(text, s, j)), s[j + 1])
<1>1. ASSUME NEW j \in 0 .. Len(s) - 1
      PROVE  TokenRead(Upto(text, s, j + 1))
               = TokenChar(TokenRead(Upto(text, s, j)), s[j + 1])
  <2>1. /\ s[j + 1] \in Letter /\ Upto(text, s, j) \in Seq(Letter)
        /\ Upto(text, s, j + 1) = Upto(text, s, j) \o <<s[j + 1]>>
    BY UptoGrows
  <2> QED
    BY <2>1, TokenReadOn
<1> QED
  BY <1>1, UptoGrows

-----------------------------------------------------------------------------
(* One character                                                            *)

Teller == [tokens : Seq(Seq(Letter)), token : Seq(Letter), in : BOOLEAN,
           quoted : BOOLEAN, ended : BOOLEAN]

(* Between two tokens.                                                      *)
Fresh(p, ts) ==
  /\ p \in Teller
  /\ p.tokens = ts /\ p.token = <<>>
  /\ p.in = FALSE /\ p.quoted = FALSE /\ p.ended = FALSE

LEMMA TellOpen ==
  ASSUME NEW p \in Teller, p.quoted = FALSE
  PROVE  LET q == TokenChar(p, Apostrophe)
         IN  /\ q \in Teller
             /\ q.tokens = p.tokens /\ q.in = TRUE /\ q.quoted = TRUE
             /\ q.ended = FALSE
             /\ q.token = IF p.ended = TRUE THEN p.token \o <<Apostrophe>>
                          ELSE p.token
<1> DEFINE q == TokenChar(p, Apostrophe)
<1>1. PICK t \in Seq(Letter) :
        t = IF p.ended THEN p.token \o <<Apostrophe>> ELSE p.token
  <2>1. p.token \in Seq(Letter)
    BY DEF Teller
  <2>2. p.token \o <<Apostrophe>> \in Seq(Letter)
    BY <2>1, Marks, Extended
  <2> QED
    BY <2>1, <2>2
<1>2. p.ended \in BOOLEAN
  BY DEF Teller
<1>3. q = [p EXCEPT !.token = t, !.in = TRUE, !.quoted = TRUE, !.ended = FALSE]
  BY <1>1, Marks DEF TokenChar
<1> HIDE DEF q
<1>4. /\ q \in Teller
      /\ q.tokens = p.tokens /\ q.in = TRUE /\ q.quoted = TRUE
      /\ q.ended = FALSE /\ q.token = t
  BY <1>3 DEF Teller
<1> QED
  BY <1>1, <1>2, <1>4 DEF q

LEMMA TellClose ==
  ASSUME NEW p \in Teller, p.quoted = TRUE
  PROVE  LET q == TokenChar(p, Apostrophe)
         IN  /\ q \in Teller
             /\ q.tokens = p.tokens /\ q.in = p.in /\ q.quoted = FALSE
             /\ q.ended = TRUE /\ q.token = p.token
<1> DEFINE q == TokenChar(p, Apostrophe)
<1>1. q = [p EXCEPT !.quoted = FALSE, !.ended = TRUE]
  BY DEF TokenChar
<1> HIDE DEF q
<1>2. /\ q \in Teller
      /\ q.tokens = p.tokens /\ q.in = p.in /\ q.quoted = FALSE
      /\ q.ended = TRUE /\ q.token = p.token
  BY <1>1 DEF Teller
<1> QED
  BY <1>2 DEF q

LEMMA TellBlank ==
  ASSUME NEW p \in Teller, NEW ch \in {Space, Tab}, p.quoted = FALSE
  PROVE  /\ p.in = TRUE => Fresh(TokenChar(p, ch), Append(p.tokens, p.token))
         /\ p.in = FALSE => TokenChar(p, ch) = p
<1> DEFINE q == TokenChar(p, ch)
<1>1. PICK a \in Seq(Seq(Letter)) : a = Append(p.tokens, p.token)
  <2>1. p.token \in Seq(Letter) /\ p.tokens \in Seq(Seq(Letter))
    BY DEF Teller
  <2> QED
    BY <2>1, Appended
<1>2. ch # Apostrophe
  BY Marks
<1>3. q = IF p.in THEN [TokenStart EXCEPT !.tokens = a] ELSE p
  BY <1>1, <1>2 DEF TokenChar
<1> HIDE DEF q
<1>4. ASSUME p.in = TRUE
      PROVE  Fresh(q, a)
  <2>1. q = [TokenStart EXCEPT !.tokens = a]
    BY <1>3, <1>4
  <2>2. <<>> \in Seq(Letter) /\ TokenStart \in [tokens : {<<>>}, token : Seq(Letter),
                                                in : BOOLEAN, quoted : BOOLEAN,
                                                ended : BOOLEAN]
    BY DEF TokenStart
  <2>3. /\ q.tokens = a /\ q.token = <<>> /\ q.in = FALSE /\ q.quoted = FALSE
        /\ q.ended = FALSE
        /\ q = [tokens |-> a, token |-> <<>>, in |-> FALSE, quoted |-> FALSE,
                ended |-> FALSE]
    BY <2>1 DEF TokenStart
  <2>4. q \in Teller
    BY <2>2, <2>3 DEF Teller
  <2> QED
    BY <2>3, <2>4 DEF Fresh
<1> QED
  BY <1>1, <1>3, <1>4 DEF q

LEMMA TellOther ==
  ASSUME NEW p \in Teller, NEW ch \in Letter, ch # Apostrophe,
         p.quoted = TRUE \/ ch \notin {Space, Tab}
  PROVE  LET q == TokenChar(p, ch)
         IN  /\ q \in Teller
             /\ q.tokens = p.tokens /\ q.in = TRUE /\ q.quoted = p.quoted
             /\ q.ended = FALSE /\ q.token = p.token \o <<ch>>
<1> DEFINE q == TokenChar(p, ch)
<1>1. PICK t \in Seq(Letter) : t = p.token \o <<ch>>
  <2>1. p.token \in Seq(Letter)
    BY DEF Teller
  <2> QED
    BY <2>1, Extended
<1>2. q = [p EXCEPT !.token = t, !.in = TRUE, !.ended = FALSE]
  BY <1>1 DEF TokenChar
<1> HIDE DEF q
<1>3. /\ q \in Teller
      /\ q.tokens = p.tokens /\ q.in = TRUE /\ q.quoted = p.quoted
      /\ q.ended = FALSE /\ q.token = t
  BY <1>2 DEF Teller
<1> QED
  BY <1>1, <1>3 DEF q

-----------------------------------------------------------------------------
(* Arguments as they are read when nothing is wrong with them               *)

(* A text that goes on with an argument and a space.                        *)
Following(text, a) == text \o (a \o <<Space>>)

LEMMA FollowingIs ==
  ASSUME NEW text \in Seq(Letter), NEW a \in Seq(Letter)
  PROVE  /\ Following(text, a) = (text \o a) \o <<Space>>
         /\ Following(text, a) \in Seq(Letter)
         /\ text \o a \in Seq(Letter)
<1>1. <<Space>> \in Seq(Letter)
  BY Marks
<1>2. Following(text, a) = (text \o a) \o <<Space>>
  BY <1>1, Associative DEF Following
<1>3. text \o a \in Seq(Letter)
  BY ConcatProperties
<1>4. (text \o a) \o <<Space>> \in Seq(Letter)
  BY <1>1, <1>3, ConcatProperties
<1> QED
  BY <1>2, <1>3, <1>4

LEMMA EscapedText ==
  ASSUME NEW text \in Seq(Letter), NEW s \in Seq(Letter)
  PROVE  /\ text \o EscapeArgumentForPS(s)
              = ((text \o <<Apostrophe>>) \o s) \o <<Apostrophe>>
         /\ EscapeArgumentForPS(s) \in Seq(Letter)
         /\ text \o <<Apostrophe>> \in Seq(Letter)
         /\ (text \o <<Apostrophe>>) \o s \in Seq(Letter)
<1>1. PICK a \in Seq(Letter) : a = <<Apostrophe>>
  BY Marks, One
<1>2. EscapeArgumentForPS(s) = (a \o s) \o a
  BY <1>1 DEF EscapeArgumentForPS
<1>3. a \o s \in Seq(Letter) /\ text \o a \in Seq(Letter)
  BY ConcatProperties
<1>4. (a \o s) \o a \in Seq(Letter) /\ (text \o a) \o s \in Seq(Letter)
  BY <1>3, ConcatProperties
<1>5. text \o ((a \o s) \o a) = (text \o (a \o s)) \o a
  <2>1. PICK u \in Seq(Letter) : u = a \o s
    BY <1>3
  <2>2. text \o (u \o a) = (text \o u) \o a
    BY Associative, Zenon
  <2> QED
    BY <2>1, <2>2
<1>6. text \o (a \o s) = (text \o a) \o s
  BY Associative, Zenon
<1> QED
  BY <1>1, <1>2, <1>3, <1>4, <1>5, <1>6

LEMMA TellWord ==
  ASSUME NEW text \in Seq(Letter), NEW ts, Fresh(TokenRead(text), ts),
         NEW w \in Word
  PROVE  Fresh(TokenRead(Following(text, <<w>>)), Append(ts, <<w>>))
<1>1. w \in Letter /\ w # Apostrophe /\ w \notin {Space, Tab}
  BY DEF Word, Letter, Char, Apostrophe, Space, Tab
<1>2. PICK p : p = TokenRead(text)
  OBVIOUS
<1>3. PICK q : q = TokenRead(text \o <<w>>)
  OBVIOUS
<1>4. p \in Teller /\ p.tokens = ts /\ p.token = <<>> /\ p.quoted = FALSE
  BY <1>2 DEF Fresh
<1>5. q = TokenChar(p, w)
  BY <1>1, <1>2, <1>3, TokenReadOn
<1>6. /\ q \in Teller /\ q.tokens = p.tokens /\ q.in = TRUE
      /\ q.quoted = p.quoted /\ q.token = p.token \o <<w>>
  BY <1>1, <1>4, <1>5, TellOther
<1>7. q.token = <<w>>
  BY <1>4, <1>6
<1>8. <<w>> \in Seq(Letter)
  BY <1>1
<1>9. TokenRead(Following(text, <<w>>)) = TokenChar(q, Space)
  BY <1>3, <1>8, FollowingIs, Marks, TokenReadOn
<1> QED
  BY <1>4, <1>6, <1>7, <1>9, TellBlank

(* Inside apostrophes everything but an apostrophe is itself.               *)
LEMMA TellInside ==
  ASSUME NEW text \in Seq(Letter), NEW s \in Seq(Letter),
         \A i \in 1 .. Len(s) : s[i] # Apostrophe,
         TokenRead(text) \in Teller, TokenRead(text).quoted = TRUE,
         TokenRead(text).in = TRUE
  PROVE  LET p == TokenRead(text)
             q == TokenRead(text \o s)
         IN  /\ q \in Teller
             /\ q.tokens = p.tokens /\ q.token = p.token \o s
             /\ q.in = TRUE /\ q.quoted = TRUE
<1> DEFINE p == TokenRead(text)
           q(j) == TokenRead(Upto(text, s, j))
           Run(j) == /\ q(j) \in Teller
                     /\ q(j).tokens = p.tokens
                     /\ q(j).token = p.token \o SubSeq(s, 1, j)
                     /\ q(j).in = TRUE /\ q(j).quoted = TRUE
           S == {j \in 0 .. Len(s) : Run(j)}
<1>1. Len(s) \in Nat
  OBVIOUS
<1>2. 0 \in S
  <2>1. q(0) = p /\ SubSeq(s, 1, 0) = <<>>
    BY TokenReadUpto, SubSeqEmpty
  <2>2. p.token \o <<>> = p.token
    BY ConcatEmptySeq DEF Teller
  <2> HIDE DEF q, p
  <2>3. Run(0)
    BY <2>1, <2>2 DEF p
  <2> QED
    BY <1>1, <2>3
<1>3. ASSUME NEW j \in 0 .. Len(s) - 1, j \in S
      PROVE  j + 1 \in S
  <2> DEFINE ch == s[j + 1]
             a == q(j)
             b == q(j + 1)
             u == SubSeq(s, 1, j)
  <2>1. /\ ch \in Letter /\ b = TokenChar(a, ch)
        /\ u \in Seq(Letter) /\ SubSeq(s, 1, j + 1) = u \o <<ch>>
    BY TokenReadUpto, UptoGrows
  <2>2. Run(j) /\ j + 1 \in 0 .. Len(s) /\ j + 1 \in 1 .. Len(s)
    <3> HIDE DEF Run
    <3> QED
      BY <1>1, <1>3
  <2>3. /\ a \in Teller /\ a.tokens = p.tokens /\ a.token = p.token \o u
        /\ a.in = TRUE /\ a.quoted = TRUE
    BY <2>2
  <2>4. ch # Apostrophe /\ p.token \in Seq(Letter)
    BY <2>2 DEF Teller
  <2> HIDE DEF a, b, p, u, ch
  <2>5. /\ b \in Teller
        /\ b.tokens = a.tokens /\ b.in = TRUE /\ b.quoted = a.quoted
        /\ b.token = a.token \o <<ch>>
    BY <2>1, <2>3, <2>4, TellOther
  <2>6. (p.token \o u) \o <<ch>> = p.token \o (u \o <<ch>>)
    <3>1. <<ch>> \in Seq(Letter)
      BY <2>1
    <3>2. u \in Seq(Letter)
      BY <2>1
    <3>3. PICK t \in Seq(Letter) : t = p.token
      BY <2>4
    <3>4. (t \o u) \o <<ch>> = t \o (u \o <<ch>>)
      BY <3>1, <3>2, Associative, Zenon
    <3> QED
      BY <3>3, <3>4
  <2>7. Run(j + 1)
    <3>1. b.token = p.token \o SubSeq(s, 1, j + 1)
      BY <2>1, <2>3, <2>5, <2>6
    <3> HIDE DEF q
    <3> QED
      BY <2>3, <2>5, <3>1 DEF b
  <2> QED
    BY <2>2, <2>7
<1>4. Run(Len(s))
  <2> HIDE DEF S, Run
  <2>1. \A j \in 0 .. Len(s) : j \in S
    BY <1>1, <1>2, <1>3, Upward
  <2> QED
    BY <1>1, <2>1 DEF S
<1>5. SubSeq(s, 1, Len(s)) = s
  BY SubSeqFull
<1>6. q(Len(s)) = TokenRead(text \o s)
  BY TokenReadUpto
<1> QED
  BY <1>4, <1>5, <1>6

(* Behind the opening apostrophe.                                           *)
LEMMA TellOpened ==
  ASSUME NEW text \in Seq(Letter), NEW ts, Fresh(TokenRead(text), ts)
  PROVE  LET p == TokenRead(text \o <<Apostrophe>>)
         IN  /\ p \in Teller
             /\ p.tokens = ts /\ p.token = <<>> /\ p.in = TRUE /\ p.quoted = TRUE
             /\ p.ended = FALSE
<1>1. PICK p : p = TokenRead(text)
  OBVIOUS
<1>2. /\ p \in Teller /\ p.tokens = ts /\ p.token = <<>> /\ p.quoted = FALSE
      /\ p.ended = FALSE
  BY <1>1 DEF Fresh
<1>3. TokenRead(text \o <<Apostrophe>>) = TokenChar(p, Apostrophe)
  BY <1>1, Marks, TokenReadOn
<1> QED
  BY <1>2, <1>3, TellOpen

(* A string without an apostrophe is read as it was before it was escaped.  *)
LEMMA TellEscaped ==
  ASSUME NEW text \in Seq(Letter), NEW ts, Fresh(TokenRead(text), ts),
         NEW s \in Seq(Letter), \A i \in 1 .. Len(s) : s[i] # Apostrophe
  PROVE  Fresh(TokenRead(Following(text, EscapeArgumentForPS(s))), Append(ts, s))
<1>1. PICK t1 \in Seq(Letter) : t1 = text \o <<Apostrophe>>
  BY EscapedText
<1>2. PICK t2 \in Seq(Letter) : t2 = t1 \o s
  BY <1>1, EscapedText
<1>3. PICK t3 \in Seq(Letter) : t3 = t2 \o <<Apostrophe>>
  BY Marks, Extended
<1>4. text \o EscapeArgumentForPS(s) = t3 /\ EscapeArgumentForPS(s) \in Seq(Letter)
  BY <1>1, <1>2, <1>3, EscapedText
<1>5. PICK p1, p2, p3 :
        p1 = TokenRead(t1) /\ p2 = TokenRead(t2) /\ p3 = TokenRead(t3)
  OBVIOUS
<1>6. /\ p1 \in Teller /\ p1.tokens = ts /\ p1.token = <<>> /\ p1.in = TRUE
      /\ p1.quoted = TRUE
  BY <1>1, <1>5, TellOpened
<1>7. /\ p2 \in Teller /\ p2.tokens = ts /\ p2.token = s /\ p2.in = TRUE
      /\ p2.quoted = TRUE
  <2>1. <<>> \o s = s
    BY ConcatEmptySeq
  <2>2. /\ p2 \in Teller /\ p2.tokens = p1.tokens /\ p2.token = p1.token \o s
        /\ p2.in = TRUE /\ p2.quoted = TRUE
    BY <1>2, <1>5, <1>6, TellInside
  <2> QED
    BY <1>6, <2>1, <2>2
<1>8. /\ p3 \in Teller /\ p3.tokens = ts /\ p3.token = s /\ p3.in = TRUE
      /\ p3.quoted = FALSE
  <2>1. p3 = TokenChar(p2, Apostrophe)
    BY <1>3, <1>5, Marks, TokenReadOn
  <2> QED
    BY <1>7, <2>1, TellClose
<1>9. TokenRead(Following(text, EscapeArgumentForPS(s))) = TokenChar(p3, Space)
  <2>1. Following(text, EscapeArgumentForPS(s)) = t3 \o <<Space>>
    BY <1>4, FollowingIs
  <2> QED
    BY <1>5, <2>1, Marks, TokenReadOn
<1> QED
  BY <1>8, <1>9, TellBlank

-----------------------------------------------------------------------------
(* An argument with an apostrophe of its own                                *)

(* All that a character can do to the tokens.                               *)
LEMMA TellGrows ==
  ASSUME NEW p \in Teller, NEW ch \in Letter
  PROVE  LET q == TokenChar(p, ch)
         IN  /\ q \in Teller
             /\ \/ /\ q.tokens = p.tokens
                   /\ p.in = TRUE => q.in = TRUE
                   /\ Len(q.token) <= Len(p.token) + 1
                \/ /\ p.in = TRUE
                   /\ q.tokens = Append(p.tokens, p.token) /\ q.token = <<>>
<1> DEFINE q == TokenChar(p, ch)
<1>1. /\ p.token \in Seq(Letter) /\ Len(p.token) \in Nat
      /\ p.quoted \in BOOLEAN /\ p.in \in BOOLEAN /\ p.ended \in BOOLEAN
  BY DEF Teller
<1>2. \A c \in Letter : Len(p.token \o <<c>>) = Len(p.token) + 1
  BY <1>1, Extended
<1> HIDE DEF q
<1>3. CASE ch = Apostrophe /\ p.quoted = FALSE
  <2>1. /\ q \in Teller
        /\ q.tokens = p.tokens /\ q.in = TRUE
        /\ q.token = IF p.ended = TRUE THEN p.token \o <<Apostrophe>> ELSE p.token
    BY <1>3, TellOpen DEF q
  <2>2. Len(q.token) <= Len(p.token) + 1
    BY <1>1, <1>2, <2>1, Marks
  <2> QED
    BY <2>1, <2>2 DEF q
<1>4. CASE ch = Apostrophe /\ p.quoted = TRUE
  <2>1. q \in Teller /\ q.tokens = p.tokens /\ q.in = p.in /\ q.token = p.token
    BY <1>4, TellClose DEF q
  <2> QED
    BY <1>1, <2>1 DEF q
<1>5. CASE ch \in {Space, Tab} /\ p.quoted = FALSE
  <2>1. p.in = TRUE => Fresh(q, Append(p.tokens, p.token))
    BY <1>5, TellBlank DEF q
  <2>2. p.in = FALSE => q = p
    BY <1>5, TellBlank DEF q
  <2> QED
    BY <1>1, <2>1, <2>2 DEF Fresh, q
<1>6. CASE ch # Apostrophe /\ (p.quoted = TRUE \/ ch \notin {Space, Tab})
  <2>1. /\ q \in Teller
        /\ q.tokens = p.tokens /\ q.in = TRUE /\ q.token = p.token \o <<ch>>
    BY <1>6, TellOther DEF q
  <2> QED
    BY <1>1, <1>2, <2>1 DEF q
<1> QED
  BY <1>1, <1>3, <1>4, <1>5, <1>6

(* Something that is too short stands in the place of s.                    *)
Short(p, m, s) == Len(p.tokens) > m /\ Len(p.tokens[m + 1]) < Len(s)

LEMMA ShortStays ==
  ASSUME NEW p \in Teller, NEW ch \in Letter, NEW m \in Nat, NEW s,
         Short(p, m, s)
  PROVE  TokenChar(p, ch) \in Teller /\ Short(TokenChar(p, ch), m, s)
<1>1. PICK q : q = TokenChar(p, ch)
  OBVIOUS
<1>2. /\ q \in Teller
      /\ q.tokens = p.tokens \/ q.tokens = Append(p.tokens, p.token)
  BY <1>1, TellGrows
<1>3. p.tokens \in Seq(Seq(Letter)) /\ p.token \in Seq(Letter)
  BY DEF Teller
<1>4. Append(p.tokens, p.token)[m + 1] = p.tokens[m + 1]
  <2>1. m + 1 \in 1 .. Len(p.tokens)
    BY <1>3 DEF Short
  <2> QED
    BY <1>3, <2>1, Appended
<1>5. Len(Append(p.tokens, p.token)) > m
  BY <1>3, Appended DEF Short
<1> QED
  BY <1>1, <1>2, <1>4, <1>5 DEF Short

LEMMA ShortRun ==
  ASSUME NEW text \in Seq(Letter), NEW v \in Seq(Letter), NEW m \in Nat, NEW s,
         TokenRead(text) \in Teller, Short(TokenRead(text), m, s)
  PROVE  TokenRead(text \o v) \in Teller /\ Short(TokenRead(text \o v), m, s)
<1> DEFINE q(j) == TokenRead(Upto(text, v, j))
           Run(j) == q(j) \in Teller /\ Short(q(j), m, s)
           S == {j \in 0 .. Len(v) : Run(j)}
<1>1. Len(v) \in Nat
  OBVIOUS
<1>2. 0 \in S
  BY <1>1, TokenReadUpto
<1>3. ASSUME NEW j \in 0 .. Len(v) - 1, j \in S
      PROVE  j + 1 \in S
  <2>1. v[j + 1] \in Letter /\ q(j + 1) = TokenChar(q(j), v[j + 1])
    BY TokenReadUpto, UptoGrows
  <2>2. q(j) \in Teller /\ Short(q(j), m, s)
    BY <1>3
  <2> HIDE DEF q
  <2>3. q(j + 1) \in Teller /\ Short(q(j + 1), m, s)
    BY <2>1, <2>2, ShortStays
  <2> QED
    BY <1>1, <2>3
<1>4. Run(Len(v))
  <2> HIDE DEF S, Run
  <2>1. \A j \in 0 .. Len(v) : j \in S
    BY <1>1, <1>2, <1>3, Upward
  <2> QED
    BY <1>1, <2>1 DEF S
<1> QED
  BY <1>4, TokenReadUpto

(* Up to some place in s, behind the apostrophe that opens it: nothing has  *)
(* happened yet, or a character is missing from what has been read of s.    *)
Inside(p, m, s, j) ==
  /\ p \in Teller
  /\ \/ /\ \A i \in 1 .. j : s[i] # Apostrophe
        /\ Len(p.tokens) = m /\ p.in = TRUE /\ p.quoted = TRUE
        /\ Len(p.token) = j
     \/ Len(p.tokens) = m /\ p.in = TRUE /\ Len(p.token) + 1 <= j
     \/ Short(p, m, s)

LEMMA InsideGrows ==
  ASSUME NEW p, NEW m \in Nat, NEW s \in Seq(Letter), NEW j \in 0 .. Len(s) - 1,
         Inside(p, m, s, j)
  PROVE  Inside(TokenChar(p, s[j + 1]), m, s, j + 1)
<1>1. PICK ch \in Letter : ch = s[j + 1]
  OBVIOUS
<1>2. PICK q : q = TokenChar(p, ch)
  OBVIOUS
<1>3. /\ p \in Teller /\ p.tokens \in Seq(Seq(Letter)) /\ p.token \in Seq(Letter)
      /\ Len(p.token) \in Nat /\ Len(s) \in Nat
  BY DEF Inside, Teller
<1>4. CASE /\ \A i \in 1 .. j : s[i] # Apostrophe
           /\ Len(p.tokens) = m /\ p.in = TRUE /\ p.quoted = TRUE
           /\ Len(p.token) = j
  <2>1. CASE ch = Apostrophe
    <3>1. q \in Teller /\ q.tokens = p.tokens /\ q.in = p.in /\ q.token = p.token
      BY <1>2, <1>3, <1>4, <2>1, TellClose
    <3> QED
      BY <1>1, <1>2, <1>4, <3>1 DEF Inside
  <2>2. CASE ch # Apostrophe
    <3>1. /\ q \in Teller /\ q.tokens = p.tokens /\ q.in = TRUE
          /\ q.quoted = p.quoted /\ q.token = p.token \o <<ch>>
      BY <1>2, <1>3, <1>4, <2>2, TellOther
    <3>2. Len(q.token) = j + 1
      BY <1>3, <1>4, <3>1, Extended
    <3>3. \A i \in 1 .. j + 1 : s[i] # Apostrophe
      BY <1>1, <1>4, <2>2
    <3> QED
      BY <1>1, <1>2, <1>4, <3>1, <3>2, <3>3 DEF Inside
  <2> QED
    BY <2>1, <2>2
<1>5. CASE Len(p.tokens) = m /\ p.in = TRUE /\ Len(p.token) + 1 <= j
  <2>1. /\ q \in Teller
        /\ \/ /\ q.tokens = p.tokens /\ q.in = TRUE
              /\ Len(q.token) <= Len(p.token) + 1
           \/ q.tokens = Append(p.tokens, p.token) /\ q.token = <<>>
    BY <1>2, <1>3, <1>5, TellGrows
  <2>2. CASE q.tokens = p.tokens /\ q.in = TRUE /\ Len(q.token) <= Len(p.token) + 1
    <3>1. Len(q.token) \in Nat
      BY <2>1 DEF Teller
    <3>2. Len(q.token) + 1 <= j + 1
      BY <1>3, <1>5, <2>2, <3>1
    <3> QED
      BY <1>1, <1>2, <1>5, <2>1, <2>2, <3>2 DEF Inside
  <2>3. CASE q.tokens = Append(p.tokens, p.token)
    <3>1. Len(q.tokens) = m + 1 /\ q.tokens[m + 1] = p.token
      BY <1>3, <1>5, <2>3, Appended
    <3>2. Len(p.token) < Len(s)
      BY <1>3, <1>5
    <3>3. Short(q, m, s)
      BY <3>1, <3>2 DEF Short
    <3> QED
      BY <1>1, <1>2, <2>1, <3>3 DEF Inside
  <2> QED
    BY <2>1, <2>2, <2>3
<1>6. CASE Short(p, m, s)
  BY <1>1, <1>2, <1>3, <1>6, ShortStays DEF Inside
<1> QED
  BY <1>4, <1>5, <1>6 DEF Inside

(* Behind a string with an apostrophe and the space that should end it, it  *)
(* is too short, or it still goes on.                                       *)
LEMMA TellMarked ==
  ASSUME NEW text \in Seq(Letter), NEW ts, Fresh(TokenRead(text), ts),
         NEW m \in Nat, Len(ts) = m,
         NEW s \in Seq(Letter), \E i \in 1 .. Len(s) : s[i] = Apostrophe
  PROVE  LET q == TokenRead(Following(text, EscapeArgumentForPS(s)))
         IN  /\ q \in Teller
             /\ \/ Short(q, m, s)
                \/ q.quoted = TRUE /\ q.in = TRUE /\ Len(q.tokens) = m
<1>1. PICK t1 \in Seq(Letter) : t1 = text \o <<Apostrophe>>
  BY EscapedText
<1>2. PICK t2 \in Seq(Letter) : t2 = t1 \o s
  BY <1>1, EscapedText
<1>3. PICK t3 \in Seq(Letter) : t3 = t2 \o <<Apostrophe>>
  BY Marks, Extended
<1>4. Following(text, EscapeArgumentForPS(s)) = t3 \o <<Space>>
  <2>1. text \o EscapeArgumentForPS(s) = t3 /\ EscapeArgumentForPS(s) \in Seq(Letter)
    BY <1>1, <1>2, <1>3, EscapedText
  <2> QED
    BY <2>1, FollowingIs
<1>5. PICK p1, p2, p3, p4 :
        /\ p1 = TokenRead(t1) /\ p2 = TokenRead(t2) /\ p3 = TokenRead(t3)
        /\ p4 = TokenRead(t3 \o <<Space>>)
  OBVIOUS
<1>6. Len(s) \in Nat
  OBVIOUS
<1>7. Inside(p2, m, s, Len(s))
  <2> DEFINE q(j) == TokenRead(Upto(t1, s, j))
             Run(j) == Inside(q(j), m, s, j)
             S == {j \in 0 .. Len(s) : Run(j)}
  <2>1. 0 \in S
    <3>1. /\ p1 \in Teller /\ p1.tokens = ts /\ p1.token = <<>> /\ p1.in = TRUE
          /\ p1.quoted = TRUE
      BY <1>1, <1>5, TellOpened
    <3>2. Inside(p1, m, s, 0)
      BY <3>1 DEF Inside
    <3>3. q(0) = p1
      BY <1>5, TokenReadUpto
    <3> QED
      BY <1>6, <3>2, <3>3
  <2>2. ASSUME NEW j \in 0 .. Len(s) - 1, j \in S
        PROVE  j + 1 \in S
    <3>1. q(j + 1) = TokenChar(q(j), s[j + 1])
      BY TokenReadUpto
    <3>2. Inside(q(j), m, s, j)
      BY <2>2
    <3> HIDE DEF q
    <3>3. Inside(q(j + 1), m, s, j + 1)
      BY <3>1, <3>2, InsideGrows
    <3> QED
      BY <1>6, <3>3
  <2>3. Run(Len(s))
    <3> HIDE DEF S, Run
    <3>1. \A j \in 0 .. Len(s) : j \in S
      BY <1>6, <2>1, <2>2, Upward
    <3> QED
      BY <1>6, <3>1 DEF S
  <2> QED
    BY <1>2, <1>5, <2>3, TokenReadUpto
<1>8. p3 = TokenChar(p2, Apostrophe) /\ p4 = TokenChar(p3, Space)
  BY <1>3, <1>5, Marks, TokenReadOn
<1>9. p2 \in Teller
  BY <1>7 DEF Inside
<1>10. CASE Short(p2, m, s)
  <2>1. p3 \in Teller /\ Short(p3, m, s)
    BY <1>8, <1>9, <1>10, ShortStays, Marks
  <2>2. p4 \in Teller /\ Short(p4, m, s)
    BY <1>8, <2>1, ShortStays, Marks
  <2> QED
    BY <1>4, <1>5, <2>2
<1>11. CASE Len(p2.tokens) = m /\ p2.in = TRUE /\ Len(p2.token) + 1 <= Len(s)
  <2>1. CASE p2.quoted = TRUE
    <3>1. /\ p3 \in Teller
          /\ p3.tokens = p2.tokens /\ p3.in = TRUE /\ p3.quoted = FALSE
          /\ p3.token = p2.token
      BY <1>8, <1>9, <1>11, <2>1, TellClose
    <3>2. Fresh(p4, Append(p2.tokens, p2.token))
      BY <1>8, <3>1, TellBlank
    <3>3. /\ p2.tokens \in Seq(Seq(Letter)) /\ p2.token \in Seq(Letter)
          /\ Len(p2.token) \in Nat
      BY <1>9 DEF Teller
    <3>4. /\ Len(Append(p2.tokens, p2.token)) = m + 1
          /\ Append(p2.tokens, p2.token)[m + 1] = p2.token
      BY <1>11, <3>3, Appended
    <3>5. Len(p2.token) < Len(s)
      BY <1>6, <1>11, <3>3
    <3>6. p4 \in Teller /\ Short(p4, m, s)
      BY <3>2, <3>4, <3>5 DEF Fresh, Short
    <3> QED
      BY <1>4, <1>5, <3>6
  <2>2. CASE p2.quoted = FALSE
    <3>1. /\ p3 \in Teller
          /\ p3.tokens = p2.tokens /\ p3.in = TRUE /\ p3.quoted = TRUE
      BY <1>8, <1>9, <2>2, TellOpen
    <3>2. /\ p4 \in Teller
          /\ p4.tokens = p3.tokens /\ p4.in = TRUE /\ p4.quoted = p3.quoted
      BY <1>8, <3>1, TellOther, Marks
    <3> QED
      BY <1>4, <1>5, <1>11, <3>1, <3>2
  <2>3. p2.quoted \in BOOLEAN
    BY <1>9 DEF Teller
  <2> QED
    BY <2>1, <2>2, <2>3
<1> QED
  BY <1>7, <1>10, <1>11 DEF Inside

LEMMA ShortFollows ==
  ASSUME NEW text \in Seq(Letter), NEW a \in Seq(Letter), NEW m \in Nat, NEW s,
         TokenRead(text) \in Teller, Short(TokenRead(text), m, s)
  PROVE  /\ TokenRead(Following(text, a)) \in Teller
         /\ Short(TokenRead(Following(text, a)), m, s)
<1>1. a \o <<Space>> \in Seq(Letter)
  BY Marks, Extended
<1> QED
  BY <1>1, ShortRun DEF Following

(* The words of the code do not end a string that still goes on.            *)
LEMMA StillInside ==
  ASSUME NEW text \in Seq(Letter), NEW m, NEW w \in Word,
         TokenRead(text) \in Teller, TokenRead(text).quoted = TRUE,
         TokenRead(text).in = TRUE, Len(TokenRead(text).tokens) = m
  PROVE  LET q == TokenRead(Following(text, <<w>>))
         IN  q \in Teller /\ q.quoted = TRUE /\ q.in = TRUE /\ Len(q.tokens) = m
<1>1. w \in Letter /\ w # Apostrophe /\ <<w>> \in Seq(Letter)
  BY DEF Word, Letter, Char, Apostrophe
<1>2. PICK p, q, r : /\ p = TokenRead(text) /\ q = TokenRead(text \o <<w>>)
                     /\ r = TokenRead(Following(text, <<w>>))
  OBVIOUS
<1>3. q = TokenChar(p, w)
  BY <1>1, <1>2, TokenReadOn
<1>4. /\ q \in Teller /\ q.tokens = p.tokens /\ q.in = TRUE
      /\ q.quoted = p.quoted
  BY <1>1, <1>2, <1>3, TellOther
<1>5. r = TokenChar(q, Space)
  <2>1. /\ Following(text, <<w>>) = (text \o <<w>>) \o <<Space>>
        /\ text \o <<w>> \in Seq(Letter)
    BY <1>1, FollowingIs
  <2> QED
    BY <1>2, <2>1, Marks, TokenReadOn
<1>6. q.quoted = TRUE
  BY <1>2, <1>4
<1>7. /\ r \in Teller /\ r.tokens = q.tokens /\ r.in = TRUE
      /\ r.quoted = q.quoted
  BY <1>4, <1>5, <1>6, Marks, TellOther
<1> QED
  BY <1>2, <1>4, <1>6, <1>7

(* With two tokens behind it, the third one going on, and j characters more *)
(* than the one that ends it: each of the next tokens takes a space, so the *)
(* seventh one has no more than what is left of j then.                     *)
Counted(p, j) ==
  LET n == Len(p.tokens)
  IN  /\ p \in Teller
      /\ n >= 2 /\ n - 2 <= j
      /\ n >= 3 => n - 2 + Len(p.token) <= j
      /\ n >= 7 => Len(p.tokens[7]) + 5 <= j

LEMMA CountedGrows ==
  ASSUME NEW p, NEW j \in Nat, Counted(p, j), NEW ch \in Letter
  PROVE  Counted(TokenChar(p, ch), j + 1)
<1>1. PICK q : q = TokenChar(p, ch)
  OBVIOUS
<1>2. /\ p \in Teller /\ p.tokens \in Seq(Seq(Letter)) /\ p.token \in Seq(Letter)
      /\ Len(p.token) \in Nat
  BY DEF Counted, Teller
<1>3. PICK n \in Nat : n = Len(p.tokens)
  BY <1>2
<1>4. /\ n >= 2 /\ n - 2 <= j
      /\ n >= 3 => n - 2 + Len(p.token) <= j
      /\ n >= 7 => Len(p.tokens[7]) + 5 <= j
  BY <1>3 DEF Counted
<1>5. /\ q \in Teller
      /\ \/ q.tokens = p.tokens /\ Len(q.token) <= Len(p.token) + 1
         \/ q.tokens = Append(p.tokens, p.token) /\ q.token = <<>>
  BY <1>1, <1>2, TellGrows
<1>6. Len(q.token) \in Nat
  BY <1>5 DEF Teller
<1>7. n >= 7 => Len(p.tokens[7]) \in Nat
  <2>1. n >= 7 => p.tokens[7] \in Seq(Letter)
    BY <1>2, <1>3
  <2> QED
    BY <2>1
<1>8. CASE q.tokens = p.tokens /\ Len(q.token) <= Len(p.token) + 1
  <2>1. n - 2 <= j + 1
    BY <1>4
  <2>2. n >= 3 => n - 2 + Len(q.token) <= j + 1
    BY <1>2, <1>4, <1>6, <1>8
  <2>3. n >= 7 => Len(p.tokens[7]) + 5 <= j + 1
    BY <1>4, <1>7
  <2> QED
    BY <1>1, <1>3, <1>4, <1>5, <1>8, <2>1, <2>2, <2>3 DEF Counted
<1>9. CASE q.tokens = Append(p.tokens, p.token) /\ q.token = <<>>
  <2>1. /\ Len(q.tokens) = n + 1 /\ q.tokens[n + 1] = p.token
        /\ \A i \in 1 .. n : q.tokens[i] = p.tokens[i]
        /\ Len(q.token) = 0
    BY <1>2, <1>3, <1>9, Appended
  <2>2. n + 1 >= 2 /\ (n + 1) - 2 <= j + 1 /\ (n + 1) - 2 + 0 <= j + 1
    BY <1>4
  <2>3. n + 1 >= 7 => Len(q.tokens[7]) + 5 <= j + 1
    <3>1. CASE n = 6
      BY <1>2, <1>4, <2>1, <3>1
    <3>2. CASE n >= 7
      <4>1. q.tokens[7] = p.tokens[7]
        BY <2>1, <3>2
      <4> QED
        BY <1>4, <1>7, <3>2, <4>1
    <3> QED
      BY <3>1, <3>2
  <2> QED
    BY <1>1, <1>5, <2>1, <2>2, <2>3 DEF Counted
<1> QED
  BY <1>5, <1>8, <1>9

LEMMA CountedRun ==
  ASSUME NEW text \in Seq(Letter), NEW v \in Seq(Letter),
         Counted(TokenRead(text), 0)
  PROVE  Counted(TokenRead(text \o v), Len(v))
<1> DEFINE q(j) == TokenRead(Upto(text, v, j))
           Run(j) == Counted(q(j), j)
           S == {j \in 0 .. Len(v) : Run(j)}
<1>1. Len(v) \in Nat
  OBVIOUS
<1>2. 0 \in S
  BY <1>1, TokenReadUpto
<1>3. ASSUME NEW j \in 0 .. Len(v) - 1, j \in S
      PROVE  j + 1 \in S
  <2>1. v[j + 1] \in Letter /\ q(j + 1) = TokenChar(q(j), v[j + 1])
    BY TokenReadUpto, UptoGrows
  <2>2. Counted(q(j), j) /\ j \in Nat
    BY <1>3
  <2> HIDE DEF q
  <2>3. Counted(q(j + 1), j + 1)
    BY <2>1, <2>2, CountedGrows
  <2> QED
    BY <1>1, <2>3
<1>4. Run(Len(v))
  <2> HIDE DEF S, Run
  <2>1. \A j \in 0 .. Len(v) : j \in S
    BY <1>1, <1>2, <1>3, Upward
  <2> QED
    BY <1>1, <2>1 DEF S
<1> QED
  BY <1>4, TokenReadUpto

LEMMA Regrouped ==
  ASSUME NEW w, NEW x, NEW y, NEW z,
         w \in Seq(Letter), x \in Seq(Letter), y \in Seq(Letter), z = x \o y
  PROVE  /\ (w \o x) \o y = w \o z
         /\ z \in Seq(Letter) /\ Len(z) = Len(x) + Len(y)
<1>1. (w \o x) \o y = w \o (x \o y)
  BY Associative, Zenon
<1>2. x \o y \in Seq(Letter) /\ Len(x \o y) = Len(x) + Len(y)
  BY ConcatProperties
<1> QED
  BY <1>1, <1>2

(* What is behind the opening apostrophe.                                   *)
LEMMA BehindOpening ==
  ASSUME NEW text \in Seq(Letter), NEW s \in Seq(Letter)
  PROVE  \E v \in Seq(Letter) :
           /\ Len(v) = Len(s) + 2
           /\ Following(text, EscapeArgumentForPS(s)) = (text \o <<Apostrophe>>) \o v
<1>1. PICK t, a, b :
        t = text \o <<Apostrophe>> /\ a = <<Apostrophe>> /\ b = <<Space>>
  OBVIOUS
<1>2. /\ t \in Seq(Letter) /\ a \in Seq(Letter) /\ b \in Seq(Letter)
      /\ Len(a) = 1 /\ Len(b) = 1 /\ Len(s) \in Nat
      /\ EscapeArgumentForPS(s) \in Seq(Letter)
  BY <1>1, Marks, EscapedText
<1>3. /\ Following(text, EscapeArgumentForPS(s)) = (text \o EscapeArgumentForPS(s)) \o b
      /\ text \o EscapeArgumentForPS(s) = (t \o s) \o a
  BY <1>1, <1>2, FollowingIs, EscapedText
<1>4. PICK u, v : u = s \o a /\ v = u \o b
  OBVIOUS
<1>5. (t \o s) \o a = t \o u /\ u \in Seq(Letter) /\ Len(u) = Len(s) + 1
  <2>1. t \in Seq(Letter) /\ s \in Seq(Letter) /\ a \in Seq(Letter) /\ u = s \o a
    BY <1>2, <1>4
  <2>2. (t \o s) \o a = t \o u
    BY <2>1, Regrouped
  <2>3. u \in Seq(Letter) /\ Len(u) = Len(s) + Len(a)
    BY <2>1, Regrouped
  <2> QED
    BY <1>2, <2>2, <2>3
<1>6. (t \o u) \o b = t \o v /\ v \in Seq(Letter) /\ Len(v) = Len(u) + 1
  BY <1>2, <1>4, <1>5, Regrouped
<1>7. Len(v) = Len(s) + 2
  BY <1>2, <1>5, <1>6
<1>8. Following(text, EscapeArgumentForPS(s)) = t \o v
  BY <1>3, <1>5, <1>6
<1> QED
  BY <1>1, <1>6, <1>7, <1>8

(* With the identifier unfinished, the path in its apostrophes is too short *)
(* to make the four tokens that are missing and itself.                     *)
LEMMA TellTooFew ==
  ASSUME NEW text \in Seq(Letter), NEW s \in Seq(Letter),
         TokenRead(text) \in Teller, TokenRead(text).quoted = TRUE,
         TokenRead(text).in = TRUE, Len(TokenRead(text).tokens) = 2
  PROVE  Counted(TokenRead(Following(text, EscapeArgumentForPS(s))), Len(s) + 2)
<1> DEFINE t == text \o <<Apostrophe>>
           p == TokenRead(text)
           r == TokenRead(t)
<1>1. t \in Seq(Letter)
  BY EscapedText
<1>2. Counted(r, 0)
  <2>1. r = TokenChar(p, Apostrophe)
    BY Marks, TokenReadOn
  <2>2. p \in Teller /\ p.quoted = TRUE /\ Len(p.tokens) = 2
    OBVIOUS
  <2> HIDE DEF p, r
  <2>3. r \in Teller /\ r.tokens = p.tokens
    BY <2>1, <2>2, TellClose
  <2>4. PICK n : n = Len(r.tokens) /\ n = 2
    BY <2>2, <2>3
  <2>5. /\ n >= 2 /\ n - 2 <= 0 /\ ~ (n >= 3) /\ ~ (n >= 7)
    BY <2>4
  <2> QED
    BY <2>3, <2>4, <2>5 DEF Counted
<1> HIDE DEF t
<1>3. \A v \in Seq(Letter) : Counted(TokenRead(t \o v), Len(v))
  BY <1>1, <1>2, CountedRun
<1> QED
  BY <1>3, BehindOpening DEF t

-----------------------------------------------------------------------------
(* The seven arguments of the event                                         *)

Opening == Following(Following(<<>>, <<"certissued">>), <<"-subjectkeyidentifier">>)

Middle(text) ==
  Following(Following(Following(text, <<"-serialnumber">>), <<"5e">>),
            <<"-rawcertpath">>)

Command(x, y) == Following(Middle(Following(Opening, x)), y)

(* FlattenSeq of what adds up to g.                                         *)
LEMMA FlattenIs ==
  ASSUME NEW n \in Nat \ {0}, NEW seqs, Len(seqs) = n
  PROVE  \A g : (\A i \in 1 .. n :
                   g[i] = IF i = 1 THEN seqs[i] ELSE g[i - 1] \o seqs[i])
                => FlattenSeq(seqs) = g[n]
<1> DEFINE Adds(h) ==
             h = [i \in 1 .. n |-> IF i = 1 THEN seqs[i] ELSE h[i - 1] \o seqs[i]]
<1>1. ASSUME NEW h, Adds(h)
      PROVE  FlattenSeq(seqs) = h[n]
  BY <1>1, FlattenAs, ZenonT(60)
<1>2. ASSUME NEW g,
             \A i \in 1 .. n : g[i] = IF i = 1 THEN seqs[i] ELSE g[i - 1] \o seqs[i]
      PROVE  \E h : Adds(h) /\ h[n] = g[n]
  <2>1. PICK h : h = [i \in 1 .. n |-> g[i]]
    OBVIOUS
  <2>2. \A i \in 1 .. n : i # 1 => i - 1 \in 1 .. n
    OBVIOUS
  <2>3. \A i \in 1 .. n : h[i] = IF i = 1 THEN seqs[i] ELSE h[i - 1] \o seqs[i]
    BY <1>2, <2>1, <2>2
  <2>4. Adds(h)
    BY <2>1, <2>3
  <2>5. h[n] = g[n]
    BY <2>1
  <2> HIDE DEF Adds
  <2> QED
    BY <2>4, <2>5
<1> HIDE DEF Adds
<1> QED
  BY <1>1, <1>2, Zenon

LEMMA FlattenSum ==
  ASSUME NEW n \in Nat \ {0}, NEW seqs, Len(seqs) = n
  PROVE  n = 7 =>
           \A g : /\ g[1] = seqs[1] /\ g[2] = g[1] \o seqs[2]
                  /\ g[3] = g[2] \o seqs[3] /\ g[4] = g[3] \o seqs[4]
                  /\ g[5] = g[4] \o seqs[5] /\ g[6] = g[5] \o seqs[6]
                  /\ g[7] = g[6] \o seqs[7]
                  => FlattenSeq(seqs) = g[n]
<1>1. \A f : (\A i \in 1 .. n :
                f[i] = IF i = 1 THEN seqs[i] ELSE f[i - 1] \o seqs[i])
             => FlattenSeq(seqs) = f[n]
  BY FlattenIs
<1>2. ASSUME n = 7, NEW g,
             g[1] = seqs[1], g[2] = g[1] \o seqs[2], g[3] = g[2] \o seqs[3],
             g[4] = g[3] \o seqs[4], g[5] = g[4] \o seqs[5],
             g[6] = g[5] \o seqs[6], g[7] = g[6] \o seqs[7]
      PROVE  FlattenSeq(seqs) = g[n]
  <2>1. ASSUME NEW i \in 1 .. n
        PROVE  g[i] = IF i = 1 THEN seqs[i] ELSE g[i - 1] \o seqs[i]
    <3>1. i = 1 \/ i = 2 \/ i = 3 \/ i = 4 \/ i = 5 \/ i = 6 \/ i = 7
      BY <1>2
    <3>2. 2 - 1 = 1 /\ 3 - 1 = 2 /\ 4 - 1 = 3 /\ 5 - 1 = 4 /\ 6 - 1 = 5 /\ 7 - 1 = 6
      OBVIOUS
    <3> QED
      BY <1>2, <3>1, <3>2
  <2> QED
    BY <1>1, <2>1
<1> QED
  BY <1>2

(* The arguments with the spaces that join them.                            *)
Spaced(args) == [i \in DOMAIN args |-> args[i] \o <<Space>>]

LEMMA SpacedIs ==
  ASSUME NEW n \in Nat, NEW args, DOMAIN args = 1 .. n
  PROVE  /\ Len(Spaced(args)) = n
         /\ \A i \in 1 .. n : Spaced(args)[i] = args[i] \o <<Space>>
BY DEF Spaced

LEMMA SevenApart ==
  ASSUME NEW a, NEW b, NEW c, NEW d, NEW e, NEW f, NEW h
  PROVE  LET t == <<a, b, c, d, e, f, h>>
         IN  /\ DOMAIN t = 1 .. 7
             /\ t[1] = a /\ t[2] = b /\ t[3] = c /\ t[4] = d /\ t[5] = e
             /\ t[6] = f /\ t[7] = h
OBVIOUS

LEMMA FlattenSeven ==
  ASSUME NEW args, DOMAIN args = 1 .. 7, NEW g,
         g[1] = args[1] \o <<Space>>,
         g[2] = Following(g[1], args[2]), g[3] = Following(g[2], args[3]),
         g[4] = Following(g[3], args[4]), g[5] = Following(g[4], args[5]),
         g[6] = Following(g[5], args[6]), g[7] = Following(g[6], args[7])
  PROVE  FlattenSeq(Spaced(args)) = g[7]
<1> DEFINE seqs == Spaced(args)
<1>1. PICK n \in Nat : n = 7
  OBVIOUS
<1>2. DOMAIN args = 1 .. n
  BY <1>1
<1>3. /\ Len(seqs) = n
      /\ \A i \in 1 .. n : seqs[i] = args[i] \o <<Space>>
  BY <1>2, SpacedIs
<1> HIDE DEF seqs
<1>4. /\ Len(seqs) = 7
      /\ seqs[1] = args[1] \o <<Space>> /\ seqs[2] = args[2] \o <<Space>>
      /\ seqs[3] = args[3] \o <<Space>> /\ seqs[4] = args[4] \o <<Space>>
      /\ seqs[5] = args[5] \o <<Space>> /\ seqs[6] = args[6] \o <<Space>>
      /\ seqs[7] = args[7] \o <<Space>>
  <2>1. \A i \in 1 .. 7 : seqs[i] = args[i] \o <<Space>>
    BY <1>1, <1>3
  <2>2. 1 \in 1 .. 7 /\ 2 \in 1 .. 7 /\ 3 \in 1 .. 7 /\ 4 \in 1 .. 7
        /\ 5 \in 1 .. 7 /\ 6 \in 1 .. 7 /\ 7 \in 1 .. 7
    OBVIOUS
  <2>3. Len(seqs) = 7
    BY <1>1, <1>3
  <2> QED
    BY <2>1, <2>2, <2>3, Zenon
<1>5. /\ g[1] = seqs[1] /\ g[2] = g[1] \o seqs[2] /\ g[3] = g[2] \o seqs[3]
      /\ g[4] = g[3] \o seqs[4] /\ g[5] = g[4] \o seqs[5]
      /\ g[6] = g[5] \o seqs[6] /\ g[7] = g[6] \o seqs[7]
  BY <1>4 DEF Following
<1>6. FlattenSeq(seqs) = g[7]
  <2>1. n \in Nat \ {0} /\ Len(seqs) = n
    BY <1>1, <1>3
  <2> QED
    BY <1>1, <1>5, <2>1, FlattenSum
<1> QED
  BY <1>6 DEF seqs

LEMMA WordText == \A w \in Word : <<w>> \in Seq(Letter)
<1>1. ASSUME NEW w \in Word
      PROVE  <<w>> \in Seq(Letter)
  <2>1. <<w>> \in Seq(Char)
    BY OneWord
  <2> QED
    BY <2>1, LetterOfChar
<1> QED
  BY <1>1

LEMMA CommandIs ==
  ASSUME NEW x, NEW y
  PROVE  FlattenSeq(Spaced(Dynamic(x, y))) = Command(x, y)
<1> DEFINE args == Dynamic(x, y)
<1>1. /\ DOMAIN args = 1 .. 7
      /\ args[1] = <<"certissued">> /\ args[2] = <<"-subjectkeyidentifier">>
      /\ args[3] = x /\ args[4] = <<"-serialnumber">> /\ args[5] = <<"5e">>
      /\ args[6] = <<"-rawcertpath">> /\ args[7] = y
  BY SevenApart DEF Dynamic
<1> HIDE DEF args
<1>2. PICK f1, f2, f3, f4, f5, f6, f7 :
        /\ f1 = args[1] \o <<Space>>
        /\ f2 = Following(f1, args[2]) /\ f3 = Following(f2, args[3])
        /\ f4 = Following(f3, args[4]) /\ f5 = Following(f4, args[5])
        /\ f6 = Following(f5, args[6]) /\ f7 = Following(f6, args[7])
  BY Zenon
<1>3. PICK g : /\ g[1] = f1 /\ g[2] = f2 /\ g[3] = f3 /\ g[4] = f4 /\ g[5] = f5
               /\ g[6] = f6 /\ g[7] = f7
  <2>1. PICK t : t = <<f1, f2, f3, f4, f5, f6, f7>>
    OBVIOUS
  <2>2. /\ t[1] = f1 /\ t[2] = f2 /\ t[3] = f3 /\ t[4] = f4 /\ t[5] = f5
        /\ t[6] = f6 /\ t[7] = f7
    BY <2>1, SevenApart
  <2> QED
    BY <2>2
<1>4. FlattenSeq(Spaced(args)) = f7
  <2>1. /\ g[1] = args[1] \o <<Space>>
        /\ g[2] = Following(g[1], args[2]) /\ g[3] = Following(g[2], args[3])
        /\ g[4] = Following(g[3], args[4]) /\ g[5] = Following(g[4], args[5])
        /\ g[6] = Following(g[5], args[6]) /\ g[7] = Following(g[6], args[7])
    BY <1>2, <1>3
  <2>2. FlattenSeq(Spaced(args)) = g[7]
    BY <1>1, <2>1, FlattenSeven
  <2> QED
    BY <1>3, <2>2
<1>5. f1 = Following(<<>>, <<"certissued">>)
  <2>1. args[1] \o <<Space>> \in Seq(Letter)
    <3>1. <<"certissued">> \in Seq(Letter)
      BY WordText DEF Word
    <3> QED
      BY <1>1, <3>1, Marks, Extended
  <2> QED
    BY <1>1, <1>2, <2>1, ConcatEmptySeq DEF Following
<1>6. f7 = Command(x, y)
  BY <1>1, <1>2, <1>5, Zenon DEF Command, Middle, Opening
<1> QED
  BY <1>4, <1>6 DEF args

LEMMA NextOf ==
  ASSUME NEW S, NEW D \in Seq(S), NEW k \in 0 .. Len(D) - 1
  PROVE  Append(SubSeq(D, 1, k), D[k + 1]) = SubSeq(D, 1, k + 1)
<1>1. SubSeq(D, 1, k) = [i \in 1 .. k |-> D[i]]
  OBVIOUS
<1>2. SubSeq(D, 1, k) \in Seq(S) /\ Len(SubSeq(D, 1, k)) = k
  OBVIOUS
<1>3. SubSeq(D, 1, k + 1) = [i \in 1 .. k + 1 |-> D[i]]
  OBVIOUS
<1> QED
  BY <1>1, <1>2, <1>3

(* The arguments of the event, of which the first k have been read.         *)
LEMMA DynamicIs ==
  ASSUME NEW s \in Seq(Letter), NEW t \in Seq(Letter)
  PROVE  LET D == Dynamic(s, t)
         IN  /\ D \in Seq(Seq(Letter)) /\ Len(D) = 7
             /\ D[1] = <<"certissued">> /\ D[2] = <<"-subjectkeyidentifier">>
             /\ D[3] = s /\ D[4] = <<"-serialnumber">> /\ D[5] = <<"5e">>
             /\ D[6] = <<"-rawcertpath">> /\ D[7] = t
             /\ SubSeq(D, 1, 0) = <<>> /\ SubSeq(D, 1, 7) = D
             /\ \A k \in 0 .. 6 : Append(SubSeq(D, 1, k), D[k + 1]) = SubSeq(D, 1, k + 1)
             /\ \A k \in 0 .. 7 : Len(SubSeq(D, 1, k)) = k
<1> DEFINE D == Dynamic(s, t)
<1>1. /\ <<"certissued">> \in Seq(Letter) /\ <<"-subjectkeyidentifier">> \in Seq(Letter)
      /\ <<"-serialnumber">> \in Seq(Letter) /\ <<"5e">> \in Seq(Letter)
      /\ <<"-rawcertpath">> \in Seq(Letter)
  BY WordText DEF Word
<1>2. /\ D \in Seq(Seq(Letter)) /\ Len(D) = 7
      /\ D[1] = <<"certissued">> /\ D[2] = <<"-subjectkeyidentifier">>
      /\ D[3] = s /\ D[4] = <<"-serialnumber">> /\ D[5] = <<"5e">>
      /\ D[6] = <<"-rawcertpath">> /\ D[7] = t
  BY <1>1, Seven DEF Dynamic
<1> HIDE DEF D
<1>3. SubSeq(D, 1, 0) = <<>>
  BY <1>2
<1>4. SubSeq(D, 1, 7) = D
  BY <1>2
<1>5. \A k \in 0 .. 6 : Append(SubSeq(D, 1, k), D[k + 1]) = SubSeq(D, 1, k + 1)
  BY <1>2, NextOf
<1>6. \A k \in 0 .. 7 : Len(SubSeq(D, 1, k)) = k
  BY <1>2
<1> QED
  BY <1>2, <1>3, <1>4, <1>5, <1>6 DEF D

(* One word more.                                                           *)
LEMMA WordRead ==
  ASSUME NEW s \in Seq(Letter), NEW t \in Seq(Letter), NEW text \in Seq(Letter),
         NEW k \in 0 .. 6, NEW w \in Word, Dynamic(s, t)[k + 1] = <<w>>,
         Fresh(TokenRead(text), SubSeq(Dynamic(s, t), 1, k))
  PROVE  /\ Following(text, <<w>>) \in Seq(Letter)
         /\ Fresh(TokenRead(Following(text, <<w>>)), SubSeq(Dynamic(s, t), 1, k + 1))
<1> DEFINE D == Dynamic(s, t)
<1>1. Append(SubSeq(D, 1, k), D[k + 1]) = SubSeq(D, 1, k + 1)
  BY DynamicIs
<1>2. Following(text, <<w>>) \in Seq(Letter)
  BY WordText, FollowingIs
<1>3. Fresh(TokenRead(Following(text, <<w>>)), Append(SubSeq(D, 1, k), <<w>>))
  BY TellWord
<1> QED
  BY <1>1, <1>2, <1>3

LEMMA OpeningRead ==
  ASSUME NEW s \in Seq(Letter), NEW t \in Seq(Letter)
  PROVE  /\ Opening \in Seq(Letter)
         /\ Fresh(TokenRead(Opening), SubSeq(Dynamic(s, t), 1, 2))
<1> DEFINE D == Dynamic(s, t)
           f == Following(<<>>, <<"certissued">>)
<1>1. /\ D[1] = <<"certissued">> /\ D[2] = <<"-subjectkeyidentifier">>
      /\ SubSeq(D, 1, 0) = <<>>
  BY DynamicIs
<1>2. <<>> \in Seq(Letter)
  OBVIOUS
<1>3. Fresh(TokenRead(<<>>), SubSeq(D, 1, 0))
  <2>1. TokenStart \in Teller
    BY <1>2 DEF TokenStart, Teller
  <2>2. /\ TokenStart.tokens = <<>> /\ TokenStart.token = <<>>
        /\ TokenStart.in = FALSE /\ TokenStart.quoted = FALSE
        /\ TokenStart.ended = FALSE
    BY DEF TokenStart
  <2> QED
    BY <1>1, <2>1, <2>2, TokenReadNothing DEF Fresh
<1>4. "certissued" \in Word /\ "-subjectkeyidentifier" \in Word
  BY DEF Word
<1> HIDE DEF D
<1>5. f \in Seq(Letter) /\ Fresh(TokenRead(f), SubSeq(D, 1, 1))
  <2>1. 0 \in 0 .. 6 /\ 0 + 1 = 1
    OBVIOUS
  <2> QED
    BY <1>1, <1>2, <1>3, <1>4, <2>1, WordRead DEF D
<1>6. Opening \in Seq(Letter) /\ Fresh(TokenRead(Opening), SubSeq(D, 1, 2))
  <2>1. 1 \in 0 .. 6 /\ 1 + 1 = 2 /\ Opening = Following(f, <<"-subjectkeyidentifier">>)
    BY DEF Opening
  <2> HIDE DEF f
  <2> QED
    BY <1>1, <1>4, <1>5, <2>1, WordRead DEF D
<1> QED
  BY <1>6 DEF D

LEMMA MiddleRead ==
  ASSUME NEW s \in Seq(Letter), NEW t \in Seq(Letter), NEW text \in Seq(Letter),
         Fresh(TokenRead(text), SubSeq(Dynamic(s, t), 1, 3))
  PROVE  /\ Middle(text) \in Seq(Letter)
         /\ Fresh(TokenRead(Middle(text)), SubSeq(Dynamic(s, t), 1, 6))
<1> DEFINE D == Dynamic(s, t)
           f == Following(text, <<"-serialnumber">>)
           g == Following(f, <<"5e">>)
<1>1. /\ D[4] = <<"-serialnumber">> /\ D[5] = <<"5e">> /\ D[6] = <<"-rawcertpath">>
  BY DynamicIs
<1>2. "-serialnumber" \in Word /\ "5e" \in Word /\ "-rawcertpath" \in Word
  BY DEF Word
<1>3. /\ 3 \in 0 .. 6 /\ 4 \in 0 .. 6 /\ 5 \in 0 .. 6
      /\ 3 + 1 = 4 /\ 4 + 1 = 5 /\ 5 + 1 = 6
  OBVIOUS
<1> HIDE DEF D
<1>4. f \in Seq(Letter) /\ Fresh(TokenRead(f), SubSeq(D, 1, 4))
  BY <1>1, <1>2, <1>3, WordRead DEF D
<1> HIDE DEF f
<1>5. g \in Seq(Letter) /\ Fresh(TokenRead(g), SubSeq(D, 1, 5))
  BY <1>1, <1>2, <1>3, <1>4, WordRead DEF D
<1>6. Middle(text) = Following(g, <<"-rawcertpath">>)
  BY DEF Middle, f
<1> HIDE DEF g
<1>7. Middle(text) \in Seq(Letter) /\ Fresh(TokenRead(Middle(text)), SubSeq(D, 1, 6))
  BY <1>1, <1>2, <1>3, <1>5, <1>6, WordRead DEF D
<1> QED
  BY <1>7 DEF D
(* What has been cut short in an earlier argument stays short, and a string *)
(* that is open stays open.                                                 *)
LEMMA ShortMiddle ==
  ASSUME NEW text \in Seq(Letter), NEW m \in Nat, NEW s,
         TokenRead(text) \in Teller, Short(TokenRead(text), m, s)
  PROVE  /\ Middle(text) \in Seq(Letter)
         /\ TokenRead(Middle(text)) \in Teller
         /\ Short(TokenRead(Middle(text)), m, s)
<1> DEFINE f == Following(text, <<"-serialnumber">>)
           g == Following(f, <<"5e">>)
<1>1. /\ <<"-serialnumber">> \in Seq(Letter) /\ <<"5e">> \in Seq(Letter)
      /\ <<"-rawcertpath">> \in Seq(Letter)
  BY WordText DEF Word
<1>2. /\ f \in Seq(Letter)
      /\ TokenRead(f) \in Teller /\ Short(TokenRead(f), m, s)
  BY <1>1, FollowingIs, ShortFollows
<1> HIDE DEF f
<1>3. /\ g \in Seq(Letter)
      /\ TokenRead(g) \in Teller /\ Short(TokenRead(g), m, s)
  BY <1>1, <1>2, FollowingIs, ShortFollows
<1>4. Middle(text) = Following(g, <<"-rawcertpath">>)
  BY DEF Middle, f
<1> HIDE DEF g
<1> QED
  BY <1>1, <1>3, <1>4, FollowingIs, ShortFollows

LEMMA MiddleInside ==
  ASSUME NEW text \in Seq(Letter), NEW m,
         TokenRead(text) \in Teller, TokenRead(text).quoted = TRUE,
         TokenRead(text).in = TRUE, Len(TokenRead(text).tokens) = m
  PROVE  LET q == TokenRead(Middle(text))
         IN  /\ Middle(text) \in Seq(Letter)
             /\ q \in Teller /\ q.quoted = TRUE /\ q.in = TRUE /\ Len(q.tokens) = m
<1> DEFINE f == Following(text, <<"-serialnumber">>)
           g == Following(f, <<"5e">>)
           Still(x) == /\ x \in Seq(Letter)
                       /\ TokenRead(x) \in Teller /\ TokenRead(x).quoted = TRUE
                       /\ TokenRead(x).in = TRUE /\ Len(TokenRead(x).tokens) = m
<1>1. ASSUME NEW x, Still(x), NEW w \in Word
      PROVE  Still(Following(x, <<w>>))
  BY <1>1, WordText, FollowingIs, StillInside
<1>2. "-serialnumber" \in Word /\ "5e" \in Word /\ "-rawcertpath" \in Word
  BY DEF Word
<1>3. Still(text)
  OBVIOUS
<1> HIDE DEF Still
<1>4. Still(f)
  BY <1>1, <1>2, <1>3
<1>5. Still(g)
  BY <1>1, <1>2, <1>4
<1>6. Still(Following(g, <<"-rawcertpath">>))
  BY <1>1, <1>2, <1>5
<1>7. Middle(text) = Following(g, <<"-rawcertpath">>)
  BY DEF Middle
<1> QED
  BY <1>6, <1>7 DEF Still

LEMMA TokensOfEvent ==
  ASSUME NEW x, NEW y
  PROVE  LET end == TokenRead(Command(x, y))
         IN  Tokens(Dynamic(x, y)) = IF end.quoted THEN <<>> ELSE end.tokens
<1> DEFINE args == Dynamic(x, y)
<1>1. FlattenSeq([i \in DOMAIN args |-> args[i] \o <<Space>>]) = Command(x, y)
  BY CommandIs DEF Spaced
<1> HIDE DEF args
<1> QED
  BY <1>1 DEF Tokens, args

-----------------------------------------------------------------------------
(* What PowerShell reads of the event                                       *)

(* Without an apostrophe in them, both strings are read as they are.        *)
LEMMA PlainEventRead ==
  ASSUME NEW s \in Seq(Letter), NEW t \in Seq(Letter),
         \A i \in 1 .. Len(s) : s[i] # Apostrophe,
         \A i \in 1 .. Len(t) : t[i] # Apostrophe
  PROVE  Tokens(Dynamic(EscapeArgumentForPS(s), EscapeArgumentForPS(t))) = Dynamic(s, t)
<1> DEFINE D == Dynamic(s, t)
           x == EscapeArgumentForPS(s)
           y == EscapeArgumentForPS(t)
           f == Following(Opening, x)
           g == Middle(f)
<1>1. /\ D[3] = s /\ D[7] = t /\ SubSeq(D, 1, 7) = D
      /\ Append(SubSeq(D, 1, 2), s) = SubSeq(D, 1, 3)
      /\ Append(SubSeq(D, 1, 6), t) = SubSeq(D, 1, 7)
  <2>1. \A k \in 0 .. 6 : Append(SubSeq(D, 1, k), D[k + 1]) = SubSeq(D, 1, k + 1)
    BY DynamicIs
  <2>2. D[3] = s /\ D[7] = t /\ SubSeq(D, 1, 7) = D
    BY DynamicIs
  <2>3. /\ 2 \in 0 .. 6 /\ 6 \in 0 .. 6 /\ 2 + 1 = 3 /\ 6 + 1 = 7
    OBVIOUS
  <2> HIDE DEF D
  <2> QED
    BY <2>1, <2>2, <2>3
<1>2. x \in Seq(Letter) /\ y \in Seq(Letter)
  BY EscapedText
<1>3. Opening \in Seq(Letter) /\ Fresh(TokenRead(Opening), SubSeq(D, 1, 2))
  BY OpeningRead
<1>4. f \in Seq(Letter) /\ Fresh(TokenRead(f), SubSeq(D, 1, 3))
  <2>1. Fresh(TokenRead(f), Append(SubSeq(D, 1, 2), s))
    BY <1>3, TellEscaped
  <2> HIDE DEF x
  <2> QED
    BY <1>1, <1>2, <1>3, <2>1, FollowingIs
<1> HIDE DEF f
<1>5. g \in Seq(Letter) /\ Fresh(TokenRead(g), SubSeq(D, 1, 6))
  BY <1>4, MiddleRead
<1> HIDE DEF g
<1>6. Fresh(TokenRead(Following(g, y)), SubSeq(D, 1, 7))
  <2>1. Fresh(TokenRead(Following(g, y)), Append(SubSeq(D, 1, 6), t))
    BY <1>5, TellEscaped
  <2> QED
    BY <1>1, <2>1
<1>7. Following(g, y) = Command(x, y)
  BY DEF Command, f, g
<1> HIDE DEF x, y
<1>8. Tokens(Dynamic(x, y)) = D
  <2>1. TokenRead(Command(x, y)).quoted = FALSE /\ TokenRead(Command(x, y)).tokens = D
    BY <1>1, <1>6, <1>7 DEF Fresh
  <2> HIDE DEF D
  <2> QED
    BY <2>1, TokensOfEvent
<1> QED
  BY <1>8 DEF x, y
(* With one in the identifier, either the third argument is too short, or a *)
(* string is still open behind it and the rest is too short for seven.      *)
LEMMA MarkedIdentifierRead ==
  ASSUME NEW s \in Seq(Letter), NEW t \in Seq(Letter),
         \E i \in 1 .. Len(s) : s[i] = Apostrophe
  PROVE  TokenRead(Command(EscapeArgumentForPS(s), EscapeArgumentForPS(t))).tokens
           # Dynamic(s, t)
<1> DEFINE D == Dynamic(s, t)
           x == EscapeArgumentForPS(s)
           y == EscapeArgumentForPS(t)
           f == Following(Opening, x)
           g == Middle(f)
           end == TokenRead(Following(g, y))
<1>1. D[3] = s /\ D[7] = t /\ Len(D) = 7 /\ Len(SubSeq(D, 1, 2)) = 2
  BY DynamicIs
<1>2. x \in Seq(Letter) /\ y \in Seq(Letter)
  BY EscapedText
<1>3. Opening \in Seq(Letter) /\ Fresh(TokenRead(Opening), SubSeq(D, 1, 2))
  BY OpeningRead
<1>4. f \in Seq(Letter)
  <2> HIDE DEF x
  <2> QED
    BY <1>2, <1>3, FollowingIs
<1>5. /\ TokenRead(f) \in Teller
      /\ \/ Short(TokenRead(f), 2, s)
         \/ /\ TokenRead(f).quoted = TRUE /\ TokenRead(f).in = TRUE
            /\ Len(TokenRead(f).tokens) = 2
  <2>1. PICK m \in Nat : m = 2
    OBVIOUS
  <2>2. PICK ts : ts = SubSeq(D, 1, 2)
    OBVIOUS
  <2>3. Fresh(TokenRead(Opening), ts) /\ Len(ts) = m
    BY <1>1, <1>3, <2>1, <2>2
  <2>4. /\ TokenRead(f) \in Teller
        /\ \/ Short(TokenRead(f), m, s)
           \/ /\ TokenRead(f).quoted = TRUE /\ TokenRead(f).in = TRUE
              /\ Len(TokenRead(f).tokens) = m
    <3> HIDE DEF D
    <3> QED
      BY <1>3, <2>3, TellMarked
  <2> HIDE DEF f
  <2> QED
    BY <2>1, <2>4
<1> HIDE DEF f
<1>6. CASE Short(TokenRead(f), 2, s)
  <2>1. /\ g \in Seq(Letter)
        /\ TokenRead(g) \in Teller /\ Short(TokenRead(g), 2, s)
    BY <1>4, <1>5, <1>6, ShortMiddle
  <2> HIDE DEF g, y
  <2>2. Short(end, 2, s)
    BY <1>2, <2>1, ShortFollows
  <2> HIDE DEF end, D
  <2>3. Len(s) \in Nat
    OBVIOUS
  <2> QED
    BY <1>1, <2>2, <2>3 DEF Short, end, g, y, D, f, Command
<1>7. CASE /\ TokenRead(f).quoted = TRUE /\ TokenRead(f).in = TRUE
           /\ Len(TokenRead(f).tokens) = 2
  <2>1. /\ g \in Seq(Letter)
        /\ TokenRead(g) \in Teller /\ TokenRead(g).quoted = TRUE
        /\ TokenRead(g).in = TRUE /\ Len(TokenRead(g).tokens) = 2
    BY <1>4, <1>5, <1>7, MiddleInside
  <2> HIDE DEF g
  <2>2. Counted(end, Len(t) + 2)
    BY <2>1, TellTooFew
  <2> HIDE DEF end, D
  <2>3. Len(t) \in Nat
    OBVIOUS
  <2>4. ASSUME end.tokens = D PROVE FALSE
    <3>1. Len(end.tokens) = 7 /\ end.tokens[7] = t
      BY <1>1, <2>4
    <3>2. 7 >= 7
      OBVIOUS
    <3>3. Len(t) + 5 <= Len(t) + 2
      BY <2>2, <3>1, <3>2 DEF Counted
    <3> QED
      BY <2>3, <3>3
  <2> QED
    BY <2>4 DEF end, g, D, f, Command
<1> QED
  BY <1>5, <1>6, <1>7

(* With one in the path alone, it is the last argument that is too short,   *)
(* or has no end.                                                           *)
LEMMA MarkedPathRead ==
  ASSUME NEW s \in Seq(Letter), NEW t \in Seq(Letter),
         \A i \in 1 .. Len(s) : s[i] # Apostrophe,
         \E i \in 1 .. Len(t) : t[i] = Apostrophe
  PROVE  LET end == TokenRead(Command(EscapeArgumentForPS(s), EscapeArgumentForPS(t)))
         IN  end.quoted = TRUE \/ end.tokens # Dynamic(s, t)
<1> DEFINE D == Dynamic(s, t)
           x == EscapeArgumentForPS(s)
           y == EscapeArgumentForPS(t)
           f == Following(Opening, x)
           g == Middle(f)
           end == TokenRead(Following(g, y))
<1>1. /\ D[7] = t /\ Len(SubSeq(D, 1, 6)) = 6
      /\ Append(SubSeq(D, 1, 2), s) = SubSeq(D, 1, 3)
  <2>1. \A k \in 0 .. 6 : Append(SubSeq(D, 1, k), D[k + 1]) = SubSeq(D, 1, k + 1)
    BY DynamicIs
  <2>2. D[3] = s /\ D[7] = t /\ Len(SubSeq(D, 1, 6)) = 6
    BY DynamicIs
  <2>3. 2 \in 0 .. 6 /\ 2 + 1 = 3
    OBVIOUS
  <2> HIDE DEF D
  <2> QED
    BY <2>1, <2>2, <2>3
<1>2. x \in Seq(Letter) /\ y \in Seq(Letter)
  BY EscapedText
<1>3. Opening \in Seq(Letter) /\ Fresh(TokenRead(Opening), SubSeq(D, 1, 2))
  BY OpeningRead
<1>4. f \in Seq(Letter) /\ Fresh(TokenRead(f), SubSeq(D, 1, 3))
  <2>1. Fresh(TokenRead(f), Append(SubSeq(D, 1, 2), s))
    BY <1>3, TellEscaped
  <2> HIDE DEF x
  <2> QED
    BY <1>1, <1>2, <1>3, <2>1, FollowingIs
<1> HIDE DEF f
<1>5. g \in Seq(Letter) /\ Fresh(TokenRead(g), SubSeq(D, 1, 6))
  BY <1>4, MiddleRead
<1> HIDE DEF g
<1>6. Short(end, 6, t) \/ end.quoted = TRUE
  BY <1>1, <1>5, TellMarked
<1>7. end.quoted = TRUE \/ end.tokens # D
  <2>1. Len(t) \in Nat
    OBVIOUS
  <2> HIDE DEF end, D
  <2> QED
    BY <1>1, <1>6, <2>1 DEF Short
<1> QED
  BY <1>7 DEF end, g, f, Command

LEMMA EventRead ==
  ASSUME NEW s \in Seq(Letter), NEW t \in Seq(Letter)
  PROVE  Tokens(Dynamic(EscapeArgumentForPS(s), EscapeArgumentForPS(t))) = Dynamic(s, t)
           <=> /\ \A i \in 1 .. Len(s) : s[i] # Apostrophe
               /\ \A i \in 1 .. Len(t) : t[i] # Apostrophe
<1> DEFINE D == Dynamic(s, t)
           x == EscapeArgumentForPS(s)
           y == EscapeArgumentForPS(t)
           end == TokenRead(Command(x, y))
           CleanS == \A i \in 1 .. Len(s) : s[i] # Apostrophe
           CleanT == \A i \in 1 .. Len(t) : t[i] # Apostrophe
<1>1. CleanS /\ CleanT => Tokens(Dynamic(x, y)) = D
  BY PlainEventRead
<1>2. ~ (CleanS /\ CleanT) => end.quoted = TRUE \/ end.tokens # D
  <2>1. ~ CleanS => end.tokens # D
    BY MarkedIdentifierRead
  <2>2. CleanS /\ ~ CleanT => end.quoted = TRUE \/ end.tokens # D
    BY MarkedPathRead
  <2> QED
    BY <2>1, <2>2
<1>3. Tokens(Dynamic(x, y)) = IF end.quoted THEN <<>> ELSE end.tokens
  BY TokensOfEvent
<1>4. D # <<>>
  <2>1. D \in Seq(Seq(Letter)) /\ Len(D) = 7
    BY DynamicIs
  <2> HIDE DEF D
  <2>2. ASSUME D = <<>> PROVE FALSE
    <3>1. Len(D) = 0
      BY <2>2
    <3> QED
      BY <2>1, <3>1
  <2> QED
    BY <2>2
<1> HIDE DEF D, x, y, end
<1>5. ~ (CleanS /\ CleanT) => Tokens(Dynamic(x, y)) # D
  BY <1>2, <1>3, <1>4
<1> QED
  BY <1>1, <1>5 DEF D, x, y
-----------------------------------------------------------------------------
(* The event in the arguments that the program gets                         *)

LEMMA EndOf ==
  ASSUME NEW S, NEW u \in Seq(S), NEW v \in Seq(S)
  PROVE  SubSeq(u \o v, Len(u) + 1, Len(u) + Len(v)) = v
<1>1. PICK m \in Nat, n \in Nat : m = Len(u) /\ n = Len(v)
  OBVIOUS
<1>2. /\ u \o v \in Seq(S) /\ Len(u \o v) = m + n
      /\ \A i \in 1 .. n : (u \o v)[m + i] = v[i]
  <2>1. \A i \in 1 .. n : m + i \in 1 .. m + n /\ ~ (m + i <= m) /\ (m + i) - m = i
    OBVIOUS
  <2>2. /\ u \o v \in Seq(S) /\ Len(u \o v) = m + n
        /\ \A i \in 1 .. m + n :
             (u \o v)[i] = IF i <= m THEN u[i] ELSE v[i - m]
    BY <1>1, ConcatProperties
  <2> QED
    BY <2>1, <2>2
<1>3. PICK w \in Seq(S) : w = SubSeq(u \o v, m + 1, m + n)
  <2>1. SubSeq(u \o v, m + 1, m + n) \in Seq(S)
    BY <1>2, SubSeqProperties
  <2> QED
    BY <2>1
<1>4. Len(w) = n /\ \A i \in 1 .. n : w[i] = (u \o v)[m + i]
  <2> DEFINE x == u \o v
  <2>1. x \in Seq(S) /\ Len(x) = m + n /\ w = SubSeq(x, m + 1, m + n)
    BY <1>2, <1>3
  <2> HIDE DEF x
  <2>2. PICK a \in Int, b \in Int : a = m + 1 /\ b = m + n
    OBVIOUS
  <2>3. \A k \in a .. b : x[k] \in S
    BY <2>1, <2>2
  <2>4. /\ Len(SubSeq(x, a, b)) = IF a <= b THEN b - a + 1 ELSE 0
        /\ \A i \in 1 .. b - a + 1 : SubSeq(x, a, b)[i] = x[a + i - 1]
    BY <2>3, SubSeqProperties
  <2>5. /\ w = SubSeq(x, a, b) /\ b - a + 1 = n /\ (a <= b <=> n >= 1)
        /\ \A i \in 1 .. n : a + i - 1 = m + i
    BY <2>1, <2>2
  <2>6. Len(w) = n /\ \A i \in 1 .. n : w[i] = x[m + i]
    BY <2>4, <2>5
  <2> QED
    BY <2>6 DEF x
<1>5. w = v
  <2>1. Len(w) = Len(v) /\ \A i \in 1 .. Len(v) : w[i] = v[i]
    BY <1>1, <1>2, <1>4
  <2>2. w \in Seq(S)
    BY <1>3
  <2> QED
    BY <2>1, <2>2, SeqEqual
<1> QED
  BY <1>1, <1>3, <1>5

LEMMA LastSeven ==
  ASSUME NEW S, NEW w \in Seq(S), NEW v \in Seq(S), Len(v) = 7,
         NEW argv, argv = w \o v
  PROVE  SubSeq(argv, Len(argv) - 6, Len(argv)) = v
<1>1. Len(w) \in Nat /\ Len(argv) = Len(w) + Len(v)
  <2>1. Len(w \o v) = Len(w) + Len(v)
    BY ConcatProperties, Zenon
  <2> QED
    BY <2>1
<1>2. Len(argv) - 6 = Len(w) + 1
  BY <1>1
<1>3. SubSeq(argv, Len(w) + 1, Len(w) + Len(v)) = v
  BY EndOf
<1> QED
  BY <1>1, <1>2, <1>3

(* Whatever the registered arguments are, a PowerShell processor that gets  *)
(* its arguments as given reads both strings of the event as they are, if   *)
(* neither has an apostrophe, and otherwise never does.                     *)
THEOREM EventIsReceived == Spec => []PowerShellReceives
<1>1. WalkInv /\ LineInv => PowerShellReceives
  <2> DEFINE argv == Argv(m_bufCmdLine.text)
             x == EscapeArgumentForPS(ski)
             y == EscapeArgumentForPS(path)
  <2> SUFFICES ASSUME WalkInv, LineInv, pc = "launched", m_fEscapeForPS,
                      argv = <<exe>> \o bufArgs
               PROVE  Tokens(SubSeq(argv, Len(argv) - 6, Len(argv))) = Dynamic(ski, path)
                        <=> Apostrophe \notin Range(ski) \cup Range(path)
    BY DEF PowerShellReceives
  <2>1. /\ ski \in Seq(STRING) /\ path \in Seq(STRING) /\ exe \in Seq(STRING)
        /\ bufArgs = BaseArguments \o EventArguments
    BY StringFacts DEF LineInv
  <2>2. ski \in Seq(Letter) /\ path \in Seq(Letter) /\ exe \in Seq(Char)
    BY <2>1, StringIsChars, LetterOfChar
  <2>3. /\ BaseArguments \in Seq(Seq(Char)) /\ EventArguments \in Seq(Seq(Char))
        /\ Len(EventArguments) = 7
    BY <2>1, BaseFacts, EventFacts DEF WalkInv, Walked
  <2>4. EventArguments = Dynamic(x, y)
    BY DEF EventArguments
  <2> HIDE DEF argv, x, y
  <2>5. SubSeq(argv, Len(argv) - 6, Len(argv)) = Dynamic(x, y)
    <3>1. PICK e, u, v : e = <<exe>> /\ u = BaseArguments /\ v = EventArguments
      BY Zenon
    <3>2. /\ e \in Seq(Seq(Char)) /\ u \in Seq(Seq(Char)) /\ v \in Seq(Seq(Char))
          /\ Len(v) = 7
      BY <2>2, <2>3, <3>1, One
    <3>3. PICK w : w = e \o u
      OBVIOUS
    <3>4. w \in Seq(Seq(Char))
      BY <3>2, <3>3, ConcatProperties
    <3>5. argv = w \o v
      <4>1. argv = e \o (u \o v)
        BY <2>1, <3>1, Zenon
      <4>2. (e \o u) \o v = e \o (u \o v)
        <5>1. PICK S : e \in Seq(S) /\ u \in Seq(S) /\ v \in Seq(S)
          BY <3>2, Zenon
        <5> QED
          BY <5>1
      <4> QED
        BY <3>2, <3>3, <4>1, <4>2, Zenon
    <3>6. SubSeq(argv, Len(argv) - 6, Len(argv)) = v
      BY <3>2, <3>4, <3>5, LastSeven
    <3> QED
      BY <2>4, <3>1, <3>6
  <2>6. Tokens(Dynamic(x, y)) = Dynamic(ski, path)
          <=> /\ \A i \in 1 .. Len(ski) : ski[i] # Apostrophe
              /\ \A i \in 1 .. Len(path) : path[i] # Apostrophe
    BY <2>2, EventRead DEF x, y
  <2>7. /\ Apostrophe \in Range(ski) <=> \E i \in 1 .. Len(ski) : ski[i] = Apostrophe
        /\ Apostrophe \in Range(path) <=> \E i \in 1 .. Len(path) : path[i] = Apostrophe
    BY <2>2, RangeOf
  <2> QED
    BY <2>5, <2>6, <2>7
<1> QED
  BY <1>1, Invariance, LineInvariance, PTL
=============================================================================
