------------------------- MODULE OutcomeExchangeProofs -------------------------
(***************************************************************************)
(* For payloads of any dicts with any keys: what an envelope promises an   *)
(* honest signer.  The heart of it is that texts are in a total order, so  *)
(* that a dict whose numbers are never swapped sorts as its texts do, and  *)
(* that the digits of one width are in the order of their numbers.         *)
(***************************************************************************)
EXTENDS OutcomeExchange, WellFoundedInduction, TLAPS

(* What has been signed is what the signer has; what arrives is the decoded payload,
   unless there was no JSON for it, with the hash of the signer's. *)
SignedFits ==
  stage \in {"signed", "stored", "sent"} =>
    /\ signed = Content(payload, PayloadHash(payload))
    /\ Serialisable(payload)

SentFits ==
  stage = "sent" =>
    /\ sent.hash = PayloadHash(payload)
    /\ payload.value = "nan" \/ sent.payload = Decoded(payload)

Unstored == stage \in {"made", "signed"} => ~pending

EInv ==
  /\ TypeOK /\ SignedFits /\ SentFits /\ Unstored
  /\ DisputeExplained /\ HashFollows /\ OrphanExplained
--------------------------------------------------------------------------------
(* Naturals have a least element. *)
LEMMA Least ==
  ASSUME NEW T \in SUBSET Nat, T # {}
  PROVE  \E x \in T: \A y \in T: x <= y
<1>1. PICK R: R = {ss \in Nat \X Nat: ss[1] < ss[2]}
  OBVIOUS
<1>2. PICK x \in T: \A y \in T: ~ (<<y, x>> \in R)
  BY <1>1, NatLessThanWellFounded, WFMin DEF OpToRel
<1>3. ASSUME NEW y \in T
      PROVE  x <= y
  <2>1. <<y, x>> \in Nat \X Nat /\ <<y, x>>[1] = y /\ <<y, x>>[2] = x
    OBVIOUS
  <2>2. QED
    BY <1>1, <1>2, <2>1
<1>4. QED
  BY <1>3

(* One more digit. *)
LEMMA DigitAdded ==
  ASSUME NEW a \in Nat, NEW b \in Nat, NEW x \in 0..9, NEW y \in 0..9
  PROVE  /\ 10 * a + x \in Nat
         /\ a < b \/ (a = b /\ x < y) => 10 * a + x < 10 * b + y
<1>1. x \in Int /\ 0 <= x /\ x <= 9 /\ y \in Int /\ 0 <= y /\ y <= 9
  OBVIOUS
<1>2. ASSUME a < b
      PROVE  10 * a + x < 10 * b + y
  BY <1>1, <1>2
<1>3. QED
  BY <1>1, <1>2

Digits == Seq(0..9)

(* v is the number that the first digits of a text write, up to the m-th. *)
Counts(v, m, text) ==
  /\ v \in [0..m -> Nat]
  /\ v[0] = 0
  /\ \A i \in 1..m: v[i] = 10 * v[i - 1] + text[i]

(* Such a v exists: the shortest stretch of the text without one would follow a
   shorter stretch that has one. *)
LEMMA CountExists ==
  ASSUME NEW text \in Digits
  PROVE  \E v: Counts(v, Len(text), text)
<1> DEFINE T == {m \in 0..Len(text): ~ \E v: Counts(v, m, text)}
<1>1. Len(text) \in Nat /\ \A i \in 1..Len(text): text[i] \in 0..9
  BY DEF Digits
<1>2. SUFFICES ASSUME T # {}
               PROVE  FALSE
  BY <1>1
<1>3. PICK m \in T: \A k \in T: m <= k
  <2>1. T \in SUBSET Nat
    BY <1>1
  <2>2. QED
    BY <1>2, <2>1, Least
<1>4. m \in 0..Len(text) /\ m \in Nat
  BY <1>1, <1>3
<1>5. CASE m = 0
  <2> DEFINE v == [i \in 0..0 |-> 0]
  <2>1. Counts(v, 0, text)
    BY DEF Counts
  <2>2. QED
    BY <1>3, <1>5, <2>1
<1>6. CASE m # 0
  <2>1. m - 1 \in 0..Len(text) /\ m - 1 \in Nat /\ ~(m <= m - 1) /\ m \in 1..Len(text)
    BY <1>1, <1>4, <1>6
  <2>2. PICK v: Counts(v, m - 1, text)
    BY <1>3, <2>1
  <2> DEFINE w == [i \in 0..m |-> IF i = m THEN 10 * v[m - 1] + text[m] ELSE v[i]]
  <2>3. v \in [0..(m - 1) -> Nat] /\ v[0] = 0 /\ v[m - 1] \in Nat
    BY <2>1, <2>2 DEF Counts
  <2>4. 10 * v[m - 1] + text[m] \in Nat
    <3>1. text[m] \in 0..9
      BY <1>1, <2>1
    <3>2. QED
      BY <2>3, <3>1, DigitAdded
  <2>5. ASSUME NEW i \in 0..m, i # m
        PROVE  i \in 0..(m - 1)
    BY <1>4, <2>5
  <2>6. w \in [0..m -> Nat]
    BY <2>3, <2>4, <2>5
  <2>7. w[0] = 0
    BY <2>1, <2>3
  <2>8. ASSUME NEW i \in 1..m
        PROVE  w[i] = 10 * w[i - 1] + text[i]
    <3>1. i \in 0..m /\ i - 1 \in 0..m /\ i - 1 # m
      BY <1>4
    <3>2. CASE i = m
      BY <3>1, <3>2
    <3>3. CASE i # m
      <4>1. i \in 1..(m - 1)
        BY <1>4, <3>3
      <4>2. v[i] = 10 * v[i - 1] + text[i]
        BY <2>2, <4>1 DEF Counts
      <4>3. QED
        BY <3>1, <3>3, <4>2
    <3>4. QED
      BY <3>2, <3>3
  <2>9. Counts(w, m, text)
    BY <2>6, <2>7, <2>8 DEF Counts
  <2>10. QED
    BY <1>3, <2>9
<1>7. QED
  BY <1>5, <1>6

(* The recursion of UpTo computes it. *)
LEMMA UpToCounts ==
  ASSUME NEW text \in Digits
  PROVE  Counts(UpTo(text), Len(text), text)
<1> DEFINE D == 0..Len(text)
           Step(v) == [n \in D |-> IF n = 0 THEN 0 ELSE 10 * v[n - 1] + text[n]]
<1>1. Len(text) \in Nat
  BY DEF Digits
<1>2. PICK v: Counts(v, Len(text), text)
  BY CountExists
<1>3. v = Step(v)
  <2>1. ASSUME NEW n \in D
        PROVE  v[n] = IF n = 0 THEN 0 ELSE 10 * v[n - 1] + text[n]
    <3>1. n # 0 => n \in 1..Len(text)
      BY <1>1
    <3>2. QED
      BY <1>2, <3>1 DEF Counts
  <2>2. v \in [D -> Nat]
    BY <1>2 DEF Counts
  <2>3. QED
    BY <2>1, <2>2
<1>4. UpTo(text) = CHOOSE w: w = Step(w)
  BY DEF UpTo
<1>5. UpTo(text) = Step(UpTo(text))
  BY <1>3, <1>4
<1> DEFINE w == UpTo(text)
           E == {n \in D: w[n] # v[n]}
<1>6. w = Step(w)
  BY <1>5
<1> HIDE DEF w
<1>7. ASSUME E # {}
      PROVE  FALSE
  <2>1. E \in SUBSET Nat
    BY <1>1
  <2>2. PICK n \in E: \A k \in E: n <= k
    BY <1>7, <2>1, Least
  <2>3. n \in D /\ n \in Nat /\ w[n] # v[n]
    BY <1>1, <2>2
  <2>4. w[0] = 0 /\ v[0] = 0
    BY <1>1, <1>2, <1>6 DEF Counts
  <2>5. n - 1 \in D /\ ~(n <= n - 1)
    BY <1>1, <2>3, <2>4
  <2>6. w[n - 1] = v[n - 1]
    BY <2>2, <2>5
  <2>7. w[n] = 10 * w[n - 1] + text[n]
    BY <1>6, <2>3, <2>4
  <2>8. v[n] = 10 * v[n - 1] + text[n]
    BY <1>3, <2>3, <2>4
  <2>9. QED
    BY <2>3, <2>6, <2>7, <2>8
<1>8. w = v
  <2>1. w = [n \in D |-> w[n]]
    BY <1>6
  <2>2. v = [n \in D |-> v[n]]
    BY <1>3
  <2>3. \A n \in D: w[n] = v[n]
    BY <1>7
  <2>4. QED
    BY <2>1, <2>2, <2>3
<1>9. QED
  BY <1>2, <1>8 DEF w

(* A text is a sequence of integers. *)
LEMMA TextTyped ==
  ASSUME NEW s \in Text
  PROVE  Len(s) \in Nat /\ \A i \in 1..Len(s): s[i] \in Int
<1>1. s \in Seq(Char)
  BY DEF Text
<1>2. Len(s) \in Nat /\ \A i \in 1..Len(s): s[i] \in Char
  BY <1>1
<1>3. \A x \in Char: x \in Int
  BY CharAssumption
<1>4. QED
  BY <1>2, <1>3

(* None comes before itself. *)
LEMMA TextsApart ==
  ASSUME NEW s \in Text
  PROVE  ~TextBefore(s, s)
<1> SUFFICES ASSUME NEW n \in 0..Len(s), n < Len(s), s[n + 1] < s[n + 1]
             PROVE  FALSE
  BY DEF TextBefore
<1>1. Len(s) \in Nat /\ \A i \in 1..Len(s): s[i] \in Int
  BY TextTyped
<1>2. s[n + 1] \in Int
  BY <1>1
<1>3. QED
  BY <1>2

(* Of two texts that differ one comes first: at their first difference, or where the
   shorter one ends. *)
LEMMA TextsTotal ==
  ASSUME NEW s \in Text, NEW t \in Text, s # t
  PROVE  TextBefore(s, t) \/ TextBefore(t, s)
<1> DEFINE E == {n \in 1..Len(s): n > Len(t) \/ s[n] # t[n]}
<1>1. /\ Len(s) \in Nat /\ \A i \in 1..Len(s): s[i] \in Int
      /\ Len(t) \in Nat /\ \A i \in 1..Len(t): t[i] \in Int
  BY TextTyped
<1>2. CASE E = {}
  <2>1. Len(s) <= Len(t) /\ \A i \in 1..Len(s): s[i] = t[i]
    <3>1. \A i \in 1..Len(s): i <= Len(t) /\ s[i] = t[i]
      BY <1>1, <1>2
    <3>2. Len(s) # 0 => Len(s) \in 1..Len(s)
      BY <1>1
    <3>3. QED
      BY <1>1, <3>1, <3>2
  <2>2. Len(s) # Len(t)
    <3>1. s = [i \in 1..Len(s) |-> s[i]] /\ t = [i \in 1..Len(t) |-> t[i]]
      BY DEF Text
    <3>2. QED
      BY <2>1, <3>1
  <2>3. Len(s) \in 0..Len(s) /\ Len(s) < Len(t)
    BY <1>1, <2>1, <2>2
  <2>4. QED
    BY <2>1, <2>3 DEF TextBefore
<1>3. CASE E # {}
  <2>1. PICK n \in E: \A k \in E: n <= k
    <3>1. E \in SUBSET Nat
      BY <1>1
    <3>2. QED
      BY <1>3, <3>1, Least
  <2>2. /\ n \in 1..Len(s) /\ n - 1 \in 0..Len(s) /\ (n - 1) + 1 = n /\ n - 1 < Len(s)
        /\ n > Len(t) \/ s[n] # t[n]
    BY <1>1, <2>1
  <2>3. ASSUME NEW i \in 1..(n - 1)
        PROVE  i <= Len(t) /\ s[i] = t[i]
    <3>1. i \in 1..Len(s) /\ ~(n <= i)
      BY <1>1, <2>2
    <3>2. QED
      BY <1>1, <2>1, <3>1
  <2>4. n - 1 <= Len(t)
    <3>1. n - 1 # 0 => n - 1 \in 1..(n - 1)
      BY <1>1, <2>2
    <3>2. QED
      BY <1>1, <2>3, <3>1
  <2>5. n - 1 \in 0..Len(t)
    BY <1>1, <2>2, <2>4
  <2>6. CASE n > Len(t)
    <3>1. n - 1 = Len(t)
      BY <1>1, <2>2, <2>4, <2>6
    <3>2. QED
      BY <2>2, <2>3, <2>5, <3>1 DEF TextBefore
  <2>7. CASE n <= Len(t)
    <3>1. n - 1 < Len(t) /\ n \in 1..Len(t) /\ s[n] # t[n]
      BY <1>1, <2>2, <2>7
    <3>2. s[n] < t[n] \/ t[n] < s[n]
      BY <1>1, <2>2, <3>1
    <3>3. CASE s[n] < t[n]
      <4>1. TextBefore(s, t)
        BY <2>2, <2>3, <3>1, <3>3 DEF TextBefore
      <4>2. QED
        BY <4>1
    <3>4. CASE t[n] < s[n]
      <4>1. \A i \in 1..(n - 1): t[i] = s[i]
        BY <2>3
      <4>2. TextBefore(t, s)
        BY <2>2, <2>5, <3>4, <4>1 DEF TextBefore
      <4>3. QED
        BY <4>2
    <3>5. QED
      BY <3>2, <3>3, <3>4
  <2>8. QED
    BY <1>1, <2>2, <2>6, <2>7
<1>4. QED
  BY <1>2, <1>3

(* The text that comes first writes the smaller number: at their first difference it
   falls behind by one at least, which no later digit makes good. *)
LEMMA BeforeMeansLess ==
  ASSUME NEW s \in Digits, NEW t \in Digits, Len(s) = Len(t), TextBefore(s, t)
  PROVE  Number(s) < Number(t)
<1> DEFINE v == UpTo(s)
           w == UpTo(t)
           L == Len(s)
<1>1. L \in Nat /\ \A i \in 1..L: s[i] \in 0..9 /\ t[i] \in 0..9
  BY DEF Digits
<1>2. Counts(v, L, s) /\ Counts(w, L, t)
  BY UpToCounts
<1>3. PICK n \in 0..L: n < L /\ (\A i \in 1..n: s[i] = t[i]) /\ s[n + 1] < t[n + 1]
  BY DEF TextBefore
<1> HIDE DEF v, w
<1>4. \A i \in 0..L: v[i] \in Nat /\ w[i] \in Nat
  BY <1>2 DEF Counts
<1>5. ASSUME NEW i \in 1..L
      PROVE  /\ i - 1 \in 0..L
             /\ v[i] = 10 * v[i - 1] + s[i] /\ w[i] = 10 * w[i - 1] + t[i]
  BY <1>1, <1>2 DEF Counts
<1>6. v[n] = w[n]
  <2> DEFINE E == {i \in 0..n: v[i] # w[i]}
  <2>1. SUFFICES ASSUME E # {}
                 PROVE  FALSE
    BY <1>1, <1>3
  <2>2. PICK i \in E: \A k \in E: i <= k
    <3>1. E \in SUBSET Nat
      BY <1>1, <1>3
    <3>2. QED
      BY <2>1, <3>1, Least
  <2>3. i # 0
    BY <1>2, <2>2 DEF Counts
  <2>4. i \in 1..L /\ i \in 1..n /\ i - 1 \in 0..n /\ ~(i <= i - 1)
    BY <1>1, <1>3, <2>2, <2>3
  <2>5. v[i - 1] = w[i - 1]
    BY <2>2, <2>4
  <2>6. s[i] = t[i]
    BY <1>3, <2>4
  <2>7. QED
    BY <1>5, <2>2, <2>4, <2>5, <2>6
<1>7. v[L] < w[L]
  <2> DEFINE E == {i \in (n + 1)..L: ~(v[i] < w[i])}
  <2>1. SUFFICES ASSUME E # {}
                 PROVE  FALSE
    BY <1>1, <1>3
  <2>2. PICK i \in E: \A k \in E: i <= k
    <3>1. E \in SUBSET Nat
      BY <1>1, <1>3
    <3>2. QED
      BY <2>1, <3>1, Least
  <2>3. i \in 1..L /\ i \in (n + 1)..L /\ i - 1 \in 0..L /\ ~(i <= i - 1) /\ ~(v[i] < w[i])
    BY <1>1, <1>3, <2>2
  <2>4. v[i] = 10 * v[i - 1] + s[i] /\ w[i] = 10 * w[i - 1] + t[i]
    BY <1>5, <2>3
  <2>5. CASE i = n + 1
    <3>1. i - 1 = n
      BY <1>3, <2>5
    <3>2. v[i - 1] = w[i - 1] /\ s[i] < t[i]
      BY <1>3, <1>6, <2>5, <3>1
    <3>3. v[i - 1] \in Nat /\ w[i - 1] \in Nat /\ s[i] \in 0..9 /\ t[i] \in 0..9
      BY <1>1, <1>4, <2>3
    <3>4. 10 * v[i - 1] + s[i] < 10 * w[i - 1] + t[i]
      BY <3>2, <3>3, DigitAdded
    <3>5. QED
      BY <2>3, <2>4, <3>4
  <2>6. CASE i # n + 1
    <3>1. i - 1 \in (n + 1)..L
      BY <1>1, <1>3, <2>3, <2>6
    <3>2. v[i - 1] < w[i - 1]
      BY <2>2, <2>3, <3>1
    <3>3. /\ v[i - 1] \in Nat /\ w[i - 1] \in Nat
          /\ s[i] \in 0..9 /\ t[i] \in 0..9
      BY <1>1, <1>4, <2>3
    <3>4. 10 * v[i - 1] + s[i] < 10 * w[i - 1] + t[i]
      BY <3>2, <3>3, DigitAdded
    <3>5. QED
      BY <2>3, <2>4, <3>4
  <2>7. QED
    BY <2>5, <2>6
<1>8. QED
  BY <1>7 DEF Number, v, w

(* The dicts of a payload. *)
LEMMA DictTyped ==
  ASSUME NEW p \in Payload, NEW at \in Place
  PROVE  /\ p \in [dicts: [Place -> Seq(Key)], value: Value]
         /\ p.dicts[at] \in Seq(Key)
         /\ \A k \in Range(p.dicts[at]): k \in Key
<1>1. p \in [dicts: [Place -> Seq(Key)], value: Value]
  BY PayloadAssumption
<1>2. p.dicts[at] \in Seq(Key)
  BY <1>1
<1>3. QED
  BY <1>1, <1>2 DEF Range

(* What is assumed of its keys. *)
LEMMA KeysApart ==
  ASSUME NEW p \in Payload, NEW at \in Place,
         NEW k \in Range(p.dicts[at]), NEW l \in Range(p.dicts[at])
  PROVE  /\ k.kind = l.kind /\ k # l =>
              k.text # l.text /\ (k.kind = "num" => k.number # l.number)
         /\ Natural(k) /\ Natural(l) =>
              (k.number < l.number <=> Number(k.text) < Number(l.text))
BY PayloadAssumption

(* Natural numbers of one width are never swapped. *)
LEMMA WidthKept ==
  ASSUME NEW p \in Payload, NEW at \in Place, NaturalsOfOneWidth(p.dicts[at])
  PROVE  ~Swapped(p.dicts[at])
<1> SUFFICES ASSUME NEW k \in Range(p.dicts[at]), NEW l \in Range(p.dicts[at]),
                    k.number < l.number, TextBefore(l.text, k.text)
             PROVE  FALSE
  BY DEF Swapped
<1>1. /\ Natural(k) /\ Natural(l) /\ Len(l.text) = Len(k.text)
      /\ k.text \in Digits /\ l.text \in Digits
  BY DEF NaturalsOfOneWidth, Natural, Decimal, Digits
<1>2. Number(k.text) < Number(l.text)
  BY <1>1, KeysApart
<1>3. Number(l.text) < Number(k.text)
  BY <1>1, BeforeMeansLess
<1>4. Number(k.text) \in Nat /\ Number(l.text) \in Nat
  <2>1. ASSUME NEW t \in Digits
        PROVE  Number(t) \in Nat
    <3>1. Len(t) \in 0..Len(t)
      BY DEF Digits
    <3>2. QED
      BY <3>1, UpToCounts DEF Number, Counts
  <2>2. QED
    BY <1>1, <2>1
<1>5. QED
  BY <1>2, <1>3, <1>4

(* JSON turns every key into a string and changes no text. *)
LEMMA StringsOf ==
  ASSUME NEW d \in Seq(Key)
  PROVE  /\ \A k \in Range(Strings(d)): k.kind = "str"
         /\ \A k \in Range(d): \E l \in Range(Strings(d)): l.text = k.text
         /\ \A l \in Range(Strings(d)): \E k \in Range(d): l.text = k.text
         /\ Texts(Strings(d)) = Texts(d)
         /\ Len(Strings(d)) = Len(d)
<1> DEFINE e == Strings(d)
<1>1. e = [i \in DOMAIN d |-> [kind |-> "str", text |-> d[i].text, number |-> 0]]
  BY DEF Strings
<1>2. \A i \in DOMAIN d: e[i].kind = "str" /\ e[i].text = d[i].text
  BY <1>1
<1>3. DOMAIN e = DOMAIN d /\ Len(e) = Len(d)
  BY <1>1
<1> HIDE DEF e
<1>4. Range(e) = {e[i]: i \in DOMAIN d} /\ Range(d) = {d[i]: i \in DOMAIN d}
  BY <1>3 DEF Range
<1>5. /\ \A k \in Range(e): k.kind = "str"
      /\ \A k \in Range(d): \E l \in Range(e): l.text = k.text
      /\ \A l \in Range(e): \E k \in Range(d): l.text = k.text
  BY <1>2, <1>4
<1>6. Texts(e) = Texts(d)
  BY <1>5 DEF Texts
<1>7. QED
  BY <1>3, <1>5, <1>6 DEF e

(* Where no numbers are swapped keys stay in their order when they become strings. *)
LEMMA OrderKept ==
  ASSUME NEW p \in Payload, NEW at \in Place,
         Sortable(p.dicts[at]), ~Swapped(p.dicts[at]),
         NEW s \in Texts(p.dicts[at]), NEW t \in Texts(p.dicts[at])
  PROVE  Before(Strings(p.dicts[at]), s, t) <=> Before(p.dicts[at], s, t)
<1> DEFINE d == p.dicts[at]
           e == Strings(d)
<1>1. d \in Seq(Key) /\ \A k \in Range(d): k \in Key
  BY DictTyped
<1>2. /\ \A k \in Range(e): k.kind = "str"
      /\ \A k \in Range(d): \E l \in Range(e): l.text = k.text
  BY <1>1, StringsOf
<1>3. PICK k \in Range(d), l \in Range(d): k.text = s /\ l.text = t
  BY DEF Texts
<1>4. Before(e, s, t) <=> TextBefore(s, t)
  BY <1>2, <1>3 DEF Before, KeyBefore
<1>5. \A x, y \in Range(d): x.kind = y.kind /\ x.text = y.text => x = y
  BY KeysApart
<1>6. CASE \A x \in Range(d): x.kind = "num"
  <2>1. \A x, y \in Range(d): x.text = y.text => x = y
    BY <1>5, <1>6
  <2>2. Before(d, s, t) <=> k.number < l.number
    BY <1>3, <1>6, <2>1 DEF Before, KeyBefore
  <2>3. CASE k = l
    <3>1. ~(k.number < k.number)
      BY <1>1 DEF Key
    <3>2. ~TextBefore(s, s)
      BY <1>1, <1>3, TextsApart DEF Key
    <3>3. QED
      BY <1>3, <1>4, <2>2, <2>3, <3>1, <3>2
  <2>4. CASE k # l
    <3>1. s # t /\ k.number # l.number /\ k.number \in Int /\ l.number \in Int
      BY <1>1, <1>3, <1>6, <2>1, <2>4, KeysApart DEF Key
    <3>2. s \in Text /\ t \in Text
      BY <1>1, <1>3 DEF Key
    <3>3. TextBefore(s, t) \/ TextBefore(t, s)
      BY <3>1, <3>2, TextsTotal
    <3>4. k.number < l.number => ~TextBefore(t, s)
      BY <1>3, <1>6 DEF Swapped
    <3>5. l.number < k.number => ~TextBefore(s, t)
      BY <1>3, <1>6 DEF Swapped
    <3>6. QED
      BY <1>4, <2>2, <3>1, <3>3, <3>4, <3>5
  <2>5. QED
    BY <2>3, <2>4
<1>7. CASE \A x \in Range(d): x.kind = "str"
  BY <1>3, <1>4, <1>7 DEF Before, KeyBefore
<1>8. CASE Len(d) <= 1
  <2>1. \A x, y \in Range(d): x = y
    <3>1. \A i \in DOMAIN d: i = 1
      BY <1>1, <1>8
    <3>2. QED
      BY <3>1 DEF Range
  <2>2. k = l /\ s = t
    BY <1>3, <2>1
  <2>3. ~(k.number < k.number) /\ ~TextBefore(s, s)
    <3>1. ~(k.number < k.number)
      BY <1>1 DEF Key
    <3>2. ~TextBefore(s, s)
      BY <1>1, <1>3, TextsApart DEF Key
    <3>3. QED
      BY <3>1, <3>2
  <2>4. \A x, y \in Range(d): x = k /\ y = k
    BY <2>1
  <2>5. ~KeyBefore(k, k)
    BY <1>3, <2>3 DEF KeyBefore
  <2>6. ~Before(d, s, t)
    BY <2>4, <2>5 DEF Before
  <2>7. QED
    BY <1>4, <2>2, <2>3, <2>6
<1>9. QED
  BY <1>6, <1>7, <1>8 DEF Sortable

(* So it is sorted as it was. *)
LEMMA SortKept ==
  ASSUME NEW p \in Payload, NEW at \in Place,
         Sortable(p.dicts[at]), ~Swapped(p.dicts[at])
  PROVE  SortedKeys(Strings(p.dicts[at])) = SortedKeys(p.dicts[at])
<1> DEFINE d == p.dicts[at]
           e == Strings(d)
           F == [1..Len(d) -> Texts(d)]
           Sorts(dict, keys) ==
             \A i, j \in 1..Len(d): i < j => Before(dict, keys[i], keys[j])
<1>1. Texts(e) = Texts(d) /\ Len(e) = Len(d)
  BY DictTyped, StringsOf
<1>2. \A s, t \in Texts(d): Before(e, s, t) <=> Before(d, s, t)
  BY OrderKept
<1> HIDE DEF e, d
<1>3. ASSUME NEW keys \in F
      PROVE  Sorts(e, keys) <=> Sorts(d, keys)
  BY <1>2
<1>4. /\ SortedKeys(e) = CHOOSE keys \in F: Sorts(e, keys)
      /\ SortedKeys(d) = CHOOSE keys \in F: Sorts(d, keys)
  BY <1>1 DEF SortedKeys
<1> HIDE DEF F, Sorts
<1>5. (CHOOSE keys \in F: Sorts(e, keys)) = (CHOOSE keys \in F: Sorts(d, keys))
  BY <1>3
<1>6. QED
  BY <1>4, <1>5 DEF d, e

(* And what is verified is what was signed. *)
LEMMA CanonicalKept ==
  ASSUME NEW p \in Payload, Serialisable(p), \A at \in Place: ~Swapped(p.dicts[at])
  PROVE  Canonical(Decoded(p)) = Canonical(p)
<1>1. p \in [dicts: [Place -> Seq(Key)], value: Value]
  BY PayloadAssumption
<1>2. /\ Decoded(p).value = p.value
      /\ \A at \in Place: Decoded(p).dicts[at] = Strings(p.dicts[at])
  BY <1>1 DEF Decoded
<1>3. \A at \in Place: SortedKeys(Decoded(p).dicts[at]) = SortedKeys(p.dicts[at])
  BY <1>2, SortKept DEF Serialisable
<1>4. [at \in Place |-> SortedKeys(Decoded(p).dicts[at])] =
        [at \in Place |-> SortedKeys(p.dicts[at])]
  BY <1>3
<1>5. QED
  BY <1>2, <1>4 DEF Canonical

(* Nothing is signed, stored or sent at first. *)
LEMMA InitEInv == Init => EInv
BY DEF Init, EInv, TypeOK, Stage, SignedFits, SentFits, Unstored, DisputeExplained, HashFollows,
       OrphanExplained

(* What the delegator makes of what it was sent. *)
LEMMA VerifyKept ==
  ASSUME EInv, VerifyOutcome
  PROVE  EInv'
<1>1. /\ stage = "sent" /\ payload \in Payload
      /\ signed = Content(payload, PayloadHash(payload)) /\ Serialisable(payload)
      /\ sent.hash = PayloadHash(payload)
      /\ payload.value = "nan" \/ sent.payload = Decoded(payload)
  BY DEF EInv, TypeOK, SignedFits, SentFits, VerifyOutcome
<1>2. stage' \in {"disputed", "mismatch", "agreed"}
  BY DEF VerifyOutcome
<1>3. ASSUME stage' = "mismatch"
      PROVE  FALSE
  <2>1. ContentAgain(sent.payload, sent.hash) = signed /\ PayloadHash(sent.payload) # sent.hash
    BY <1>3 DEF VerifyOutcome
  <2>2. Canonical(sent.payload) = Canonical(payload)
    BY <1>1, <2>1 DEF ContentAgain, Content
  <2>3. QED
    BY <1>1, <2>1, <2>2 DEF PayloadHash
<1>4. ASSUME stage' = "disputed", payload.value # "nan"
      PROVE  \E at \in Place:
               Swapped(payload.dicts[at]) /\ ~NaturalsOfOneWidth(payload.dicts[at])
  <2>1. Content(Decoded(payload), PayloadHash(payload)) # signed
    BY <1>1, <1>4 DEF VerifyOutcome, ContentAgain
  <2>2. Canonical(Decoded(payload)) # Canonical(payload)
    BY <1>1, <2>1 DEF Content
  <2>3. PICK at \in Place: Swapped(payload.dicts[at])
    BY <1>1, <2>2, CanonicalKept
  <2>4. QED
    BY <1>1, <2>3, WidthKept
<1>5. TypeOK'
  BY <1>2 DEF EInv, TypeOK, Stage, VerifyOutcome
<1>6. QED
  BY <1>1, <1>2, <1>3, <1>4, <1>5
     DEF EInv, SignedFits, SentFits, Unstored, DisputeExplained, HashFollows, OrphanExplained,
         VerifyOutcome

(* What is sent is the decoded payload, with null for nan at most. *)
LEMMA RespondKept ==
  ASSUME EInv, Respond
  PROVE  EInv'
<1>1. stage = "stored" /\ payload \in Payload
  BY DEF EInv, TypeOK, Respond
<1>2. payload \in [dicts: [Place -> Seq(Key)], value: Value]
  BY <1>1, PayloadAssumption
<1>3. PICK q \in [dicts: [Place -> Seq(Key)], value: Value]:
        /\ payload.value # "nan" => q = payload
        /\ \/ /\ sent' = [payload |-> Decoded(q), hash |-> PayloadHash(payload)]
              /\ stage' = "sent"
           \/ UNCHANGED sent /\ stage' = "raised" /\ payload.value = "nan"
  <2>1. [payload EXCEPT !.value = "null"] \in [dicts: [Place -> Seq(Key)], value: Value]
    BY <1>2 DEF Value
  <2>2. QED
    BY <1>2, <2>1 DEF Respond
<1>4. TypeOK'
  <2>1. \A at \in Place: \A k \in Range(Decoded(q).dicts[at]): k.kind = "str"
    <3>1. \A at \in Place: Decoded(q).dicts[at] = Strings(q.dicts[at]) /\ q.dicts[at] \in Seq(Key)
      BY DEF Decoded
    <3>2. QED
      BY <3>1, StringsOf
  <2>2. CASE sent' = [payload |-> Decoded(q), hash |-> PayloadHash(payload)]
    BY <1>3, <2>1, <2>2 DEF EInv, TypeOK, Stage, Respond
  <2>3. CASE UNCHANGED sent
    BY <1>3, <2>3 DEF EInv, TypeOK, Stage, Respond
  <2>4. QED
    BY <1>3, <2>2, <2>3
<1>5. QED
  BY <1>1, <1>3, <1>4
     DEF EInv, SignedFits, SentFits, Unstored, DisputeExplained, HashFollows, OrphanExplained,
         Respond

(* The invariant is inductive. *)
LEMMA NextEInv == EInv /\ [Next]_vars => EInv'
<1> SUFFICES ASSUME EInv, [Next]_vars
             PROVE  EInv'
  OBVIOUS
<1> USE DEF EInv, TypeOK, Stage, SignedFits, SentFits, Unstored, DisputeExplained, HashFollows,
            OrphanExplained
<1>1. CASE Unserialisable
  BY <1>1 DEF Unserialisable
<1>2. CASE SignOutcome
  BY <1>2 DEF SignOutcome
<1>3. CASE StorePending
  BY <1>3 DEF StorePending
<1>4. CASE Respond
  BY <1>4, RespondKept
<1>5. CASE VerifyOutcome
  BY <1>5, VerifyKept
<1>6. CASE UNCHANGED vars
  BY <1>6 DEF vars
<1>7. QED
  BY <1>1, <1>2, <1>3, <1>4, <1>5, <1>6 DEF Next

LEMMA Invariant == Spec => []EInv
BY InitEInv, NextEInv, PTL DEF Spec

(* The type invariant: among others, a dict that arrives has strings for keys. *)
THEOREM TypeCorrect == Spec => []TypeOK
<1>1. EInv => TypeOK
  BY DEF EInv
<1>2. QED
  BY <1>1, Invariant, PTL

(* What passes the signature check of verify_outcome passes its check of payload_hash. *)
THEOREM HashNeverAlone == Spec => []HashFollows
<1>1. EInv => HashFollows
  BY DEF EInv
<1>2. QED
  BY <1>1, Invariant, PTL

(* A completion is left without its answer only when JSON has no text for the outcome:
   what canonical_json cannot serialise has raised before anything was stored. *)
THEOREM OrphansExplained == Spec => []OrphanExplained
<1>1. EInv => OrphanExplained
  BY DEF EInv
<1>2. QED
  BY <1>1, Invariant, PTL

(* An honest delegatee's outcome is disputed only for a value that JSON does not have or
   for a dict, at any depth, with two numbers whose texts sort the other way: keys are
   sorted after the way through JSON on one side and before it on the other. *)
THEOREM DisputesExplained == Spec => []DisputeExplained
<1>1. EInv => DisputeExplained
  BY DEF EInv
<1>2. QED
  BY <1>1, Invariant, PTL
================================================================================
