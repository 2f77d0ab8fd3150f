----------------------------- MODULE DemoProofs ------------------------------
(***************************************************************************)
(* What Demo guarantees: of a command line that is written in order, and   *)
(* of the two scripts, whatever the disk, the target and the clock do.     *)
(***************************************************************************)
EXTENDS Demo, ProxyProofs

-----------------------------------------------------------------------------
(* What del words[p : p + n] leaves (proxy.py:191-213).                    *)
(* The elements of two sequences, one after the other.                     *)
LEMMA Joined ==
    ASSUME NEW S, NEW s \in Seq(S), NEW t \in Seq(S), NEW j, j = s \o t,
           NEW a \in Nat, a = Len(s), NEW b \in Nat, b = Len(t)
    PROVE  /\ j \in Seq(S) /\ Len(j) = a + b
           /\ \A i \in 1..a : j[i] = s[i]
           /\ \A i \in (a + 1)..(a + b) : j[i] = t[i - a]
<1>1. /\ j \in Seq(S) /\ Len(j) = a + b
      /\ \A i \in 1..(a + b) : j[i] = IF i <= a THEN s[i] ELSE t[i - a]
  BY ConcatProperties
<1>2. \A i \in 1..a : i \in 1..(a + b) /\ i <= a
  OBVIOUS
<1>3. \A i \in (a + 1)..(a + b) : i \in 1..(a + b) /\ ~(i <= a)
  OBVIOUS
<1> QED BY <1>1, <1>2, <1>3

(* The elements of a part of a sequence.                                   *)
LEMMA Part ==
    ASSUME NEW S, NEW s, NEW m \in Nat, NEW n \in Nat, m <= n + 1,
           \A i \in m..n : s[i] \in S, NEW c, c = SubSeq(s, m, n)
    PROVE  /\ c \in Seq(S) /\ Len(c) = n - m + 1
           /\ \A i \in 1..(n - m + 1) : c[i] = s[m + i - 1]
<1>1. /\ c \in Seq(S) /\ Len(c) = IF m <= n THEN n - m + 1 ELSE 0
      /\ \A i \in 1..(n - m + 1) : c[i] = s[m + i - 1]
  BY SubSeqProperties
<1> QED BY <1>1

CommandLine(options, target) == options \o target

(* What is left of a sequence when what lies between a and b is cut out;   *)
(* of two joined sequences, when that lies in the first.                   *)
Remainder(words, a, b) == SubSeq(words, 1, a) \o SubSeq(words, b, Len(words))

HasGap(rest, words, a, b) ==
    LET n == a + (Len(words) - b + 1)
    IN  /\ Len(rest) = n
        /\ \A i \in 1..a : rest[i] = words[i]
        /\ \A i \in (a + 1)..n : rest[i] = words[b + (i - a) - 1]

(* Cutting inside the options of a command line leaves a sequence with the *)
(* gap where it was cut, and does not touch the target's words.            *)
LEMMA CutOut ==
    ASSUME NEW S, NEW options \in Seq(S), NEW target \in Seq(S),
           NEW L \in Nat, L = Len(options),
           NEW a \in Nat, NEW b \in Nat, a < b, b <= L + 1
    PROVE  /\ Remainder(options, a, b) \in Seq(S)
           /\ HasGap(Remainder(options, a, b), options, a, b)
           /\ Remainder(CommandLine(options, target), a, b)
                = CommandLine(Remainder(options, a, b), target)
<1>w. PICK words : words = options \o target
  OBVIOUS
<1>r. PICK rest : rest = Remainder(options, a, b)
  OBVIOUS
<1>1. words = options \o target /\ rest = SubSeq(options, 1, a) \o SubSeq(options, b, L)
  BY <1>w, <1>r DEF Remainder
<1>2. PICK M \in Nat : M = Len(target)
  OBVIOUS
<1>3. /\ \A i \in 1..L : options[i] \in S
      /\ \A i \in 1..M : target[i] \in S
  BY <1>2
<1>c. PICK c \in Nat : c = L - b + 1
  <2>1. L - b + 1 \in Nat
    OBVIOUS
  <2> QED BY <2>1
<1>d. PICK e \in Nat : e = a + c
  OBVIOUS
<1>x. PICK before : before = SubSeq(options, 1, a)
  OBVIOUS
<1>y. PICK after : after = SubSeq(options, b, L)
  OBVIOUS
<1>z. rest = before \o after
  BY <1>1, <1>x, <1>y
<1>4. /\ before \in Seq(S) /\ Len(before) = a
      /\ \A i \in 1..a : before[i] = options[i]
  <2>1. 1 <= a + 1 /\ \A i \in 1..a : options[i] \in S
    BY <1>3
  <2>2. /\ before \in Seq(S) /\ Len(before) = a - 1 + 1
        /\ \A i \in 1..(a - 1 + 1) : before[i] = options[1 + i - 1]
    BY <2>1, <1>x, Part
  <2> QED BY <2>2
<1>5. /\ after \in Seq(S) /\ Len(after) = c
      /\ \A i \in 1..c : after[i] = options[b + i - 1]
  <2>1. b <= L + 1 /\ \A i \in b..L : options[i] \in S
    BY <1>3
  <2>2. /\ after \in Seq(S) /\ Len(after) = L - b + 1
        /\ \A i \in 1..(L - b + 1) : after[i] = options[b + i - 1]
    BY <2>1, <1>y, Part
  <2> QED BY <1>c, <2>2
<1>6. /\ rest \in Seq(S) /\ Len(rest) = e
      /\ \A i \in 1..a : rest[i] = options[i]
      /\ \A i \in (a + 1)..e : rest[i] = options[b + (i - a) - 1]
  <2>0. before \in Seq(S) /\ a = Len(before) /\ after \in Seq(S) /\ c = Len(after)
    BY <1>4, <1>5
  <2>1. /\ rest \in Seq(S) /\ Len(rest) = a + c
        /\ \A i \in 1..a : rest[i] = before[i]
        /\ \A i \in (a + 1)..(a + c) : rest[i] = after[i - a]
    BY <1>z, <2>0, Joined
  <2>2. \A i \in 1..a : rest[i] = options[i]
    BY <1>4, <2>1
  <2>3. ASSUME NEW i \in (a + 1)..e PROVE rest[i] = options[b + (i - a) - 1]
    <3>1. i \in (a + 1)..(a + c) /\ i - a \in 1..c
      BY <1>d
    <3> QED BY <1>5, <2>1, <3>1
  <2> QED BY <1>d, <2>1, <2>2, <2>3
<1>7. /\ words \in Seq(S) /\ Len(words) = L + M
      /\ \A i \in 1..L : words[i] = options[i]
      /\ \A i \in (L + 1)..(L + M) : words[i] = target[i - L]
  BY <1>1, <1>2, Joined
<1>8. SubSeq(words, 1, a) = before
  <2>1. a <= L /\ \A i \in 1..a : words[i] = options[i] /\ words[i] \in S
    BY <1>3, <1>7
  <2>2. PICK first : first = SubSeq(words, 1, a)
    OBVIOUS
  <2>3. 1 <= a + 1 /\ \A i \in 1..a : words[i] \in S
    BY <2>1
  <2>4. /\ first \in Seq(S) /\ Len(first) = a - 1 + 1
        /\ \A i \in 1..(a - 1 + 1) : first[i] = words[1 + i - 1]
    BY <2>2, <2>3, Part
  <2>6. Len(first) = a /\ \A i \in 1..a : first[i] = words[i]
    BY <2>4
  <2>5. Len(first) = Len(before) /\ \A i \in 1..Len(first) : first[i] = before[i]
    BY <1>4, <2>1, <2>6
  <2> QED BY <1>4, <2>2, <2>4, <2>5, SeqEqual
<1>9. SubSeq(words, b, L + M) = after \o target
  <2>1. PICK second : second = SubSeq(words, b, L + M)
    OBVIOUS
  <2>2. PICK joined : joined = after \o target
    OBVIOUS
  <2>3. PICK d \in Nat : d = c + M
    OBVIOUS
  <2>4. second \in Seq(S) /\ Len(second) = d /\ \A i \in 1..d : second[i] = words[b + i - 1]
    <3>1. L + M \in Nat /\ b <= L + M + 1 /\ \A i \in b..(L + M) : words[i] \in S
      BY <1>7
    <3>2. /\ second \in Seq(S) /\ Len(second) = L + M - b + 1
          /\ \A i \in 1..(L + M - b + 1) : second[i] = words[b + i - 1]
      BY <2>1, <3>1, Part
    <3> QED BY <1>c, <2>3, <3>2
  <2>5. /\ joined \in Seq(S) /\ Len(joined) = d
        /\ \A i \in 1..c : joined[i] = after[i]
        /\ \A i \in (c + 1)..d : joined[i] = target[i - c]
    <3>1. after \in Seq(S) /\ c = Len(after) /\ M = Len(target)
      BY <1>2, <1>5
    <3>2. /\ joined \in Seq(S) /\ Len(joined) = c + M
          /\ \A i \in 1..c : joined[i] = after[i]
          /\ \A i \in (c + 1)..(c + M) : joined[i] = target[i - c]
      BY <2>2, <3>1, Joined
    <3> QED BY <2>3, <3>2
  <2>6. ASSUME NEW i \in 1..d PROVE second[i] = joined[i]
    <3>1. CASE i <= c
      <4>1. i \in 1..c /\ b + i - 1 \in 1..L
        BY <1>c, <3>1
      <4> QED BY <1>5, <1>7, <2>4, <2>5, <4>1
    <3>2. CASE ~(i <= c)
      <4>1. /\ i \in (c + 1)..d /\ b + i - 1 \in (L + 1)..(L + M)
            /\ (b + i - 1) - L = i - c
        BY <1>c, <2>3, <3>2
      <4> QED BY <1>7, <2>4, <2>5, <4>1
    <3> QED BY <3>1, <3>2
  <2>7. Len(second) = Len(joined) /\ \A i \in 1..Len(second) : second[i] = joined[i]
    BY <2>4, <2>5, <2>6
  <2>8. second = joined
    BY <2>4, <2>5, <2>7, SeqEqual
  <2> QED BY <2>1, <2>2, <2>8
<1>10. before \o (after \o target) = rest \o target
  <2>1. PICK joined : joined = after \o target
    OBVIOUS
  <2>2. PICK left : left = before \o joined
    OBVIOUS
  <2>3. PICK right : right = rest \o target
    OBVIOUS
  <2>4. PICK d \in Nat : d = c + M
    OBVIOUS
  <2>5. /\ joined \in Seq(S) /\ Len(joined) = d
        /\ \A i \in 1..c : joined[i] = after[i]
        /\ \A i \in (c + 1)..d : joined[i] = target[i - c]
    <3>1. after \in Seq(S) /\ c = Len(after) /\ M = Len(target)
      BY <1>2, <1>5
    <3> QED BY <2>1, <2>4, <3>1, Joined
  <2>6. /\ left \in Seq(S) /\ Len(left) = a + d
        /\ \A i \in 1..a : left[i] = before[i]
        /\ \A i \in (a + 1)..(a + d) : left[i] = joined[i - a]
    <3>1. before \in Seq(S) /\ a = Len(before) /\ joined \in Seq(S) /\ d = Len(joined)
      BY <1>4, <2>5
    <3> QED BY <2>2, <3>1, Joined
  <2>7. /\ right \in Seq(S) /\ Len(right) = e + M
        /\ \A i \in 1..e : right[i] = rest[i]
        /\ \A i \in (e + 1)..(e + M) : right[i] = target[i - e]
    <3>1. rest \in Seq(S) /\ e = Len(rest) /\ M = Len(target)
      BY <1>2, <1>6
    <3> QED BY <2>3, <3>1, Joined
  <2>8. a + d = e + M
    BY <1>d, <2>4
  <2>9. ASSUME NEW i \in 1..(e + M) PROVE left[i] = right[i]
    <3>1. CASE i <= a
      <4>1. i \in 1..a /\ i \in 1..e
        BY <1>d, <3>1
      <4> QED BY <1>4, <1>6, <2>6, <2>7, <4>1
    <3>2. CASE a < i /\ i <= e
      <4>1. /\ i \in (a + 1)..(a + d) /\ i - a \in 1..c
            /\ i \in 1..e /\ i \in (a + 1)..e
        BY <1>d, <2>4, <3>2
      <4>2. left[i] = after[i - a] /\ right[i] = options[b + (i - a) - 1]
        BY <1>6, <2>5, <2>6, <2>7, <4>1
      <4>3. after[i - a] = options[b + (i - a) - 1]
        BY <1>5, <4>1
      <4> QED BY <4>2, <4>3
    <3>3. CASE e < i
      <4>1. /\ i \in (a + 1)..(a + d) /\ i - a \in (c + 1)..d
            /\ i \in (e + 1)..(e + M) /\ (i - a) - c = i - e
        BY <1>d, <2>4, <2>8, <3>3
      <4> QED BY <2>5, <2>6, <2>7, <4>1
    <3> QED BY <3>1, <3>2, <3>3
  <2>10. Len(left) = Len(right) /\ \A i \in 1..Len(left) : left[i] = right[i]
    BY <2>6, <2>7, <2>8, <2>9
  <2>11. left = right
    BY <2>6, <2>7, <2>10, SeqEqual
  <2> QED BY <2>1, <2>2, <2>3, <2>11
<1>11. Remainder(words, a, b) = rest \o target
  BY <1>7, <1>8, <1>9, <1>10 DEF Remainder
<1> QED BY <1>6, <1>11, <1>c, <1>d, <1>r, <1>w DEF CommandLine, HasGap

-----------------------------------------------------------------------------
(* Command lines: the options in order, and a target that has no option's  *)
(* name among its words (proxy.py:190-213).                                *)
InOrder(options, target) ==
    /\ \E S : options \in Seq(S) /\ target \in Seq(S)
    /\ Unambiguous(options)
    /\ Range(target) \cap OptionNames = {}

(* The value an option is given.                                           *)
Gives(options, o, v) ==
    \E i \in DOMAIN options : /\ options[i] = o
                              /\ i + 1 \in DOMAIN options /\ options[i + 1] = v

(* An option that is there once is found there.                            *)
LEMMA PositionIsThere ==
    ASSUME NEW words, NEW o
    PROVE  /\ ~Contains(words, o) => Position(words, o) = 0
           /\ \A i \in 1..Len(words) :
                 words[i] = o /\ (\A j \in 1..Len(words) : words[j] = o => j = i) =>
                     Position(words, o) = i
<1> DEFINE places == {i \in 1..Len(words) : words[i] = o}
<1>1. Position(words, o) = IF places # {} THEN Min(places) ELSE 0
  BY DEF Position, SelectInSeq
<1>2. ASSUME ~Contains(words, o) PROVE Position(words, o) = 0
  BY <1>1, <1>2 DEF Contains
<1>3. ASSUME NEW i \in 1..Len(words), words[i] = o,
             \A j \in 1..Len(words) : words[j] = o => j = i
      PROVE  Position(words, o) = i
  <2>1. places = {i}
    BY <1>3
  <2>2. Min({i}) = i
    BY <1>3 DEF Min
  <2> QED BY <1>1, <2>1, <2>2
<1> QED BY <1>2, <1>3

(* The words of a command line, one by one.                                *)
LEMMA WordsInOrder ==
    ASSUME NEW options, NEW target, InOrder(options, target)
    PROVE  LET words == CommandLine(options, target)
           IN  /\ Len(options) \in Nat /\ DOMAIN options = 1..Len(options)
               /\ Len(target) \in Nat /\ DOMAIN target = 1..Len(target)
               /\ Len(words) = Len(options) + Len(target) /\ DOMAIN words = 1..Len(words)
               /\ \A i \in 1..Len(options) : words[i] = options[i]
               /\ \A i \in 1..Len(target) : words[Len(options) + i] = target[i]
               /\ \A o \in OptionNames, i \in 1..Len(words) :
                     words[i] = o => i \in 1..Len(options) /\ options[i] = o
<1>1. PICK S : options \in Seq(S) /\ target \in Seq(S)
  BY DEF InOrder
<1> DEFINE words == CommandLine(options, target)
<1>2. /\ Len(options) \in Nat /\ DOMAIN options = 1..Len(options)
      /\ Len(target) \in Nat /\ DOMAIN target = 1..Len(target)
      /\ Len(words) = Len(options) + Len(target) /\ DOMAIN words = 1..Len(words)
      /\ \A i \in 1..Len(words) :
            words[i] = IF i <= Len(options) THEN options[i] ELSE target[i - Len(options)]
  BY <1>1 DEF CommandLine
<1> HIDE DEF words
<1>3. \A i \in 1..Len(options) : words[i] = options[i]
  BY <1>2
<1>4. \A i \in 1..Len(target) : words[Len(options) + i] = target[i]
  BY <1>2
<1>5. ASSUME NEW o \in OptionNames, NEW i \in 1..Len(words), words[i] = o
      PROVE  i \in 1..Len(options) /\ options[i] = o
  <2>1. ~(i > Len(options))
    <3> SUFFICES ASSUME i > Len(options) PROVE FALSE
      OBVIOUS
    <3>1. i - Len(options) \in DOMAIN target /\ target[i - Len(options)] = o
      BY <1>2, <1>5
    <3> QED BY <3>1 DEF InOrder, Range
  <2> QED BY <1>2, <1>5, <2>1
<1> QED BY <1>2, <1>3, <1>4, <1>5 DEF words

(* An option is found in the command line where it is among the options,   *)
(* and the word after it is its value.                                     *)
LEMMA FoundInOrder ==
    ASSUME NEW options, NEW target, InOrder(options, target), NEW o \in OptionNames
    PROVE  /\ Contains(CommandLine(options, target), o) <=> Contains(options, o)
           /\ ~Contains(options, o) => Position(CommandLine(options, target), o) = 0
           /\ \A i \in DOMAIN options : options[i] = o => Position(CommandLine(options, target), o) = i
           /\ \A v : Gives(options, o, v) => ValueOf(CommandLine(options, target), o) = v
<1> DEFINE words == CommandLine(options, target)
<1>1. /\ Len(options) \in Nat /\ DOMAIN options = 1..Len(options)
      /\ Len(target) \in Nat
      /\ Len(words) = Len(options) + Len(target) /\ DOMAIN words = 1..Len(words)
      /\ \A i \in 1..Len(options) : words[i] = options[i]
      /\ \A i \in 1..Len(words) : words[i] = o => i \in 1..Len(options) /\ options[i] = o
  BY WordsInOrder
<1> HIDE DEF words
<1>2. Contains(words, o) <=> Contains(options, o)
  BY <1>1 DEF Contains
<1>3. \A i, j \in DOMAIN options : options[i] = o /\ options[j] = o => i = j
  BY DEF InOrder, Unambiguous
<1>4. ASSUME NEW i \in DOMAIN options, options[i] = o PROVE Position(words, o) = i
  <2>1. i \in 1..Len(words) /\ words[i] = o
    BY <1>1, <1>4
  <2>2. \A j \in 1..Len(words) : words[j] = o => j = i
    BY <1>1, <1>3, <1>4
  <2> QED BY <2>1, <2>2, PositionIsThere
<1>5. ASSUME NEW v, Gives(options, o, v) PROVE ValueOf(words, o) = v
  <2>1. PICK i \in DOMAIN options : /\ options[i] = o
                                    /\ i + 1 \in DOMAIN options /\ options[i + 1] = v
    BY <1>5 DEF Gives
  <2>2. Position(words, o) = i
    BY <1>4, <2>1
  <2>3. i + 1 \in DOMAIN words /\ words[i + 1] = v
    BY <1>1, <2>1
  <2> QED BY <2>2, <2>3 DEF ValueOf
<1>6. ~Contains(options, o) => Position(words, o) = 0
  BY <1>2, PositionIsThere
<1> QED BY <1>2, <1>4, <1>5, <1>6 DEF words

(* Deleting an option with its value leaves a command line in order, with  *)
(* every other option where its value is.                                  *)
LEMMA RemovedInOrder ==
    ASSUME NEW options, NEW target, InOrder(options, target),
           NEW o \in OptionNames, NEW n, n = IF o = AutoOption THEN 1 ELSE 2
    PROVE  \E rest :
              /\ Without(CommandLine(options, target), o, n) = CommandLine(rest, target)
              /\ InOrder(rest, target)
              /\ ~Contains(rest, o)
              /\ \A q \in OptionNames \ {o} : Contains(rest, q) <=> Contains(options, q)
              /\ \A q \in OptionNames \ {o, AutoOption} : \A v :
                    Gives(options, q, v) => Gives(rest, q, v)
<1>0. PICK words : words = CommandLine(options, target)
  OBVIOUS
<1>1. PICK S : options \in Seq(S) /\ target \in Seq(S)
  BY DEF InOrder
<1>2. CASE ~Contains(options, o)
  <2>1. Without(words, o, n) = words
    BY <1>0, <1>2, FoundInOrder DEF Without
  <2> QED BY <1>0, <1>2, <2>1
<1>3. CASE Contains(options, o)
  <2>1. PICK L \in Nat : L = Len(options) /\ DOMAIN options = 1..L
    BY <1>1
  <2>2. PICK p \in 1..L : options[p] = o
    BY <1>3, <2>1 DEF Contains
  <2>3. Position(words, o) = p
    BY <1>0, <2>1, <2>2, FoundInOrder
  <2>4. /\ n \in {1, 2} /\ n \in Nat /\ p \in Nat /\ 1 <= p /\ p <= L
        /\ \A i \in DOMAIN options : options[i] = o => i = p
        /\ n = 2 => p + 1 \in DOMAIN options /\ options[p + 1] \notin OptionNames
        /\ n = 1 => o = AutoOption
        /\ p + n - 1 <= L
    <3>1. n \in {1, 2} /\ n \in Nat /\ (n = 2 <=> o # AutoOption) /\ (n = 1 <=> o = AutoOption)
      OBVIOUS
    <3>2. \A i \in DOMAIN options : options[i] = o => i = p
      BY <2>1, <2>2 DEF InOrder, Unambiguous
    <3>3. o # AutoOption => p < L /\ options[p + 1] \notin OptionNames
      BY <2>1, <2>2 DEF InOrder, Unambiguous
    <3> QED BY <2>1, <2>2, <3>1, <3>2, <3>3
  <2> DEFINE from(i) == IF i < p THEN i ELSE i + n
  <2>a. PICK a \in Nat : a = p - 1
    BY <2>4
  <2>b. PICK b \in Nat : b = p + n
    BY <2>4
  <2>x. PICK rest : rest = Remainder(options, a, b)
    OBVIOUS
  <2>5. /\ rest \in Seq(S) /\ Len(rest) = L - n
        /\ \A i \in 1..(p - 1) : rest[i] = options[i]
        /\ \A i \in p..(L - n) : rest[i] = options[i + n]
        /\ Remainder(words, a, b) = CommandLine(rest, target)
    <3>1. /\ options \in Seq(S) /\ target \in Seq(S) /\ L \in Nat /\ L = Len(options)
          /\ a \in Nat /\ b \in Nat /\ a < b /\ b <= L + 1
      BY <1>1, <2>1, <2>4, <2>a, <2>b
    <3>2. /\ rest \in Seq(S) /\ Len(rest) = a + (L - b + 1)
          /\ \A i \in 1..a : rest[i] = options[i]
          /\ \A i \in (a + 1)..(a + (L - b + 1)) : rest[i] = options[b + (i - a) - 1]
          /\ Remainder(words, a, b) = CommandLine(rest, target)
      <4>1. /\ Remainder(options, a, b) \in Seq(S)
            /\ HasGap(Remainder(options, a, b), options, a, b)
            /\ Remainder(CommandLine(options, target), a, b)
                 = CommandLine(Remainder(options, a, b), target)
        BY <3>1, CutOut
      <4>2. HasGap(rest, options, a, b)
        BY <2>x, <4>1
      <4> QED BY <1>0, <2>1, <2>x, <4>1, <4>2 DEF HasGap
    <3>3. a + (L - b + 1) = L - n
      BY <2>4, <2>a, <2>b
    <3>4. ASSUME NEW i \in p..(L - n) PROVE rest[i] = options[i + n]
      <4>1. i \in (a + 1)..(a + (L - b + 1)) /\ b + (i - a) - 1 = i + n
        BY <2>4, <2>a, <2>b
      <4> QED BY <3>2, <4>1
    <3> QED BY <2>a, <3>2, <3>3, <3>4
  <2>6. Without(words, o, n) = CommandLine(rest, target)
    <3>1. p # 0 /\ a = p - 1 /\ b = p + n
      BY <2>4, <2>a, <2>b
    <3> QED BY <2>3, <2>5, <3>1 DEF Without, Remainder
  <2>7. /\ DOMAIN rest = 1..(L - n) /\ L - n \in Nat
        /\ \A i \in 1..(L - n) : /\ rest[i] = options[from(i)]
                                 /\ from(i) \in DOMAIN options \ {p, p + n - 1}
    <3>1. DOMAIN rest = 1..(L - n) /\ L - n \in Nat
      BY <2>4, <2>5
    <3>2. ASSUME NEW i \in 1..(L - n)
          PROVE  /\ rest[i] = options[from(i)]
                 /\ from(i) \in 1..L /\ from(i) # p /\ from(i) # p + n - 1
      <4>1. CASE i < p
        <5>1. i \in 1..(p - 1) /\ i \in 1..L /\ from(i) = i /\ i # p + n - 1
          BY <2>4, <4>1
        <5> QED BY <2>5, <5>1
      <4>2. CASE ~(i < p)
        <5>1. /\ i \in p..(L - n) /\ from(i) = i + n
              /\ i + n \in 1..L /\ i + n # p /\ i + n # p + n - 1
          BY <2>4, <4>2
        <5> QED BY <2>5, <5>1
      <4> QED BY <4>1, <4>2
    <3> QED BY <2>1, <3>1, <3>2
  <2>8. \A j \in DOMAIN options \ {p, p + n - 1} : \E i \in 1..(L - n) : j = from(i)
    <3> SUFFICES ASSUME NEW j \in 1..L, j # p, j # p + n - 1
                 PROVE  \E i \in 1..(L - n) : j = from(i)
      BY <2>1
    <3>1. CASE j < p
      <4>1. j \in 1..(L - n)
        BY <2>4, <3>1
      <4> QED BY <3>1, <4>1
    <3>2. CASE ~(j < p)
      <4>1. j - n \in 1..(L - n) /\ ~(j - n < p) /\ j = (j - n) + n
        BY <2>4, <3>2
      <4> QED BY <4>1
    <3> QED BY <3>1, <3>2
  <2>9. InOrder(rest, target)
    <3>1. \A j \in DOMAIN options : options[j] \in OptionNames =>
             /\ \A k \in DOMAIN options : options[j] = options[k] => j = k
             /\ options[j] # AutoOption => j < L /\ options[j + 1] \notin OptionNames
      BY <2>1 DEF InOrder, Unambiguous
    <3>2. \A j \in DOMAIN options : options[j] \notin OptionNames =>
             j > 1 /\ options[j - 1] \in OptionNames \ {AutoOption}
      BY <2>1 DEF InOrder, Unambiguous
    <3>3. ASSUME NEW i \in 1..(L - n), NEW k \in 1..(L - n),
                 rest[i] \in OptionNames, rest[i] = rest[k]
          PROVE  i = k
      <4>1. from(i) = from(k)
        <5> HIDE DEF from
        <5>1. /\ from(i) \in DOMAIN options /\ from(k) \in DOMAIN options
              /\ options[from(i)] \in OptionNames /\ options[from(i)] = options[from(k)]
          BY <2>7, <3>3
        <5> QED BY <3>1, <5>1
      <4> QED BY <2>4, <4>1
    <3>4. ASSUME NEW i \in 1..(L - n), rest[i] \in OptionNames \ {AutoOption}
          PROVE  i < L - n /\ rest[i + 1] \notin OptionNames
      <4>1. from(i) < L /\ options[from(i) + 1] \notin OptionNames
        BY <2>7, <3>1, <3>4
      <4>2. from(i) + 1 # p
        BY <2>2, <4>1
      <4>3. i < L - n /\ from(i + 1) = from(i) + 1
        <5>1. CASE i < p
          BY <2>4, <4>1, <4>2, <5>1
        <5>2. CASE ~(i < p)
          BY <2>4, <4>1, <5>2
        <5> QED BY <5>1, <5>2
      <4>4. i + 1 \in 1..(L - n)
        BY <4>3
      <4> QED BY <2>7, <4>1, <4>3, <4>4
    <3>5. ASSUME NEW i \in 1..(L - n), rest[i] \notin OptionNames
          PROVE  i > 1 /\ rest[i - 1] \in OptionNames \ {AutoOption}
      <4>1. from(i) > 1 /\ options[from(i) - 1] \in OptionNames \ {AutoOption}
        BY <2>7, <3>2, <3>5
      <4>2. from(i) # p + n
        <5>1. CASE n = 1
          <6>1. ASSUME from(i) = p + n PROVE FALSE
            <7>1. from(i) - 1 = p
              BY <2>4, <5>1, <6>1
            <7> QED BY <2>2, <2>4, <4>1, <5>1, <7>1
          <6> QED BY <6>1
        <5>2. CASE n = 2
          <6>1. ASSUME from(i) = p + n PROVE FALSE
            <7>1. from(i) - 1 = p + 1
              BY <2>4, <5>2, <6>1
            <7> QED BY <2>4, <4>1, <5>2, <7>1
          <6> QED BY <6>1
        <5> QED BY <2>4, <5>1, <5>2
      <4>3. i > 1 /\ from(i - 1) = from(i) - 1
        BY <2>4, <4>1, <4>2
      <4>4. i - 1 \in 1..(L - n)
        BY <4>3
      <4> QED BY <2>7, <4>1, <4>3, <4>4
    <3>6. Unambiguous(rest)
      BY <2>5, <2>7, <3>3, <3>4, <3>5 DEF Unambiguous
    <3> QED BY <1>1, <2>5, <3>6 DEF InOrder
  <2>10. ~Contains(rest, o)
    BY <2>4, <2>5, <2>7 DEF Contains
  <2>11. ASSUME NEW q \in OptionNames \ {o}
         PROVE  Contains(rest, q) <=> Contains(options, q)
    <3>1. ASSUME NEW i \in 1..(L - n), rest[i] = q PROVE Contains(options, q)
      BY <2>1, <2>7, <3>1 DEF Contains
    <3>2. ASSUME NEW j \in 1..L, options[j] = q PROVE Contains(rest, q)
      <4>1. j \in DOMAIN options \ {p, p + n - 1}
        BY <2>1, <2>2, <2>4, <3>2
      <4>2. PICK i \in 1..(L - n) : j = from(i)
        BY <2>8, <4>1
      <4> QED BY <2>5, <2>7, <3>2, <4>2 DEF Contains
    <3> QED BY <2>1, <2>5, <3>1, <3>2 DEF Contains
  <2>12. ASSUME NEW q \in OptionNames \ {o, AutoOption}, NEW v, Gives(options, q, v)
         PROVE  Gives(rest, q, v)
    <3>1. PICK j \in 1..L : options[j] = q /\ j + 1 \in 1..L /\ options[j + 1] = v
      BY <2>1, <2>12 DEF Gives
    <3>2. options[j + 1] \notin OptionNames
      BY <2>1, <3>1 DEF InOrder, Unambiguous
    <3>3. j # p /\ j # p + n - 1 /\ j + 1 # p
      <4>1. j # p /\ j + 1 # p
        BY <2>2, <3>1, <3>2
      <4>2. n = 2 => j # p + 1
        BY <2>4, <3>1
      <4> QED BY <2>4, <4>1, <4>2
    <3>4. PICK i \in 1..(L - n) : j = from(i)
      BY <2>1, <2>8, <3>3
    <3>5. i + 1 \in 1..(L - n) /\ from(i + 1) = j + 1
      <4>1. CASE i < p
        BY <2>4, <3>1, <3>3, <3>4, <4>1
      <4>2. CASE ~(i < p)
        BY <2>4, <3>1, <3>4, <4>2
      <4> QED BY <4>1, <4>2
    <3> QED BY <2>7, <3>1, <3>4, <3>5 DEF Gives
  <2> QED BY <1>0, <2>6, <2>9, <2>10, <2>11, <2>12
<1> QED BY <1>2, <1>3

(* A command line in order is understood as it is written: each option is  *)
(* seen where it is, with its value, and the target gets all its words.    *)
LEMMA ReadInOrder ==
    ASSUME NEW options, NEW target, InOrder(options, target),
           NEW words, words = CommandLine(options, target)
    PROVE  /\ Contains(words, AutoOption) <=> Contains(options, AutoOption)
           /\ Contains(AfterAuto(words), TtlOption) <=> Contains(options, TtlOption)
           /\ \A v : Gives(options, TtlOption, v) => ValueOf(AfterAuto(words), TtlOption) = v
           /\ Contains(AfterTimeout(words), PolicyOption) <=> Contains(options, PolicyOption)
           /\ \A v : Gives(options, PolicyOption, v) =>
                         ValueOf(AfterTimeout(words), PolicyOption) = v
           /\ AfterPolicy(words) = target
<1>1. /\ AutoOption \in OptionNames /\ TtlOption \in OptionNames
      /\ WebTimeoutOption \in OptionNames /\ PolicyOption \in OptionNames
      /\ AutoOption \notin {TtlOption, WebTimeoutOption, PolicyOption}
      /\ TtlOption \notin {WebTimeoutOption, PolicyOption} /\ WebTimeoutOption # PolicyOption
  BY LaunchAssumption DEF OptionNames
<1>2. PICK noAuto :
          /\ AfterAuto(words) = CommandLine(noAuto, target) /\ InOrder(noAuto, target)
          /\ ~Contains(noAuto, AutoOption)
          /\ \A q \in OptionNames \ {AutoOption} : Contains(noAuto, q) <=> Contains(options, q)
          /\ \A q \in OptionNames \ {AutoOption} : \A v : Gives(options, q, v) => Gives(noAuto, q, v)
  <2>1. \E rest :
            /\ Without(CommandLine(options, target), AutoOption, 1) = CommandLine(rest, target)
            /\ InOrder(rest, target)
            /\ ~Contains(rest, AutoOption)
            /\ \A q \in OptionNames \ {AutoOption} : Contains(rest, q) <=> Contains(options, q)
            /\ \A q \in OptionNames \ {AutoOption, AutoOption} : \A v :
                  Gives(options, q, v) => Gives(rest, q, v)
    BY <1>1, RemovedInOrder
  <2> QED BY <2>1 DEF AfterAuto
<1> DEFINE Took(before, after, o) ==
        /\ Without(CommandLine(before, target), o, 2) = CommandLine(after, target)
        /\ InOrder(after, target)
        /\ ~Contains(after, o)
        /\ \A q \in OptionNames \ {o} : Contains(after, q) <=> Contains(before, q)
        /\ \A q \in OptionNames \ {o, AutoOption} : \A v : Gives(before, q, v) => Gives(after, q, v)
<1>3. \A before, o : InOrder(before, target) /\ o \in OptionNames \ {AutoOption} =>
                         \E after : Took(before, after, o)
  BY RemovedInOrder
<1>4. PICK noTtl : Took(noAuto, noTtl, TtlOption)
  BY <1>1, <1>2, <1>3
<1>5. PICK noTimeout : Took(noTtl, noTimeout, WebTimeoutOption)
  BY <1>1, <1>3, <1>4
<1>6. PICK rest : Took(noTimeout, rest, PolicyOption)
  BY <1>1, <1>3, <1>5
<1>7. /\ AfterTtl(words) = CommandLine(noTtl, target)
      /\ AfterTimeout(words) = CommandLine(noTimeout, target)
      /\ AfterPolicy(words) = CommandLine(rest, target)
  BY <1>2, <1>4, <1>5, <1>6 DEF AfterTtl, AfterTimeout, AfterPolicy
<1>8. rest = << >>
  <2>1. PICK S : rest \in Seq(S)
    BY <1>6 DEF InOrder
  <2>2. \A q \in OptionNames : ~Contains(rest, q)
    BY <1>1, <1>2, <1>4, <1>5, <1>6 DEF OptionNames
  <2>3. \A i \in DOMAIN rest : rest[i] \notin OptionNames
    BY <2>1, <2>2 DEF Contains
  <2>4. 1 \notin DOMAIN rest
    BY <1>6, <2>3 DEF InOrder, Unambiguous
  <2> QED BY <2>1, <2>4
<1>9. AfterPolicy(words) = target
  <2>1. PICK S : target \in Seq(S)
    BY DEF InOrder
  <2> QED BY <1>7, <1>8, <2>1 DEF CommandLine
<1>10. /\ Contains(AfterAuto(words), TtlOption) <=> Contains(options, TtlOption)
       /\ \A v : Gives(options, TtlOption, v) => ValueOf(AfterAuto(words), TtlOption) = v
  BY <1>1, <1>2, FoundInOrder
<1>11. /\ Contains(AfterTimeout(words), PolicyOption) <=> Contains(options, PolicyOption)
       /\ \A v : Gives(options, PolicyOption, v) =>
                     ValueOf(AfterTimeout(words), PolicyOption) = v
  <2>1. /\ Contains(noTimeout, PolicyOption) <=> Contains(options, PolicyOption)
        /\ \A v : Gives(options, PolicyOption, v) => Gives(noTimeout, PolicyOption, v)
    BY <1>1, <1>2, <1>4, <1>5
  <2>2. InOrder(noTimeout, target) /\ PolicyOption \in OptionNames
    BY <1>1, <1>5
  <2> QED BY <1>7, <2>1, <2>2, FoundInOrder
<1>12. Contains(words, AutoOption) <=> Contains(options, AutoOption)
  BY <1>1, FoundInOrder
<1> QED BY <1>9, <1>10, <1>11, <1>12

-----------------------------------------------------------------------------
(* What run() makes of the two scripts' command lines.                     *)
LEMMA ScriptedParse ==
    ASSUME ScriptedCommand \in DOMAIN Parsed
    PROVE  /\ Parsed[ScriptedCommand].auto = TRUE
           /\ Parsed[ScriptedCommand].policy = NoPolicy
           /\ Parsed[ScriptedCommand].ttl_seconds = Number[TtlWord]
<1> DEFINE options == <<AutoOption, TtlOption, TtlWord>>
           target == <<Python>>
<1>1. PICK words : words = CommandLine(options, target)
  OBVIOUS
<1>2. /\ AutoOption \in OptionNames /\ TtlOption \in OptionNames
      /\ TtlWord \notin OptionNames /\ Python \notin OptionNames
      /\ AutoOption # TtlOption /\ PolicyOption \notin {AutoOption, TtlOption, TtlWord}
  BY LaunchAssumption, WordsAssumption DEF OptionNames
<1>3. /\ DOMAIN options = 1..3 /\ Len(options) = 3
      /\ options[1] = AutoOption /\ options[2] = TtlOption /\ options[3] = TtlWord
  OBVIOUS
<1>4. InOrder(options, target)
  <2>1. options \in Seq({AutoOption, TtlOption, TtlWord, Python})
        /\ target \in Seq({AutoOption, TtlOption, TtlWord, Python})
    OBVIOUS
  <2>2. Range(target) \cap OptionNames = {}
    BY <1>2 DEF Range
  <2> HIDE DEF options, target
  <2>3. \A i \in DOMAIN options : i = 1 \/ i = 2 \/ i = 3
    BY <1>3
  <2>4. Unambiguous(options)
    BY <1>2, <1>3, <2>3 DEF Unambiguous
  <2> QED BY <2>1, <2>2, <2>4 DEF InOrder
<1>5. Gives(options, TtlOption, TtlWord)
  BY <1>3 DEF Gives
<1>6. /\ Contains(options, AutoOption) /\ Contains(options, TtlOption)
      /\ ~Contains(options, PolicyOption)
  <2> HIDE DEF options
  <2> QED BY <1>2, <1>3 DEF Contains
<1>7. Parsed[ScriptedCommand] = ParsedCommand(words)
  BY <1>1 DEF Parsed, Words, CommandLine, ScriptedCommand
<1> HIDE DEF options, target
<1>8. /\ Contains(words, AutoOption)
      /\ Contains(AfterAuto(words), TtlOption)
      /\ ValueOf(AfterAuto(words), TtlOption) = TtlWord
      /\ ~Contains(AfterTimeout(words), PolicyOption)
  BY <1>1, <1>4, <1>5, <1>6, ReadInOrder
<1> QED BY <1>7, <1>8 DEF ParsedCommand

(* Likewise for the policy client, whose policy file loads.                *)
LEMMA PolicyParse ==
    ASSUME PolicyCommand \in DOMAIN Parsed
    PROVE  /\ Parsed[PolicyCommand].auto = TRUE
           /\ Parsed[PolicyCommand].policy = LoadTaskPolicy(ExamplePolicy)
           /\ Parsed[PolicyCommand].policy # NoPolicy
<1> DEFINE options == <<AutoOption, PolicyOption, ExamplePolicy>>
           target == <<Python>>
<1>1. PICK words : words = CommandLine(options, target)
  OBVIOUS
<1>2. /\ AutoOption \in OptionNames /\ PolicyOption \in OptionNames
      /\ ExamplePolicy \notin OptionNames /\ Python \notin OptionNames
      /\ AutoOption # PolicyOption
  BY LaunchAssumption, WordsAssumption DEF OptionNames
<1>3. /\ DOMAIN options = 1..3 /\ Len(options) = 3
      /\ options[1] = AutoOption /\ options[2] = PolicyOption /\ options[3] = ExamplePolicy
  OBVIOUS
<1>4. InOrder(options, target)
  <2>1. options \in Seq({AutoOption, PolicyOption, ExamplePolicy, Python})
        /\ target \in Seq({AutoOption, PolicyOption, ExamplePolicy, Python})
    OBVIOUS
  <2>2. Range(target) \cap OptionNames = {}
    BY <1>2 DEF Range
  <2> HIDE DEF options, target
  <2>3. \A i \in DOMAIN options : i = 1 \/ i = 2 \/ i = 3
    BY <1>3
  <2>4. Unambiguous(options)
    BY <1>2, <1>3, <2>3 DEF Unambiguous
  <2> QED BY <2>1, <2>2, <2>4 DEF InOrder
<1>5. Gives(options, PolicyOption, ExamplePolicy)
  BY <1>3 DEF Gives
<1>6. Contains(options, AutoOption) /\ Contains(options, PolicyOption)
  <2> HIDE DEF options
  <2> QED BY <1>2, <1>3 DEF Contains
<1>7. Parsed[PolicyCommand] = ParsedCommand(words) /\ ~Refused(words)
  BY <1>1 DEF Parsed, Words, CommandLine, PolicyCommand
<1> HIDE DEF options, target
<1>8. /\ Contains(words, AutoOption)
      /\ Contains(AfterTimeout(words), PolicyOption)
      /\ ValueOf(AfterTimeout(words), PolicyOption) = ExamplePolicy
  BY <1>1, <1>4, <1>5, <1>6, ReadInOrder
<1>9. Loads(ExamplePolicy)
  BY <1>7, <1>8 DEF Refused
<1>10. LoadTaskPolicy(ExamplePolicy) # NoPolicy
  BY <1>9, NoPolicyAssumption DEF Loads
<1> QED BY <1>7, <1>8, <1>10 DEF ParsedCommand

-----------------------------------------------------------------------------
(* The proxy's invariant survives what the demo adds: a script's calls are *)
(* requests, and a client that sleeps only lets time pass.                 *)
Driven ==
    /\ client \in {ScriptedClient, PolicyClient, AnyClient}
    /\ client = ScriptedClient => command = ScriptedCommand
    /\ client = PolicyClient => command = PolicyCommand
    /\ beat \in Nat
    /\ rested \in BOOLEAN

(* Each client follows its own script, of at most four calls.              *)
LEMMA ScriptLength ==
    /\ Len(Script) \in 0..4
    /\ client = ScriptedClient => Script = ScriptedBeats
    /\ client = PolicyClient => Script = PolicyBeats
    /\ client \notin {ScriptedClient, PolicyClient} => Script = << >>
<1>1. Len(ScriptedBeats) = 4 /\ Len(PolicyBeats) = 4
  BY DEF ScriptedBeats, PolicyBeats
<1>2. /\ client = ScriptedClient => Script = ScriptedBeats
      /\ client = PolicyClient => Script = PolicyBeats
      /\ client \notin {ScriptedClient, PolicyClient} => Script = << >>
  BY DemoAssumption DEF Script
<1>3. Len(<< >>) = 0
  OBVIOUS
<1> QED BY <1>1, <1>2, <1>3

(* No step changes who drives the proxy or its command line.               *)
LEMMA DrivenKept ==
    ASSUME Driven, [DemoNext]_demoVars
    PROVE  Driven'
<1>1. UNCHANGED <<client, command>>
  BY DEF DemoNext, demoVars, vars, proxyVars, launchVars, clientVars, mailVars, DemoStart, Start,
         Consents, RequestConsent, EstablishGrant, Consented, NextBeat, Send, Sleep, AnyCall,
         Cancel, OnCallTool, Serve, Execute, Answer, TargetDies, Stop, Tick, Unmoved
<1>2. (beat' = beat /\ rested' \in {rested, TRUE}) \/ (beat' = beat + 1 /\ rested' = rested)
  BY DEF DemoNext, demoVars, clientVars, DemoStart, Consents, NextBeat, Sleep, AnyCall, Serve,
         Unmoved
<1>3. beat' \in Nat
  <2>1. beat \in Nat /\ (beat' = beat \/ beat' = beat + 1)
    BY <1>2, Zenon DEF Driven
  <2> QED BY <2>1
<1>4. rested' \in BOOLEAN
  BY <1>2, Zenon DEF Driven
<1> QED BY <1>1, <1>3, <1>4 DEF Driven

(* Every step of the demo keeps the proxy's invariant.                     *)
LEMMA DemoKeepsInv ==
    ASSUME Inv, Driven, [DemoNext]_demoVars
    PROVE  Inv'
<1>1. now \in Nat
  BY DEF Inv, Shaped
<1>2. CASE NextBeat
  <2>1. beat + 1 \in Requests
    BY <1>2, ScriptLength, DemoAssumption DEF NextBeat, Ready, Driven
  <2> QED BY <1>2, <2>1, SendInv DEF NextBeat
<1>3. CASE Sleep
  <2>1. now' \in Nat
    BY <1>1, <1>3, WordsAssumption DEF Sleep
  <2> QED BY <1>3, <2>1, TimePasses DEF Sleep
<1>4. CASE Tick
  <2>1. now' \in Nat
    BY <1>1, <1>4 DEF Tick
  <2> QED BY <1>4, <2>1, TimePasses DEF Tick
<1>5. CASE AnyCall
  <2>1. PICK r \in Requests : Cancel(r) \/ \E call \in ToolCalls : Send(r, call)
    BY <1>5, DemoAssumption DEF AnyCall
  <2> QED BY <2>1, ActsInv DEF Acts
<1>6. CASE UNCHANGED demoVars
  BY <1>6, StutterInv DEF demoVars
<1>7. CASE DemoStart \/ Consents \/ EstablishGrant \/ TargetDies \/ Stop
  BY <1>7, ActsInv DEF Acts, DemoStart, Consents
<1>8. ASSUME NEW r \in Requests, OnCallTool(r) \/ Serve(r) \/ Answer(r) PROVE Inv'
  BY <1>8, ActsInv DEF Acts, Serve
<1> QED BY <1>2, <1>3, <1>4, <1>5, <1>6, <1>7, <1>8 DEF DemoNext

(* How the process came to be where it is: by the command line it was      *)
(* given, and by the surface and the request that follow from that.        *)
Reads ==
    /\ command \in Commands
    /\ provider # Nobody => phase \in {"starting", "consenting"}
    /\ phase \in {"starting", "consenting", "serving"} =>
          command \in DOMAIN Parsed /\ launched = Parsed[command]
    /\ phase \in {"starting", "consenting"} =>
          \E console \in BOOLEAN : provider = ProviderFor(launched, console)
    /\ phase = "consenting" =>
          \E available \in OfferedTools : asked = ConsentRequest(launched, available)

(* Start, request, consent and end of the process keep the connection, and *)
(* nothing else touches it.                                                *)
LEMMA ReadsKept ==
    ASSUME Reads, [DemoNext]_demoVars
    PROVE  Reads'
<1>1. CASE Start
  BY <1>1 DEF Start, Reads, ConsoleAvailable
<1>2. ASSUME NEW available \in OfferedTools, RequestConsent(available) PROVE Reads'
  BY <1>2 DEF RequestConsent, Reads, launchVars
<1>3. CASE EstablishGrant
  <2>1. phase' \in {"failed", "serving"}
    BY <1>3 DEF EstablishGrant, ConsentRaises, Deny, Grant, MintFails
  <2> QED BY <1>3, <2>1 DEF EstablishGrant, Consented, Reads, launchVars
<1>4. CASE Stop
  BY <1>4 DEF Stop, Reads, launchVars
<1>5. CASE UNCHANGED <<command, phase, launched, provider, asked>>
  BY <1>5 DEF Reads
<1>6. \/ Start \/ (\E available \in OfferedTools : RequestConsent(available)) \/ EstablishGrant \/ Stop
      \/ UNCHANGED <<command, phase, launched, provider, asked>>
  BY DEF DemoNext, demoVars, vars, proxyVars, launchVars, DemoStart, Consents, NextBeat, Send,
         Sleep, AnyCall, Cancel, OnCallTool, Serve, Execute, Answer, TargetDies, Tick
<1> QED BY <1>1, <1>2, <1>3, <1>4, <1>5, <1>6

DemoInv == Inv /\ Driven /\ Reads

(* The proxy's invariant and the two facts above, in every state of every  *)
(* demo.                                                                   *)
LEMMA DemoInvariance == DemoSpec => []DemoInv
<1>1. DemoInit => DemoInv
  <2> SUFFICES ASSUME DemoInit PROVE DemoInv
    OBVIOUS
  <2>1. Inv
    BY InitInv DEF DemoInit
  <2>2. Driven
    BY DemoAssumption DEF DemoInit, Driven
  <2>3. Reads
    BY DEF DemoInit, Init, Reads
  <2> QED BY <2>1, <2>2, <2>3 DEF DemoInv
<1>2. DemoInv /\ [DemoNext]_demoVars => DemoInv'
  BY DemoKeepsInv, DrivenKept, ReadsKept DEF DemoInv
<1> QED BY <1>1, <1>2, PTL DEF DemoSpec

-----------------------------------------------------------------------------
(* A command line in order is understood as it is written (proxy.py:190-   *)
(* 213, 247-255), whoever gives it.                                        *)
LEMMA UnderstoodAsWritten ==
    ASSUME Reads
    PROVE  LaunchedAsWritten
<1> SUFFICES ASSUME provider # Nobody, Unambiguous(command.options),
                    Range(command.target) \cap OptionNames = {}
             PROVE  /\ launched.target = command.target
                    /\ Unattended <=> Contains(command.options, AutoOption)
                    /\ TaskPolicy # NoPolicy <=> Contains(command.options, PolicyOption)
  BY DEF LaunchedAsWritten
<1>1. /\ command \in DOMAIN Parsed /\ launched = Parsed[command]
      /\ \E console \in BOOLEAN : provider = ProviderFor(launched, console)
  BY DEF Reads
<1>2. PICK words : words = CommandLine(command.options, command.target)
  OBVIOUS
<1>3. launched = ParsedCommand(words) /\ ~Refused(words)
  BY <1>1, <1>2 DEF Parsed, Words, CommandLine
<1>4. InOrder(command.options, command.target)
  <2>1. /\ command.options \in Seq(Range(command.options))
        /\ command.target \in Seq(Range(command.target))
    BY LaunchAssumption DEF Reads
  <2> DEFINE both == Range(command.options) \cup Range(command.target)
  <2>2. command.options \in Seq(both) /\ command.target \in Seq(both)
    BY <2>1
  <2> QED BY <2>2 DEF InOrder
<1>5. /\ Contains(words, AutoOption) <=> Contains(command.options, AutoOption)
      /\ Contains(AfterTimeout(words), PolicyOption) <=> Contains(command.options, PolicyOption)
      /\ AfterPolicy(words) = command.target
  BY <1>2, <1>4, ReadInOrder
<1>6. launched.auto <=> Contains(command.options, AutoOption)
  BY <1>3, <1>5 DEF ParsedCommand
<1>7. launched.target = command.target
  BY <1>3, <1>5 DEF ParsedCommand
<1>8. TaskPolicy # NoPolicy <=> Contains(command.options, PolicyOption)
  <2> DEFINE path == ValueOf(AfterTimeout(words), PolicyOption)
  <2>1. launched.policy = IF Contains(AfterTimeout(words), PolicyOption)
                          THEN LoadTaskPolicy(path) ELSE NoPolicy
    BY <1>3 DEF ParsedCommand
  <2>2. Contains(AfterTimeout(words), PolicyOption) => Loads(path)
    BY <1>3 DEF Refused
  <2>3. Loads(path) => LoadTaskPolicy(path) # NoPolicy
    BY NoPolicyAssumption DEF Loads
  <2> HIDE DEF path
  <2> QED BY <1>5, <2>1, <2>2, <2>3 DEF TaskPolicy
<1>9. Unattended <=> launched.auto
  <2>1. PICK console \in BOOLEAN : provider = ProviderFor(launched, console)
    BY <1>1
  <2>2. CASE launched.auto
    BY <2>1, <2>2 DEF ProviderFor, SelectConsentProvider, Unattended
  <2>3. CASE ~launched.auto
    BY <2>1, <2>3 DEF ProviderFor, SelectConsentProvider, Unattended
  <2> QED BY <2>2, <2>3
<1> QED BY <1>6, <1>7, <1>8, <1>9

(* Every command line that names each option once, with its value, and has *)
(* none of their names among the target's words: --auto asks nobody, and   *)
(* only --auto; --policy is in force; the target gets its own words        *)
(* (proxy.py:190-213, 247-255).                                            *)
THEOREM AsWritten == DemoSpec => []LaunchedAsWritten
<1>1. DemoInv => LaunchedAsWritten
  BY UnderstoodAsWritten DEF DemoInv
<1> QED BY DemoInvariance, <1>1, PTL

-----------------------------------------------------------------------------
(* The field a rule of one key looks at.                                   *)
FieldOf(value, key) ==
    IF IsDict(value) THEN IF key \in DOMAIN value THEN value[key] ELSE Missing ELSE Missing

(* A path of one key leads to that field (policy.py: the dotted path of    *)
(* the example policy's rule has one part).                                *)
LEMMA FieldOfOne ==
    ASSUME NEW arguments, NEW key
    PROVE  ResolveField(arguments, <<key>>) = FieldOf(arguments, key)
<1> DEFINE path == <<key>>
           keys == DOMAIN path
           iter == CHOOSE iter :
                      iter = [s \in SUBSET keys |->
                                 IF s = {} THEN arguments
                                 ELSE FieldOf(iter[s \ {Max(s)}], path[Max(s)])]
<1>1. ResolveField(arguments, path) = iter[keys]
  BY DEF ResolveField, FoldLeft, MapThenFoldSet, FieldOf
<1>2. keys = {1} /\ path[1] = key
  OBVIOUS
<1>3. Max({1}) = 1
  BY DEF Max
<1> DEFINE witness == [s \in SUBSET keys |-> IF s = {} THEN arguments ELSE FieldOf(arguments, key)]
<1>4. witness = [s \in SUBSET keys |->
                    IF s = {} THEN arguments
                    ELSE FieldOf(witness[s \ {Max(s)}], path[Max(s)])]
  <2>1. \A s \in SUBSET keys : s = {} \/ s = {1}
    BY <1>2
  <2>2. witness[{}] = arguments
    OBVIOUS
  <2>3. ASSUME NEW s \in SUBSET keys, s # {}
        PROVE  FieldOf(witness[s \ {Max(s)}], path[Max(s)]) = FieldOf(arguments, key)
    <3>1. s = {1}
      BY <2>1, <2>3
    <3>2. Max(s) = 1 /\ s \ {Max(s)} = {}
      BY <1>3, <3>1
    <3> HIDE DEF witness
    <3> QED BY <1>2, <2>2, <3>2
  <2> QED BY <2>3
<1> HIDE DEF witness
<1>5. iter = [s \in SUBSET keys |->
                 IF s = {} THEN arguments ELSE FieldOf(iter[s \ {Max(s)}], path[Max(s)])]
  BY <1>4
<1> HIDE DEF iter
<1>6. iter[{}] = arguments
  BY <1>5
<1>7. iter[{1}] = FieldOf(iter[{1} \ {Max({1})}], path[Max({1})])
  BY <1>2, <1>5
<1>8. {1} \ {Max({1})} = {}
  BY <1>3
<1> QED BY <1>1, <1>2, <1>3, <1>6, <1>7, <1>8

-----------------------------------------------------------------------------
(* What the human behind each script agrees to, and for how long: --auto   *)
(* alone says yes to no withheld tool, for the ttl on the command line;    *)
(* --auto with the example policy says yes to what that names, under its   *)
(* rules (proxy.py:247-252).                                               *)
ExampleRules == PolicyConstraints(LoadTaskPolicy(ExamplePolicy))

OfTheScripts ==
    /\ client = ScriptedClient =>
          \A g \in DOMAIN approved :
              /\ approved[g].affirmed = {}
              /\ approved[g].from <= now
              /\ approved[g].until = approved[g].from + Number[TtlWord]
    /\ client = PolicyClient =>
          \A g \in DOMAIN approved :
              SendReply \in approved[g].tools =>
                  /\ SendReply \in DOMAIN approved[g].rules
                  /\ approved[g].rules[SendReply] = ExampleRules[SendReply]

(* The one decision a script's consent can come to.                        *)
LEMMA ScriptConsents ==
    ASSUME DemoInv, EstablishGrant, NEW decision \in Outcomes(provider, asked)
    PROVE  /\ client = ScriptedClient =>
                 /\ decision = DefaultDemoDecision(asked)
                 /\ asked.ttl_seconds = Number[TtlWord]
                 /\ \E available \in OfferedTools : asked.tools = available
           /\ client = PolicyClient =>
                 decision = AsRequested(asked) /\ asked.rules = ExampleRules
<1>1. /\ command \in DOMAIN Parsed /\ launched = Parsed[command]
      /\ \E console \in BOOLEAN : provider = ProviderFor(launched, console)
      /\ \E available \in OfferedTools : asked = ConsentRequest(launched, available)
  BY DEF EstablishGrant, Consented, DemoInv, Reads
<1>2. CASE client = ScriptedClient
  <2>1. launched.auto = TRUE /\ launched.policy = NoPolicy
        /\ launched.ttl_seconds = Number[TtlWord]
    BY <1>1, <1>2, ScriptedParse DEF DemoInv, Driven
  <2>2. provider = "scripted"
    BY <1>1, <2>1 DEF ProviderFor, SelectConsentProvider
  <2>3. PICK available \in OfferedTools : asked = RequestForAll(launched, available)
    BY <1>1, <2>1 DEF ConsentRequest
  <2>4. asked.ttl_seconds = Number[TtlWord] /\ asked.tools = available
    BY <2>1, <2>3 DEF RequestForAll
  <2>5. decision = DefaultDemoDecision(asked)
    BY <2>2 DEF Outcomes
  <2> QED BY <1>2, <2>4, <2>5, DemoAssumption
<1>3. CASE client = PolicyClient
  <2>1. launched.auto = TRUE /\ launched.policy = LoadTaskPolicy(ExamplePolicy)
        /\ launched.policy # NoPolicy
    BY <1>1, <1>3, PolicyParse DEF DemoInv, Driven
  <2>2. provider = "requested"
    BY <1>1, <2>1 DEF ProviderFor
  <2>3. asked = RequestFromPolicy(LoadTaskPolicy(ExamplePolicy))
    BY <1>1, <2>1 DEF ConsentRequest
  <2>4. asked.rules = ExampleRules
    BY <2>3 DEF RequestFromPolicy, ExampleRules
  <2>5. decision = AsRequested(asked)
    BY <2>2 DEF Outcomes
  <2> QED BY <1>3, <2>4, <2>5, DemoAssumption
<1> QED BY <1>2, <1>3

(* Every approval is one of these: only the consent of a script makes one, *)
(* and time does not go back.                                              *)
LEMMA OfTheScriptsKept ==
    ASSUME DemoInv, OfTheScripts, [DemoNext]_demoVars
    PROVE  OfTheScripts'
<1>0. client' = client /\ now \in Nat /\ Number[TtlWord] \in Nat
  BY WordsAssumption
     DEF DemoInv, Inv, Shaped, DemoNext, demoVars, clientVars, DemoStart, Consents, NextBeat, Sleep,
         AnyCall, Serve, Unmoved
<1>1. CASE approved' = approved
  <2>1. now' = now \/ now' = now + 1 \/ now' = now + Number[TtlWord] + 1
    BY DEF DemoNext, demoVars, vars, brokerVars, DemoStart, Start, Consents, RequestConsent,
           EstablishGrant, Consented, NextBeat, Send, Sleep, AnyCall, Cancel, OnCallTool,
           RefuseUngranted, Decide, Authorize, Serve, Execute, Answer, TargetDies, Stop, Tick
  <2>2. \A x \in Int : x <= now => x <= now'
    BY <1>0, <2>1
  <2>3. \A g \in DOMAIN approved : approved[g].from \in Int
    BY DEF DemoInv, Inv, ApprovedTyped
  <2> QED BY <1>0, <1>1, <2>2, <2>3 DEF OfTheScripts
<1>2. CASE approved' # approved
  <2>1. EstablishGrant
    BY <1>2
       DEF DemoNext, demoVars, vars, proxyVars, DemoStart, Start, Consents, RequestConsent,
           NextBeat, Send, Sleep, AnyCall, Cancel, OnCallTool, Serve, Execute, Answer, TargetDies,
           Stop, Tick
  <2>2. PICK decision \in Outcomes(provider, asked) :
            ConsentRaises(decision) \/ Deny(decision) \/ Grant(decision)
    BY <2>1 DEF EstablishGrant
  <2>3. Grant(decision)
    BY <1>2, <2>2 DEF ConsentRaises, Deny
  <2>4. PICK g \in GrantIds \ DOMAIN approved :
            approved' = [h \in DOMAIN approved \cup {g} |->
                            IF h = g THEN Approval(decision) ELSE approved[h]]
    BY <1>2, <2>3 DEF Grant, MintFails, RecordGrant, Approved
  <2>5. now' = now
    BY <2>1 DEF EstablishGrant, Consented, brokerVars
  <2>6. ASSUME client = ScriptedClient
        PROVE  /\ Approval(decision).affirmed = {}
               /\ Approval(decision).from <= now
               /\ Approval(decision).until = Approval(decision).from + Number[TtlWord]
    <3>1. decision.affirmed = {} /\ decision.ttl_seconds = Number[TtlWord]
      BY <2>1, <2>6, ScriptConsents DEF DefaultDemoDecision, Decision
    <3> QED BY <1>0, <3>1 DEF Approval
  <2>7. ASSUME client = PolicyClient, SendReply \in Approval(decision).tools
        PROVE  /\ SendReply \in DOMAIN Approval(decision).rules
               /\ Approval(decision).rules[SendReply] = ExampleRules[SendReply]
    <3>1. asked.rules = ExampleRules
      BY <2>1, <2>7, ScriptConsents
    <3>2. SendReply \in DOMAIN ExampleRules
      BY ExampleAssumption DEF ExampleRules
    <3>3. SendReply \in decision.granted_tools
      BY <2>7 DEF Approval
    <3> QED BY <3>1, <3>2, <3>3 DEF Approval
  <2>8. /\ DOMAIN approved' = DOMAIN approved \cup {g}
        /\ approved'[g] = Approval(decision)
        /\ \A h \in DOMAIN approved : approved'[h] = approved[h]
    BY <2>4
  <2> HIDE DEF Approval
  <2>9. client = ScriptedClient =>
            \A h \in DOMAIN approved' :
                /\ approved'[h].affirmed = {} /\ approved'[h].from <= now
                /\ approved'[h].until = approved'[h].from + Number[TtlWord]
    BY <2>6, <2>8 DEF OfTheScripts
  <2>10. client = PolicyClient =>
             \A h \in DOMAIN approved' :
                 SendReply \in approved'[h].tools =>
                     /\ SendReply \in DOMAIN approved'[h].rules
                     /\ approved'[h].rules[SendReply] = ExampleRules[SendReply]
    BY <2>7, <2>8 DEF OfTheScripts
  <2>11. ExampleRules' = ExampleRules
    BY DEF ExampleRules
  <2> QED BY <1>0, <2>5, <2>9, <2>10, <2>11 DEF OfTheScripts
<1> QED BY <1>1, <1>2

(* What the mail server holds as sent.                                     *)
Sending ==
    /\ client = ScriptedClient => sent = << >>
    /\ client = PolicyClient => sent \in Seq({ApprovedBody})

(* A call that sends is carried out only if it was approved: never in a    *)
(* scripted run, and with the approved body in a policy run.               *)
LEMMA SendsAsApproved ==
    ASSUME DemoInv, OfTheScripts, NEW r \in inbox, calls[r].tool = SendReply
    PROVE  /\ client # ScriptedClient
           /\ client = PolicyClient => calls[r].arguments["body"] = ApprovedBody
<1>1. PICK i \in AllowEntries : log[i].request = r
  BY DEF DemoInv, Inv, OnlyAdmitted, AdmittedRequests
<1>2. PICK g \in DOMAIN approved : Covers(g, calls[r])
  BY <1>1 DEF DemoInv, Inv, LogJudged
<1>3. SendReply \in approved[g].tools
  BY <1>2 DEF Covers
<1>4. client # ScriptedClient
  BY <1>3, MailAssumption DEF DemoInv, Inv, ApprovedTyped, OfTheScripts
<1>5. ASSUME client = PolicyClient
      PROVE  calls[r].arguments["body"] = ApprovedBody
  <2>1. RulesFor(SendReply, approved[g].rules) = ExampleRules[SendReply]
    BY <1>3, <1>5 DEF RulesFor, OfTheScripts
  <2>2. PICK k \in DOMAIN ExampleRules[SendReply] :
            ExampleRules[SendReply][k] =
                [field |-> <<"body">>, operator |-> "equals", value |-> ApprovedBody]
    BY ExampleAssumption DEF ExampleRules
  <2>3. RuleHolds([field |-> <<"body">>, operator |-> "equals", value |-> ApprovedBody],
                  calls[r].arguments)
    BY <1>2, <2>1, <2>2 DEF Covers, RulesHold
  <2>4. /\ ResolveField(calls[r].arguments, <<"body">>) # Missing
        /\ ResolveField(calls[r].arguments, <<"body">>) = ApprovedBody
    BY <2>3 DEF RuleHolds, Satisfies
  <2> QED BY <2>4, FieldOfOne DEF FieldOf
<1> QED BY <1>4, <1>5

(* Only a call the target carries out sends, and a restarted target has    *)
(* sent nothing.                                                           *)
LEMMA SendingKept ==
    ASSUME DemoInv, OfTheScripts, Sending, [DemoNext]_demoVars
    PROVE  Sending'
<1>0. client' = client
  BY DEF DemoNext, demoVars, clientVars, DemoStart, Consents, NextBeat, Sleep, AnyCall, Serve,
         Unmoved
<1>1. CASE UNCHANGED sent
  BY <1>0, <1>1 DEF Sending
<1>2. CASE DemoStart
  BY <1>0, <1>2 DEF Sending, DemoStart
<1>3. ASSUME NEW r \in Requests, Serve(r) PROVE Sending'
  <2>1. r \in inbox
    BY <1>3 DEF Serve, Execute
  <2>2. CASE calls[r].tool # SendReply
    BY <1>0, <1>3, <2>2 DEF Serve, Sending
  <2>3. CASE calls[r].tool = SendReply
    <3>1. client # ScriptedClient
      BY <2>1, <2>3, SendsAsApproved
    <3>2. ASSUME client = PolicyClient PROVE sent' \in Seq({ApprovedBody})
      <4>1. calls[r].arguments["body"] = ApprovedBody
        BY <2>1, <2>3, <3>2, SendsAsApproved
      <4>2. sent' = Append(sent, ApprovedBody)
        BY <1>3, <2>3, <4>1 DEF Serve
      <4>3. sent \in Seq({ApprovedBody})
        BY <3>2 DEF Sending
      <4> QED BY <4>2, <4>3
    <3> QED BY <1>0, <3>1, <3>2 DEF Sending
  <2> QED BY <2>2, <2>3
<1>4. UNCHANGED sent \/ DemoStart \/ \E r \in Requests : Serve(r)
  BY DEF DemoNext, demoVars, mailVars, Consents, NextBeat, Sleep, AnyCall, Unmoved
<1> QED BY <1>1, <1>2, <1>3, <1>4

(* In no scripted run is anything sent, and in no policy run anything but  *)
(* the approved body: however often the proxy is started again, whatever   *)
(* the target offers beside its own tools and whatever the policy says of  *)
(* them (scripted_client.py:8-9, policy_client.py:9-12).                   *)
THEOREM SentAsApproved == DemoSpec => []NothingUnapprovedSent
<1>1. DemoInit => OfTheScripts /\ Sending
  BY EmptySeq DEF DemoInit, Init, OfTheScripts, Sending
<1>2. DemoInv /\ OfTheScripts /\ Sending /\ [DemoNext]_demoVars => OfTheScripts' /\ Sending'
  BY OfTheScriptsKept, SendingKept
<1>3. Sending => NothingUnapprovedSent
  BY DEF Sending, NothingUnapprovedSent, Range
<1> QED BY DemoInvariance, <1>1, <1>2, <1>3, PTL DEF DemoSpec

-----------------------------------------------------------------------------
(* The replay at the end of a scripted run: the client starts its proxy    *)
(* once, has a grant while that serves, and sleeps past the end of every   *)
(* grant before it makes the call again (scripted_client.py:60-75).        *)
OnlyExpired(i) == log[i].request = 4 => log[i].decision = "deny" /\ log[i].reason = "expired"

Replaying ==
    /\ phase # "down" => sessions > 0
    /\ client = ScriptedClient =>
          /\ phase = "serving" => grant # Nobody
          /\ rested => /\ sessions > 0 /\ phase \notin {"starting", "consenting"}
                       /\ \A g \in DOMAIN approved : approved[g].until <= now
          /\ status[4] # "new" => rested
          /\ \A i \in DecisionEntries : OnlyExpired(i)

(* The decision on a call made after that sleep.                           *)
LEMMA ReplayExpired ==
    ASSUME DemoInv, OfTheScripts, Replaying, client = ScriptedClient, rested, grant # Nobody,
           NEW tool, NEW arguments
    PROVE  Verdict(grant, tool, Audience, arguments) = "expired"
<1>1. PICK g \in DOMAIN approved : grant = TokenFor(g)
  BY Active DEF DemoInv
<1>2. /\ grant.key_id = IssuerKeyId /\ VerifySignature(grant, IssuerKey)
      /\ grant.capability.issued_at = approved[g].from
      /\ grant.capability.expires_at = approved[g].until
  BY <1>1, TokenFields
<1>3. /\ now \in Int /\ approved[g].from \in Int /\ approved[g].until \in Int
      /\ approved[g].from <= now /\ approved[g].until <= now
  BY DEF DemoInv, Inv, Shaped, ApprovedTyped, OfTheScripts, Replaying
<1>4. ~(now < grant.capability.issued_at) /\ now >= grant.capability.expires_at
  BY <1>2, <1>3
<1>5. IssuerKeyId \in DOMAIN TrustedKeys /\ TrustedKeys[IssuerKeyId] = IssuerKey
  BY ProxyAssumption
<1> QED BY <1>2, <1>4, <1>5 DEF Verdict

(* The scripted consent grants something, so a proxy that serves after it  *)
(* has a grant.                                                            *)
LEMMA ScriptGrants ==
    ASSUME DemoInv, client = ScriptedClient, EstablishGrant, phase' = "serving"
    PROVE  grant' # Nobody
<1>1. PICK decision \in Outcomes(provider, asked) :
          ConsentRaises(decision) \/ Deny(decision) \/ Grant(decision)
  BY DEF EstablishGrant
<1>2. /\ decision = DefaultDemoDecision(asked)
      /\ \E available \in OfferedTools : asked.tools = available
  BY <1>1, ScriptConsents
<1>3. ReadThread \in Range(asked.tools) /\ Preapproved(ReadThread)
  BY <1>2, MailAssumption DEF Preapproved
<1>4. decision.approved
  BY <1>2, <1>3 DEF DefaultDemoDecision, Decision
<1>5. Grant(decision)
  BY <1>1, <1>4 DEF ConsentRaises, Deny
<1>6. PICK g \in GrantIds : grant' = Minted(g, decision)
  BY <1>5 DEF Grant, MintFails
<1>7. phase = "consenting" /\ asked \in Scopes /\ provider \in Providers
  BY DEF EstablishGrant, Consented, DemoInv, Inv, Started
<1>8. Faithful(decision, asked)
  <2>1. decision # Raised
    BY <1>5 DEF Grant
  <2> QED BY <1>1, <1>7, <2>1, ScopesTyped, OutcomesFaithful
<1> QED BY <1>6, <1>7, <1>8, MintedToken DEF DemoInv

(* With a single launch: no grant is issued after the sleep, and whatever  *)
(* is then decided is decided by expiry.                                   *)
LEMMA ReplayingKept ==
    ASSUME MaxSessions = 1, DemoInv, OfTheScripts, Replaying, [DemoNext]_demoVars
    PROVE  Replaying'
<1>0. /\ client' = client
      /\ now \in Nat /\ sessions \in 0..1 /\ 4 \in Requests
      /\ status \in [Requests -> {"new"} \cup InFlight \cup Settled]
      /\ log \in Seq(Entries)
      /\ \A g \in DOMAIN approved : approved[g].until \in Int /\ approved[g].from \in Int
  BY DemoAssumption
     DEF DemoInv, Inv, Shaped, LogTyped, ApprovedTyped, DemoNext, demoVars, clientVars, DemoStart,
         Consents, NextBeat, Sleep, AnyCall, Serve, Unmoved
<1> DEFINE SameLog == DecisionEntries' = DecisionEntries /\ \A i \in DecisionEntries : log'[i] = log[i]
<1>1. CASE DemoStart
  <2>1. phase = "down" /\ sessions = 0 /\ sessions' = 1 /\ phase' \in {"failed", "starting"}
    BY <1>0, <1>1 DEF DemoStart, Start
  <2>2. UNCHANGED <<log, status, rested>>
    BY <1>1 DEF DemoStart, Start, clientVars
  <2>3. client = ScriptedClient => ~rested
    BY <2>1 DEF Replaying
  <2> QED BY <1>0, <2>1, <2>2, <2>3 DEF Replaying, DecisionEntries, OnlyExpired
<1>2. ASSUME NEW available \in OfferedTools, RequestConsent(available), Unmoved PROVE Replaying'
  <2>1. /\ UNCHANGED <<log, status, rested, sessions, approved, now>>
        /\ phase = "starting" /\ phase' \in {"failed", "consenting"}
    BY <1>2 DEF RequestConsent, Unmoved, clientVars, launchVars, brokerVars
  <2> QED BY <1>0, <2>1 DEF Replaying, DecisionEntries, OnlyExpired
<1>3. CASE EstablishGrant /\ Unmoved
  <2>1. UNCHANGED <<status, rested, sessions, now>> /\ phase = "consenting"
    BY <1>3 DEF EstablishGrant, Consented, Unmoved, clientVars, launchVars, brokerVars
  <2>2. client = ScriptedClient => (phase' = "serving" => grant' # Nobody)
    BY <1>3, ScriptGrants
  <2>3. \A i \in DecisionEntries' : i \in DecisionEntries /\ log'[i] = log[i]
    <3>1. CASE UNCHANGED log
      BY <3>1 DEF DecisionEntries
    <3>2. CASE \E g \in GrantIds, d \in Outcomes(provider, asked) : RecordGrant(g, d)
      <4>1. PICK g \in GrantIds : Logged(IssueEntry(g))
        BY <3>2 DEF RecordGrant, IssueEntry
      <4>2. IssueEntry(g) \in Entries /\ IssueEntry(g).event # "tool_call"
        BY DEF Entries, IssueEntry
      <4>3. DecisionEntries' = DecisionEntries /\ \A i \in DOMAIN log : log'[i] = log[i]
        BY <1>0, <4>1, <4>2, Written
      <4> QED BY <4>3 DEF DecisionEntries
    <3> QED BY <1>3, <3>1, <3>2
            DEF EstablishGrant, ConsentRaises, Deny, Grant, MintFails
  <2>4. client = ScriptedClient => ~rested
    BY <2>1 DEF Replaying
  <2>5. sessions' > 0
    BY <2>1 DEF Replaying
  <2> QED BY <1>0, <2>1, <2>2, <2>3, <2>4, <2>5 DEF Replaying, OnlyExpired
<1>4. CASE NextBeat
  <2>1. UNCHANGED <<phase, sessions, grant, log, approved, now, rested>>
    BY <1>4 DEF NextBeat, Send, brokerVars, launchVars
  <2>2. ASSUME client = ScriptedClient, status'[4] # "new" PROVE rested
    <3>1. CASE status[4] # "new"
      BY <2>2, <3>1 DEF Replaying
    <3>2. CASE status[4] = "new"
      <4>1. beat + 1 = 4
        BY <1>0, <1>4, <2>2, <3>2 DEF NextBeat, Send
      <4>2. ScriptedBeats[4].sleeps
        BY DEF ScriptedBeats, AfterSleep, Beat
      <4> QED BY <1>4, <2>2, <4>1, <4>2, ScriptLength DEF NextBeat
    <3> QED BY <3>1, <3>2
  <2> QED BY <1>0, <2>1, <2>2 DEF Replaying, DecisionEntries, OnlyExpired
<1>5. CASE Sleep
  <2>1. /\ UNCHANGED <<phase, sessions, grant, log, approved, status>>
        /\ phase = "serving" /\ now' = now + Number[TtlWord] + 1 /\ rested' = TRUE
    BY <1>5 DEF Sleep, Ready, proxyVars, launchVars
  <2>2. client = ScriptedClient => \A g \in DOMAIN approved : approved[g].until <= now'
    <3>1. PICK n \in Nat : n = Number[TtlWord]
      BY WordsAssumption
    <3>2. ASSUME client = ScriptedClient, NEW g \in DOMAIN approved PROVE approved[g].until <= now'
      <4>1. approved[g].from <= now /\ approved[g].until = approved[g].from + n
        BY <3>1, <3>2 DEF OfTheScripts
      <4> QED BY <1>0, <2>1, <3>1, <4>1
    <3> QED BY <3>2
  <2>3. sessions > 0
    BY <2>1 DEF Replaying
  <2> QED BY <1>0, <2>1, <2>2, <2>3 DEF Replaying, DecisionEntries, OnlyExpired
<1>6. CASE AnyCall
  <2>1. client # ScriptedClient /\ UNCHANGED <<phase, sessions>>
    BY <1>6, DemoAssumption DEF AnyCall, Cancel, Send, launchVars
  <2> QED BY <1>0, <2>1 DEF Replaying
<1>7. ASSUME NEW r \in Requests, OnCallTool(r), Unmoved PROVE Replaying'
  <2>1. /\ UNCHANGED <<phase, sessions, grant, approved, now, rested>>
        /\ phase = "serving" /\ status[r] = "sent"
    BY <1>7
       DEF OnCallTool, RefuseUngranted, Decide, Authorize, Unmoved, clientVars, launchVars, brokerVars
  <2>2. \A q \in Requests : status'[q] # "new" => status[q] # "new"
    <3>1. \E s : status' = [status EXCEPT ![r] = s]
      BY <1>7 DEF OnCallTool, RefuseUngranted, Decide, Becomes, Forward
    <3> QED BY <1>0, <2>1, <3>1
  <2>3. ASSUME client = ScriptedClient, NEW i \in DecisionEntries' PROVE OnlyExpired(i)'
    <3>1. grant # Nobody
      BY <2>1, <2>3 DEF Replaying
    <3>2. CASE UNCHANGED log
      BY <2>3, <3>2 DEF Replaying, DecisionEntries, OnlyExpired
    <3>3. ASSUME NEW h, NEW d, NEW reason, ToolCallEntry(r, h, d, reason) \in Entries,
                 Logged(ToolCallEntry(r, h, d, reason)),
                 r = 4 => d = "deny" /\ reason = "expired"
          PROVE  OnlyExpired(i)'
      <4> DEFINE e == ToolCallEntry(r, h, d, reason)
      <4>1. /\ e \in Entries /\ e.event = "tool_call" /\ e.request = r
            /\ e.decision = d /\ e.reason = reason
        BY <3>3 DEF ToolCallEntry
      <4> HIDE DEF e
      <4>2. /\ DecisionEntries' = DecisionEntries \cup {Len(log) + 1}
            /\ \A k \in DOMAIN log : log'[k] = log[k]
            /\ log'[Len(log) + 1] = e
        BY <1>0, <3>3, <4>1, Written DEF e
      <4>3. CASE i \in DecisionEntries
        BY <2>3, <4>2, <4>3 DEF Replaying, DecisionEntries, OnlyExpired
      <4>4. CASE i = Len(log) + 1
        BY <3>3, <4>1, <4>2, <4>4 DEF OnlyExpired
      <4> QED BY <2>3, <4>2, <4>3, <4>4
    <3>4. PICK verdict : verdict = Verdict(grant, calls[r].tool, Audience, calls[r].arguments)
      OBVIOUS
    <3>5. r = 4 => verdict = "expired"
      BY <2>1, <2>3, <3>1, <3>4, ReplayExpired DEF Replaying
    <3>6. PICK g : g = grant.capability.grant_id
      OBVIOUS
    <3>7. g \in GrantIds
      BY <3>1, <3>6, Active DEF DemoInv
    <3>8. verdict \in Reasons \cup {"raise"}
      BY <3>4, VerdictTyped
    <3>9. \/ UNCHANGED log
          \/ verdict \notin {"raise", "allow"} /\ Logged(ToolCallEntry(r, g, "deny", verdict))
          \/ verdict = "allow" /\ Logged(ToolCallEntry(r, g, "allow", verdict))
      BY <1>7, <3>1, <3>4, <3>6 DEF OnCallTool, RefuseUngranted, Decide, AppendRaises
    <3>10. verdict # "raise" => /\ ToolCallEntry(r, g, "deny", verdict) \in Entries
                                /\ ToolCallEntry(r, g, "allow", verdict) \in Entries
      BY <3>7, <3>8 DEF Entries, ToolCallEntry
    <3> QED BY <3>2, <3>3, <3>5, <3>9, <3>10
  <2> QED BY <1>0, <2>1, <2>2, <2>3 DEF Replaying
<1>8. ASSUME NEW r \in Requests, Serve(r) \/ (Answer(r) /\ Unmoved) PROVE Replaying'
  <2>1. /\ UNCHANGED <<phase, sessions, grant, approved, now, rested, log>>
        /\ status'[4] # "new" => status[4] # "new"
    BY <1>0, <1>8
       DEF Serve, Execute, Answer, Becomes, Unmoved, clientVars, launchVars, brokerVars
  <2> QED BY <1>0, <2>1 DEF Replaying, DecisionEntries, OnlyExpired
<1>9. CASE Stop /\ Unmoved
  <2>1. /\ UNCHANGED <<sessions, approved, now, rested, log>>
        /\ phase' = "down"
        /\ status'[4] # "new" => status[4] # "new"
    BY <1>0, <1>9 DEF Stop, Unmoved, InFlight, clientVars, launchVars
  <2> QED BY <1>0, <2>1 DEF Replaying, DecisionEntries, OnlyExpired
<1>10. CASE (TargetDies /\ Unmoved) \/ (Tick /\ Unmoved) \/ UNCHANGED demoVars
  <2>1. /\ UNCHANGED <<phase, sessions, grant, approved, rested, log, status>>
        /\ now' = now \/ now' = now + 1
    BY <1>10
       DEF TargetDies, Tick, Unmoved, demoVars, vars, proxyVars, clientVars, launchVars, brokerVars
  <2>2. \A x \in Int : x <= now => x <= now'
    BY <1>0, <2>1
  <2> QED BY <1>0, <2>1, <2>2 DEF Replaying, DecisionEntries, OnlyExpired
<1> QED BY <1>1, <1>2, <1>3, <1>4, <1>5, <1>6, <1>7, <1>8, <1>9, <1>10 DEF DemoNext, Consents

(* A scripted client launches its proxy once. Then its replay, if it gets  *)
(* a decision at all, is refused because the capability is dead, whatever  *)
(* the clock, the writes, the target and the proxy do meanwhile, for any   *)
(* ttl, tools and number of grants. (With a second launch after the sleep  *)
(* the replay would meet a fresh grant, and be refused for its scope.)     *)
THEOREM ReplayRefused ==
    ASSUME MaxSessions = 1
    PROVE  DemoSpec => []ReplayDiesByExpiry
<1>1. DemoInit => OfTheScripts /\ Replaying
  <2> SUFFICES ASSUME DemoInit PROVE OfTheScripts /\ Replaying
    OBVIOUS
  <2>1. OfTheScripts
    BY DEF DemoInit, Init, OfTheScripts
  <2>2. phase = "down" /\ ~rested /\ log = << >> /\ status[4] = "new"
    BY DemoAssumption DEF DemoInit, Init
  <2>3. DecisionEntries = {}
    BY <2>2 DEF DecisionEntries
  <2> QED BY <2>1, <2>2, <2>3 DEF Replaying
<1>2. DemoInv /\ OfTheScripts /\ Replaying /\ [DemoNext]_demoVars => OfTheScripts' /\ Replaying'
  BY OfTheScriptsKept, ReplayingKept
<1>3. Replaying => ReplayDiesByExpiry
  BY DEF Replaying, OnlyExpired, ReplayDiesByExpiry
<1> QED BY DemoInvariance, <1>1, <1>2, <1>3, PTL DEF DemoSpec
=============================================================================
