--------------------------- MODULE AuditLogProofs ---------------------------
(***************************************************************************)
(* What AuditLog guarantees for any number of entries and payloads: the    *)
(* file only grows and loses nothing silently, whoever writes and whatever *)
(* fails; and with a single writer whose writes do not fail, its chain and *)
(* its numbering are intact, and which edits are noticed is exactly known. *)
(***************************************************************************)
EXTENDS AuditLog, SequenceTheorems, TLAPS

-----------------------------------------------------------------------------
(* Entries embed entries, so no set of all of them is at hand: a sequence  *)
(* is one over its own elements.                                           *)
IsSeq(s) == s \in Seq(Range(s))

(* A list given by its length and its elements is a sequence.              *)
LEMMA OverOwnElements ==
    ASSUME NEW S, NEW s \in Seq(S)
    PROVE  IsSeq(s)
<1>1. Len(s) \in Nat /\ s \in [1..Len(s) -> S]
  BY LenProperties
<1>2. \A i \in 1..Len(s) : s[i] \in Range(s)
  BY <1>1 DEF Range
<1>3. s \in [1..Len(s) -> Range(s)]
  BY <1>1, <1>2
<1>4. s \in Seq(Range(s))
  BY <1>1, <1>3
<1> QED BY <1>4 DEF IsSeq

(* What append does to a list (audit.py:117, 119-120).                     *)
LEMMA Appended ==
    ASSUME NEW s, IsSeq(s), NEW e
    PROVE  /\ IsSeq(Append(s, e))
           /\ Len(s) \in Nat /\ DOMAIN s = 1..Len(s)
           /\ Len(Append(s, e)) = Len(s) + 1
           /\ DOMAIN Append(s, e) = 1..(Len(s) + 1)
           /\ \A i \in 1..Len(s) : Append(s, e)[i] = s[i]
           /\ Append(s, e)[Len(s) + 1] = e
<1> DEFINE S == Range(s) \cup {e}
<1>1. s \in Seq(S) /\ e \in S
  BY DEF IsSeq
<1>2. /\ Len(s) \in Nat /\ DOMAIN s = 1..Len(s)
      /\ Len(Append(s, e)) = Len(s) + 1
      /\ DOMAIN Append(s, e) = 1..(Len(s) + 1)
      /\ \A i \in 1..Len(s) : Append(s, e)[i] = s[i]
      /\ Append(s, e)[Len(s) + 1] = e
  BY <1>1
<1>3. Append(s, e) \in Seq(S)
  BY <1>1
<1>4. IsSeq(Append(s, e))
  BY <1>3, OverOwnElements
<1> QED BY <1>2, <1>4

(* Changing an element leaves a sequence of the same length.               *)
LEMMA Replaced ==
    ASSUME NEW s, IsSeq(s), NEW i \in DOMAIN s, NEW e
    PROVE  /\ IsSeq([s EXCEPT ![i] = e])
           /\ Len([s EXCEPT ![i] = e]) = Len(s)
           /\ DOMAIN [s EXCEPT ![i] = e] = DOMAIN s
           /\ Len(s) \in Nat /\ DOMAIN s = 1..Len(s)
<1> DEFINE S == Range(s) \cup {e}
           t == [s EXCEPT ![i] = e]
<1>1. s \in Seq(S) /\ e \in S /\ Len(s) \in Nat /\ DOMAIN s = 1..Len(s)
  BY DEF IsSeq
<1>2. t \in Seq(S) /\ Len(t) = Len(s) /\ DOMAIN t = DOMAIN s
  BY <1>1, ExceptSeq
<1>3. IsSeq(t)
  BY <1>2, OverOwnElements
<1> QED BY <1>1, <1>2, <1>3

(* The empty log.                                                          *)
LEMMA NoEntries == IsSeq(<< >>) /\ Len(<< >>) = 0 /\ DOMAIN << >> = {}
  BY EmptySeq DEF IsSeq

-----------------------------------------------------------------------------
(* Writing, whole or cut short, leaves every line that was ended alone: a  *)
(* file opened with "a" is only added to, and what runs into a line that   *)
(* was not ended changes that line only (audit.py:119-120).                *)
Keeps(before, after) ==
    \A i \in DOMAIN before : before[i].ended => i \in DOMAIN after /\ after[i] = before[i]

(* A whole piece, after an ended line or run together with an open one.    *)
LEMMA WrittenKeeps ==
    ASSUME IsSeq(file), NEW piece
    PROVE  IsSeq(Written(piece)) /\ Keeps(file, Written(piece))
<1>1. CASE file = << >> \/ Last(file).ended
  <2>1. Written(piece) = Append(file, piece)
    BY <1>1 DEF Written
  <2> QED BY <2>1, Appended DEF Keeps
<1>2. CASE ~(file = << >> \/ Last(file).ended)
  <2> DEFINE n == Len(file)
             e == Garbage(piece.ended)
  <2>1. Written(piece) = [file EXCEPT ![n] = e] /\ ~file[n].ended
    BY <1>2 DEF Written, ReplaceAt, Last
  <2>2. n \in DOMAIN file
    BY <1>2, EmptySeq DEF IsSeq
  <2>3. IsSeq([file EXCEPT ![n] = e]) /\ DOMAIN [file EXCEPT ![n] = e] = DOMAIN file
    BY <2>2, Replaced
  <2>4. \A i \in DOMAIN file : file[i].ended => i # n
    BY <2>1
  <2> QED BY <2>1, <2>3, <2>4 DEF Keeps
<1> QED BY <1>1, <1>2

(* A write that failed, or that a death cut short.                         *)
LEMMA CutShortKeeps ==
    ASSUME IsSeq(file), NEW entry, NEW f \in CutShort(entry)
    PROVE  IsSeq(f) /\ Keeps(file, f)
  BY WrittenKeeps DEF CutShort, Keeps

(* Every step of any process; an edit is the only one that is excepted.    *)
LEMMA FileStep ==
    ASSUME IsSeq(file), [Next]_vars
    PROVE  IsSeq(file') /\ (edited' = edited => Keeps(file, file'))
<1>1. CASE UNCHANGED file
  BY <1>1 DEF Keeps
<1>2. ASSUME NEW p \in Processes, Write(p) PROVE IsSeq(file') /\ Keeps(file, file')
  BY <1>2, WrittenKeeps DEF Write
<1>3. ASSUME NEW p \in Processes, WriteFails(p) PROVE IsSeq(file') /\ Keeps(file, file')
  BY <1>3, CutShortKeeps DEF WriteFails
<1>4. ASSUME NEW p \in Processes, Crash(p) PROVE IsSeq(file') /\ Keeps(file, file')
  <2>1. file' = file \/ file' \in CutShort(Last(memory[p]))
    BY <1>4 DEF Crash
  <2> QED BY <2>1, CutShortKeeps DEF Keeps
<1>5. ASSUME NEW i \in DOMAIN file, NEW payload \in Payloads, Edit(i, payload)
      PROVE  IsSeq(file') /\ edited' # edited
  <2>1. i # 0
    BY Appended
  <2>2. file' = [file EXCEPT ![i] = [file[i] EXCEPT !.entry.payload = payload]]
    BY <1>5 DEF Edit
  <2>3. IsSeq(file')
    BY <2>2, Replaced
  <2> QED BY <1>5, <2>1, <2>3 DEF Edit
<1> QED BY <1>1, <1>2, <1>3, <1>4, <1>5 DEF Next, vars, Open, AppendToMemory

(* OnlyGrows for every number of writers, whatever fails or crashes.       *)
THEOREM LinesAreKept == Spec => OnlyGrows
<1>1. Init => IsSeq(file)
  BY NoEntries DEF Init
<1>2. IsSeq(file) /\ [Next]_vars => IsSeq(file)'
  BY FileStep
<1>3. IsSeq(file) /\ [Next]_vars =>
        [edited' = edited =>
          \A i \in DOMAIN file : file[i].ended => i \in DOMAIN file' /\ file'[i] = file[i]]_vars
  BY FileStep DEF Keeps
<1> QED BY <1>1, <1>2, <1>3, PTL DEF Spec, OnlyGrows

-----------------------------------------------------------------------------
(* The entry append() builds extends a chain (audit.py:105-116).           *)
LEMMA ChainExtends ==
    ASSUME NEW s, IsSeq(s), Chained(s), NEW payload
    PROVE  Chained(Append(s, NextEntry(s, payload)))
<1> DEFINE e == NextEntry(s, payload)
           t == Append(s, e)
<1>1. /\ Len(s) \in Nat /\ DOMAIN s = 1..Len(s) /\ DOMAIN t = 1..(Len(s) + 1)
      /\ \A i \in 1..Len(s) : t[i] = s[i]
      /\ t[Len(s) + 1] = e
  BY Appended
<1>2. e.prev_hash = IF Len(s) = 0 THEN Genesis ELSE s[Len(s)]
  <2>1. s = << >> <=> Len(s) = 0
    BY EmptySeq DEF IsSeq
  <2> QED BY <2>1 DEF NextEntry, Last
<1> HIDE DEF e, t
<1>3. ASSUME NEW i \in 1..(Len(s) + 1)
      PROVE  t[i].prev_hash = IF i = 1 THEN Genesis ELSE t[i - 1]
  <2>1. CASE i \in 1..Len(s)
    <3>1. t[i] = s[i] /\ i \in DOMAIN s /\ (i # 1 => i - 1 \in 1..Len(s))
      BY <1>1, <2>1
    <3>2. i # 1 => t[i - 1] = s[i - 1]
      BY <1>1, <3>1
    <3> QED BY <3>1, <3>2 DEF Chained
  <2>2. CASE i = Len(s) + 1
    <3>1. t[i] = e
      BY <1>1, <2>2
    <3>2. Len(s) # 0 => i - 1 = Len(s) /\ t[i - 1] = s[Len(s)]
      BY <1>1, <2>2
    <3> QED BY <1>1, <1>2, <2>2, <3>1, <3>2
  <2> QED BY <1>1, <2>1, <2>2
<1> QED BY <1>1, <1>3 DEF Chained, t, e

(* The entries of a file, and of a file with one more line.                *)
Entries(f) == [i \in DOMAIN f |-> f[i].entry]

(* A file holds as many entries as it has lines.                           *)
LEMMA EntriesSeq ==
    ASSUME NEW f, IsSeq(f)
    PROVE  IsSeq(Entries(f)) /\ Len(Entries(f)) = Len(f)
<1> DEFINE S == {f[i].entry : i \in DOMAIN f}
<1>1. Len(f) \in Nat /\ DOMAIN f = 1..Len(f)
  BY Appended
<1>2. Entries(f) \in [1..Len(f) -> S]
  BY <1>1 DEF Entries
<1>3. Entries(f) \in Seq(S) /\ Len(Entries(f)) = Len(f)
  BY <1>1, <1>2
<1> QED BY <1>3, OverOwnElements

(* One more line is one more entry.                                        *)
LEMMA EntriesAppend ==
    ASSUME NEW f, IsSeq(f), NEW e
    PROVE  Entries(Append(f, Line(e, TRUE))) = Append(Entries(f), e)
<1> DEFINE n == Len(f)
           g == Append(f, Line(e, TRUE))
           h == Append(Entries(f), e)
<1>1. /\ n \in Nat /\ DOMAIN f = 1..n /\ DOMAIN g = 1..(n + 1)
      /\ \A i \in 1..n : g[i] = f[i]
      /\ g[n + 1].entry = e
  BY Appended DEF Line
<1>2. /\ DOMAIN h = 1..(n + 1)
      /\ \A i \in 1..n : h[i] = f[i].entry
      /\ h[n + 1] = e
      /\ IsSeq(h)
  <2>1. IsSeq(Entries(f)) /\ Len(Entries(f)) = n
    BY EntriesSeq
  <2> QED BY <1>1, <2>1, Appended DEF Entries
<1> HIDE DEF g, h
<1>3. h = [i \in DOMAIN h |-> h[i]]
  BY <1>2, LenProperties DEF IsSeq
<1>4. ASSUME NEW i \in 1..(n + 1) PROVE g[i].entry = h[i]
  <2>1. i \in 1..n \/ i = n + 1
    BY <1>1
  <2> QED BY <1>1, <1>2, <2>1
<1>5. Entries(g) = h
  BY <1>1, <1>2, <1>3, <1>4 DEF Entries
<1> QED BY <1>5 DEF g, h

-----------------------------------------------------------------------------
(* ChainIntact is not inductive: the next line chains to what its writer   *)
(* remembers. With a single writer p whose writes do not fail, what p      *)
(* remembers is what the file holds, and one entry more while it writes:   *)
(* as long as nobody has edited the file, and again once p loaded an edit. *)
WithNumber(e, n) == [seq |-> n, payload |-> e.payload, prev_hash |-> e.prev_hash]

Complete(line, n) == line = Line(WithNumber(line.entry, n), TRUE)

Carried == edited = 0 \/ adopted

InStep(p) ==
    /\ state[p] = "open" =>
          /\ Len(memory[p]) = Len(file)
          /\ Carried => memory[p] = Entries(file)
    /\ state[p] = "writing" =>
          /\ Last(memory[p]) = WithNumber(Last(memory[p]), Len(file) + 1)
          /\ Len(memory[p]) = Len(file) + 1
          /\ Carried =>
                /\ memory[p] = Append(Entries(file), Last(memory[p]))
                /\ Chained(memory[p])

OneWriter(p) ==
    /\ p \in DOMAIN memory /\ p \in DOMAIN state
    /\ state[p] \in {"closed", "open", "writing"}
    /\ IsSeq(file) /\ IsSeq(memory[p])
    /\ \A i \in DOMAIN file : Complete(file[i], i)
    /\ edited \in 0..Len(file) /\ (adopted => edited # 0)
    /\ Carried \/ edited = Len(file) => Chained(Entries(file))
    /\ InStep(p)

(* An entry appended to memory is one step ahead of the file.              *)
LEMMA RemembersNext ==
    ASSUME NEW p, OneWriter(p), NEW payload, AppendToMemory(p, payload)
    PROVE  OneWriter(p)'
<1> DEFINE e == NextEntry(memory[p], payload)
<1>1. /\ state[p] = "open" /\ state'[p] = "writing"
      /\ memory'[p] = Append(memory[p], e)
      /\ p \in DOMAIN memory' /\ p \in DOMAIN state'
      /\ file' = file /\ edited' = edited /\ adopted' = adopted
  BY DEF AppendToMemory, OneWriter
<1>2. /\ IsSeq(memory[p]) /\ Len(memory[p]) = Len(file)
      /\ Carried => memory[p] = Entries(file) /\ Chained(memory[p])
  BY <1>1 DEF OneWriter, InStep
<1>3. /\ IsSeq(memory'[p]) /\ Len(memory'[p]) = Len(file) + 1
      /\ memory'[p][Len(file) + 1] = e
  BY <1>1, <1>2, Appended
<1>4. Last(memory'[p]) = e
  BY <1>3 DEF Last
<1>5. e = WithNumber(e, Len(file) + 1)
  BY <1>2 DEF NextEntry, WithNumber
<1>6. Carried => Chained(memory'[p])
  BY <1>1, <1>2, ChainExtends
<1>7. Carried' = Carried
  BY <1>1 DEF Carried
<1>8. InStep(p)'
  BY <1>1, <1>2, <1>3, <1>4, <1>5, <1>6, <1>7 DEF InStep
<1> QED BY <1>1, <1>3, <1>7, <1>8 DEF OneWriter

(* A single writer whose writes are whole only ever appends.               *)
LEMMA WritesWhole ==
    ASSUME NEW p, OneWriter(p), Write(p)
    PROVE  file' = Append(file, Line(Last(memory[p]), TRUE))
<1>1. IsSeq(file) /\ Len(file) \in Nat /\ DOMAIN file = 1..Len(file)
  BY Appended DEF OneWriter
<1>2. file = << >> \/ Last(file).ended
  <2>1. CASE file # << >>
    <3>1. Len(file) \in DOMAIN file
      BY <1>1, <2>1, EmptySeq DEF IsSeq
    <3> QED BY <3>1 DEF OneWriter, Complete, Line, Last
  <2> QED BY <2>1
<1> QED BY <1>2 DEF Write, Written

(* The write brings the file in step with the memory.                      *)
LEMMA WritesNext ==
    ASSUME NEW p, OneWriter(p), Write(p)
    PROVE  OneWriter(p)'
<1> DEFINE e == Last(memory[p])
           l == Line(e, TRUE)
           n == Len(file)
<1>1. /\ state[p] = "writing" /\ state'[p] = "open"
      /\ file' = Written(l) /\ memory' = memory
      /\ edited' = edited /\ adopted' = adopted
      /\ p \in DOMAIN memory' /\ p \in DOMAIN state'
  BY DEF Write, OneWriter
<1>2. IsSeq(file) /\ n \in Nat /\ DOMAIN file = 1..n
  BY Appended DEF OneWriter
<1>4. file' = Append(file, l)
  BY WritesWhole
<1>5. /\ IsSeq(file') /\ Len(file') = n + 1 /\ DOMAIN file' = 1..(n + 1)
      /\ \A i \in 1..n : file'[i] = file[i]
      /\ file'[n + 1] = l
  <2> HIDE DEF l
  <2>1. /\ IsSeq(Append(file, l)) /\ Len(Append(file, l)) = n + 1
        /\ DOMAIN Append(file, l) = 1..(n + 1)
        /\ \A i \in 1..n : Append(file, l)[i] = file[i]
        /\ Append(file, l)[n + 1] = l
    BY <1>2, Appended
  <2> QED BY <1>4, <2>1
<1>6. e = WithNumber(e, n + 1) /\ Len(memory[p]) = n + 1
  BY <1>1 DEF OneWriter, InStep
<1>7. ASSUME NEW i \in DOMAIN file'
      PROVE  Complete(file'[i], i)
  <2>1. CASE i \in 1..n
    BY <1>2, <1>5, <2>1 DEF OneWriter
  <2>2. CASE i = n + 1
    <3>1. file'[i] = Line(e, TRUE) /\ file'[i].entry = e
      BY <1>5, <2>2 DEF Line
    <3> QED BY <1>6, <2>2, <3>1 DEF Complete
  <2>3. i \in 1..n \/ i = n + 1
    BY <1>2, <1>5
  <2> QED BY <2>1, <2>2, <2>3
<1>8. Carried => memory[p] = Entries(file') /\ Chained(memory[p])
  BY <1>1, <1>2, <1>4, EntriesAppend DEF OneWriter, InStep
<1>9. Carried' = Carried /\ edited \in 0..(n + 1) /\ edited # n + 1
  <2>1. PICK k : k = edited
    OBVIOUS
  <2>2. k \in 0..n
    BY <2>1 DEF OneWriter
  <2>3. k \in 0..(n + 1) /\ k # n + 1
    BY <1>2, <2>2
  <2> QED BY <1>1, <2>1, <2>3 DEF Carried
<1>10. InStep(p)'
  BY <1>1, <1>5, <1>6, <1>8, <1>9 DEF InStep
<1>11. (Carried \/ edited = Len(file) => Chained(Entries(file)))'
  BY <1>1, <1>5, <1>8, <1>9
<1>12. (edited \in 0..Len(file) /\ (adopted => edited # 0))'
  BY <1>1, <1>5, <1>9 DEF OneWriter
<1> QED BY <1>1, <1>5, <1>7, <1>10, <1>11, <1>12 DEF OneWriter

(* An edited line keeps its number and its form.                           *)
LEMMA EditedEntry ==
    ASSUME NEW r, NEW n, NEW q, NEW h, NEW v,
           r = [seq |-> n, payload |-> q, prev_hash |-> h]
    PROVE  [r EXCEPT !.payload = v] = [seq |-> n, payload |-> v, prev_hash |-> h]
<1>1. DOMAIN r = {"seq", "payload", "prev_hash"}
  OBVIOUS
<1>2. [r EXCEPT !.payload = v] =
         [f \in {"seq", "payload", "prev_hash"} |-> IF f = "payload" THEN v ELSE r[f]]
  BY <1>1
<1> QED BY <1>2

(* The same of the line around the entry.                                  *)
LEMMA EditedRecord ==
    ASSUME NEW r, NEW a, NEW q, NEW b, NEW x,
           r = [parses |-> a, entry |-> q, ended |-> b]
    PROVE  [r EXCEPT !.entry = x] = [parses |-> a, entry |-> x, ended |-> b]
<1>1. DOMAIN r = {"parses", "entry", "ended"}
  OBVIOUS
<1>2. [r EXCEPT !.entry = x] =
         [f \in {"parses", "entry", "ended"} |-> IF f = "entry" THEN x ELSE r[f]]
  BY <1>1
<1> QED BY <1>2

(* The two together.                                                       *)
LEMMA EditedPiece ==
    ASSUME NEW line, NEW a, NEW b, NEW r, NEW n, NEW q, NEW h, NEW v,
           line = [parses |-> a, entry |-> r, ended |-> b],
           r = [seq |-> n, payload |-> q, prev_hash |-> h]
    PROVE  [line EXCEPT !.entry.payload = v] =
              [parses |-> a,
               entry |-> [seq |-> n, payload |-> v, prev_hash |-> h],
               ended |-> b]
<1>1. PICK x : x = [r EXCEPT !.payload = v]
  OBVIOUS
<1>2. x = [seq |-> n, payload |-> v, prev_hash |-> h]
  BY <1>1, EditedEntry
<1>3. line.entry = r
  OBVIOUS
<1>4. [line EXCEPT !.entry.payload = v] = [line EXCEPT !.entry = x]
  BY <1>1, <1>3
<1>5. [line EXCEPT !.entry = x] = [parses |-> a, entry |-> x, ended |-> b]
  BY EditedRecord
<1> QED BY <1>2, <1>4, <1>5

(* An edited line is still complete, numbered n and chained as it was.     *)
LEMMA EditedLine ==
    ASSUME NEW line, NEW n, NEW v, Complete(line, n)
    PROVE  /\ Complete([line EXCEPT !.entry.payload = v], n)
           /\ [line EXCEPT !.entry.payload = v].entry.prev_hash = line.entry.prev_hash
<1>1. PICK t, q, h, r : /\ line = [parses |-> t, entry |-> r, ended |-> t]
                        /\ r = [seq |-> n, payload |-> q, prev_hash |-> h]
                        /\ t = TRUE
  BY Zenon DEF Complete, Line, WithNumber
<1>2. line = [parses |-> t, entry |-> r, ended |-> t]
  BY <1>1, Zenon
<1>3. r = [seq |-> n, payload |-> q, prev_hash |-> h]
  BY <1>1, Zenon
<1>4. [line EXCEPT !.entry.payload = v] =
         [parses |-> t, entry |-> [seq |-> n, payload |-> v, prev_hash |-> h],
          ended |-> t]
  BY <1>2, <1>3, EditedPiece
<1>5. PICK l, x : /\ l = [line EXCEPT !.entry.payload = v]
                  /\ x = [seq |-> n, payload |-> v, prev_hash |-> h]
  OBVIOUS
<1>6. l = [parses |-> t, entry |-> x, ended |-> t] /\ l.entry = x
  BY <1>4, <1>5
<1>7. x = WithNumber(x, n)
  BY <1>5 DEF WithNumber
<1>8. l = Line(x, TRUE)
  BY <1>1, <1>6, Zenon DEF Line
<1>9. Complete(l, n)
  BY <1>6, <1>7, <1>8, Zenon DEF Complete
<1>10. l.entry.prev_hash = line.entry.prev_hash
  BY <1>2, <1>3, <1>5, <1>6
<1> QED BY <1>5, <1>9, <1>10

(* Loading the file, dying, and an edit of one line.                       *)
LEMMA OthersKeep ==
    ASSUME NEW p, OneWriter(p), ~CrashMayTear,
           \/ Open(p)
           \/ Crash(p)
           \/ \E i \in DOMAIN file, payload \in Payloads : Edit(i, payload)
           \/ UNCHANGED vars
    PROVE  OneWriter(p)'
<1>1. CASE Open(p)
  <2>1. Loadable
    BY DEF OneWriter, Complete, Loadable, Line
  <2>2. /\ state'[p] = "open" /\ memory'[p] = Entries(file)
        /\ p \in DOMAIN memory' /\ p \in DOMAIN state'
        /\ file' = file /\ edited' = edited
        /\ adopted' = (adopted \/ (edited # 0 /\ edited = Len(file)))
    BY <1>1, <2>1 DEF Open, OneWriter, Entries, FileEntries
  <2>3. IsSeq(Entries(file)) /\ Len(Entries(file)) = Len(file)
    BY EntriesSeq DEF OneWriter
  <2>4. InStep(p)'
    BY <2>2, <2>3 DEF InStep
  <2>5. (Carried \/ edited = Len(file))' => Carried \/ edited = Len(file)
    BY <2>2, Zenon DEF Carried
  <2>6. adopted' => edited # 0
    BY <2>2, Zenon DEF OneWriter
  <2> QED BY <2>2, <2>3, <2>4, <2>5, <2>6 DEF OneWriter
<1>2. CASE Crash(p)
  <2>1. /\ state'[p] = "closed" /\ memory'[p] = << >>
        /\ p \in DOMAIN memory' /\ p \in DOMAIN state'
        /\ file' = file /\ edited' = edited /\ adopted' = adopted
    BY <1>2 DEF Crash, OneWriter
  <2>2. InStep(p)' /\ Carried' = Carried
    BY <2>1 DEF InStep, Carried
  <2> QED BY <2>1, <2>2, NoEntries DEF OneWriter
<1>3. ASSUME NEW i \in DOMAIN file, NEW payload \in Payloads, Edit(i, payload)
      PROVE  OneWriter(p)'
  <2> DEFINE l == [file[i] EXCEPT !.entry.payload = payload]
  <2>1. /\ file' = [file EXCEPT ![i] = l] /\ edited' = i /\ edited = 0
        /\ memory' = memory /\ state' = state /\ adopted' = adopted
    BY <1>3 DEF Edit
  <2>2. IsSeq(file) /\ Complete(file[i], i)
    BY DEF OneWriter
  <2>4. Complete(l, i) /\ l.entry.prev_hash = file[i].entry.prev_hash
    <3>1. PICK o : o = file[i]
      OBVIOUS
    <3>2. /\ Complete([o EXCEPT !.entry.payload = payload], i)
          /\ [o EXCEPT !.entry.payload = payload].entry.prev_hash = o.entry.prev_hash
      BY <2>2, <3>1, EditedLine
    <3> QED BY <3>1, <3>2
  <2> HIDE DEF l
  <2>5. /\ IsSeq(file') /\ Len(file') = Len(file) /\ DOMAIN file' = DOMAIN file
        /\ DOMAIN file = 1..Len(file) /\ Len(file) \in Nat
    BY <2>1, <2>2, Replaced
  <2>6. ASSUME NEW j \in DOMAIN file'
        PROVE  Complete(file'[j], j)
    <3>1. CASE j = i
      BY <2>1, <2>4, <2>5, <3>1
    <3>2. CASE j # i
      <4>1. file'[j] = file[j] /\ j \in DOMAIN file
        BY <2>1, <2>5, <3>2
      <4>2. Complete(file[j], j)
        BY <4>1 DEF OneWriter
      <4> QED BY <4>1, <4>2
    <3> QED BY <3>1, <3>2
  <2>7. ~Carried' /\ edited' # 0
    BY <2>1, <2>5 DEF OneWriter, Carried
  <2>8. InStep(p)'
    BY <2>1, <2>5, <2>7 DEF OneWriter, InStep
  <2>9. ASSUME i = Len(file) PROVE Chained(Entries(file'))
    <3>1. Chained(Entries(file))
      BY <2>1 DEF OneWriter, Carried
    <3>2. \A j \in DOMAIN file : file'[j].entry.prev_hash = file[j].entry.prev_hash
      BY <2>1, <2>4, <2>5
    <3>3. \A j \in DOMAIN file :
             j # 1 => j - 1 \in DOMAIN file /\ file'[j - 1] = file[j - 1]
      BY <2>1, <2>5, <2>9
    <3> QED BY <2>5, <3>1, <3>2, <3>3 DEF Chained, Entries
  <2>10. (Carried \/ edited = Len(file) => Chained(Entries(file)))'
    BY <2>1, <2>5, <2>7, <2>9
  <2>11. (edited \in 0..Len(file) /\ (adopted => edited # 0))'
    BY <2>1, <2>5, <2>7
  <2> QED BY <2>1, <2>5, <2>6, <2>8, <2>10, <2>11 DEF OneWriter
<1>4. CASE UNCHANGED vars
  BY <1>4 DEF vars, OneWriter, InStep, Carried
<1> QED BY <1>1, <1>2, <1>3, <1>4

(* OneWriter is kept by every step.                                        *)
LEMMA OneWriterStep ==
    ASSUME NEW p, Processes = {p}, ~WriteMayFail, ~CrashMayTear,
           OneWriter(p), [Next]_vars
    PROVE  OneWriter(p)'
  BY RemembersNext, WritesNext, OthersKeep DEF Next, WriteFails

(* OneWriter holds of a log that has no file yet.                          *)
LEMMA OneWriterInit ==
    ASSUME NEW p, Processes = {p}, Init
    PROVE  OneWriter(p)
<1>1. IsSeq(file) /\ IsSeq(memory[p]) /\ DOMAIN file = {}
  BY NoEntries DEF Init
<1>2. Entries(file) = << >>
  BY <1>1 DEF Entries
<1> QED BY <1>1, <1>2 DEF Init, OneWriter, InStep, Chained

(* ChainIntact for a single process whose writes do not fail and are not   *)
(* cut short, with any payloads and any number of entries, crashes and     *)
(* restarts: the chain continues across restarts (audit.py:105-121).       *)
THEOREM SingleWriterChain ==
    ASSUME NEW CONSTANT p, Processes = {p}, ~WriteMayFail, ~CrashMayTear
    PROVE  Spec => []ChainIntact
<1>1. Init => OneWriter(p)
  BY OneWriterInit
<1>2. OneWriter(p) /\ [Next]_vars => OneWriter(p)'
  BY OneWriterStep
<1>3. OneWriter(p) => ChainIntact
  BY DEF OneWriter, Carried, ChainIntact, Entries, FileEntries
<1> QED BY <1>1, <1>2, <1>3, PTL DEF Spec

(* SeqsCount under the same conditions: the numbers on disk are those of   *)
(* the lines, through crashes, restarts and an edit.                       *)
THEOREM SingleWriterNumbers ==
    ASSUME NEW CONSTANT p, Processes = {p}, ~WriteMayFail, ~CrashMayTear
    PROVE  Spec => []SeqsCount
<1>1. Init => OneWriter(p)
  BY OneWriterInit
<1>2. OneWriter(p) /\ [Next]_vars => OneWriter(p)'
  BY OneWriterStep
<1>3. OneWriter(p) => SeqsCount
  BY DEF OneWriter, Complete, Line, WithNumber, SeqsCount
<1> QED BY <1>1, <1>2, <1>3, PTL DEF Spec

-----------------------------------------------------------------------------
(* What the log guarantees whoever writes and whatever fails. A line holds *)
(* an entry or does not parse, and so it stays, however it was written.    *)
Entry(e) ==
    /\ e = [seq |-> e.seq, payload |-> e.payload, prev_hash |-> e.prev_hash]
    /\ e.payload \in Payloads

Piece(l) ==
    \/ \E e, t : l = Line(e, t) /\ Entry(e) /\ t \in BOOLEAN
    \/ \E t \in BOOLEAN : l = Garbage(t)

Pieces(f) == IsSeq(f) /\ \A i \in DOMAIN f : Piece(f[i])

Remembered(s) == IsSeq(s) /\ \A i \in DOMAIN s : Entry(s[i])

WellFormed ==
    /\ Pieces(file)
    /\ state \in [Processes -> {"closed", "open", "writing", "unloadable"}]
    /\ DOMAIN memory = Processes
    /\ \A p \in Processes :
          Remembered(memory[p]) /\ (state[p] = "writing" => memory[p] # << >>)
    /\ edited \in 0..Len(file)

(* What is unreadable stays so, what was ended stays as it is.             *)
Outlives(before, after) ==
    /\ Pieces(after) /\ Len(before) <= Len(after)
    /\ \A i \in DOMAIN before :
          /\ i \in DOMAIN after
          /\ before[i].ended => after[i] = before[i]
          /\ ~before[i].parses => ~after[i].parses

(* Of a returned entry a line is left that says so, or the log is known to *)
(* be damaged. LossNoticed alone is not inductive: a line that was not     *)
(* ended may still be run together with the next (audit.py:119-120).       *)
Kept(e) ==
    \E i \in DOMAIN file : ~file[i].parses \/ (file[i].ended /\ Remains(i, e))

NothingLost == \A e \in returned : Kept(e)

(* The fields of a line.                                                   *)
LEMMA PieceFields ==
    /\ \A e, t : Line(e, t).parses /\ Line(e, t).entry = e /\ Line(e, t).ended = t
    /\ \A t : ~Garbage(t).parses /\ Garbage(t).ended = t
  BY DEF Line, Garbage

(* The last entry of a list.                                               *)
LEMMA LastRemembered ==
    ASSUME NEW s, Remembered(s), s # << >>
    PROVE  Entry(Last(s))
<1>1. Len(s) \in Nat /\ DOMAIN s = 1..Len(s) /\ Len(s) # 0
  BY Appended, EmptySeq DEF Remembered, IsSeq
<1> QED BY <1>1 DEF Remembered, Last

(* One more piece, after an ended line or run together with an open one    *)
(* (audit.py:119-120).                                                     *)
LEMMA WrittenOutlives ==
    ASSUME Pieces(file), NEW piece, Piece(piece)
    PROVE  /\ Outlives(file, Written(piece))
           /\ \E i \in DOMAIN Written(piece) :
                 Written(piece)[i] = piece \/ ~Written(piece)[i].parses
<1> DEFINE n == Len(file)
<1>0. IsSeq(file) /\ n \in Nat /\ DOMAIN file = 1..n
  BY Appended DEF Pieces
<1>1. CASE file = << >> \/ Last(file).ended
  <2>1. PICK g : g = Append(file, piece)
    OBVIOUS
  <2>2. Written(piece) = g
    BY <1>1, <2>1 DEF Written
  <2>3. /\ IsSeq(g) /\ Len(g) = n + 1 /\ DOMAIN g = 1..(n + 1)
        /\ \A i \in 1..n : g[i] = file[i]
        /\ g[n + 1] = piece
    BY <1>0, <2>1, Appended
  <2>4. \A i \in DOMAIN g : Piece(g[i])
    <3> SUFFICES ASSUME NEW i \in DOMAIN g PROVE Piece(g[i])
      OBVIOUS
    <3>1. i \in 1..n \/ i = n + 1
      BY <1>0, <2>3
    <3>2. CASE i \in 1..n
      BY <1>0, <2>3, <3>2 DEF Pieces
    <3>3. CASE i = n + 1
      BY <2>3, <3>3
    <3> QED BY <3>1, <3>2, <3>3
  <2>5. Outlives(file, g)
    BY <1>0, <2>3, <2>4 DEF Outlives, Pieces
  <2>6. n + 1 \in DOMAIN g /\ g[n + 1] = piece
    BY <1>0, <2>3
  <2> QED BY <2>2, <2>5, <2>6
<1>2. CASE ~(file = << >> \/ Last(file).ended)
  <2>1. n \in DOMAIN file
    BY <1>0, <1>2, EmptySeq DEF IsSeq
  <2>2. PICK e, g : e = Garbage(piece.ended) /\ g = [file EXCEPT ![n] = e]
    OBVIOUS
  <2>3. Written(piece) = g /\ ~file[n].ended
    BY <1>2, <2>2 DEF Written, ReplaceAt, Last
  <2>4. piece.ended \in BOOLEAN
    BY PieceFields DEF Piece
  <2>5. ~e.parses /\ Piece(e)
    BY <2>2, <2>4, PieceFields DEF Piece
  <2>6. IsSeq(g) /\ Len(g) = n /\ DOMAIN g = DOMAIN file
    BY <1>0, <2>1, <2>2, Replaced
  <2>7. g[n] = e /\ \A i \in DOMAIN file : i # n => g[i] = file[i]
    BY <2>1, <2>2
  <2>8. \A i \in DOMAIN g : Piece(g[i])
    BY <2>5, <2>6, <2>7 DEF Pieces
  <2>9. Outlives(file, g)
    BY <1>0, <2>3, <2>5, <2>6, <2>7, <2>8 DEF Outlives, Pieces
  <2> QED BY <2>1, <2>3, <2>5, <2>6, <2>7, <2>9
<1> QED BY <1>1, <1>2

(* A write that failed, or that a death cut short.                         *)
LEMMA CutShortOutlives ==
    ASSUME Pieces(file), NEW entry, Entry(entry), NEW f \in CutShort(entry)
    PROVE  Outlives(file, f)
<1>1. Piece(Line(entry, FALSE)) /\ Piece(Garbage(FALSE))
  BY DEF Piece
<1>2. Outlives(file, Written(Line(entry, FALSE))) /\ Outlives(file, Written(Garbage(FALSE)))
  BY <1>1, WrittenOutlives
<1>3. Outlives(file, file)
  <2>1. Len(file) \in Nat
    BY Appended DEF Pieces
  <2> QED BY <2>1 DEF Outlives
<1> QED BY <1>2, <1>3 DEF CutShort

(* What outlives a write keeps what append() returned.                     *)
LEMMA OutlivesKeeps ==
    ASSUME WellFormed, NothingLost, Outlives(file, file'), UNCHANGED edited
    PROVE  /\ Pieces(file') /\ (edited \in 0..Len(file))'
           /\ \A e \in returned : Kept(e)'
<1>1. Len(file) \in Nat /\ Len(file') \in Nat /\ Len(file) <= Len(file')
  BY Appended DEF WellFormed, Pieces, Outlives
<1>2. ASSUME NEW e \in returned PROVE Kept(e)'
  <2>1. PICK i \in DOMAIN file : ~file[i].parses \/ (file[i].ended /\ Remains(i, e))
    BY DEF NothingLost, Kept
  <2>2. /\ i \in DOMAIN file'
        /\ file[i].ended => file'[i] = file[i]
        /\ ~file[i].parses => ~file'[i].parses
    BY DEF Outlives
  <2> QED BY <2>1, <2>2 DEF Kept, Remains
<1> QED BY <1>1, <1>2 DEF WellFormed, Outlives

(* A file that loads gives entries (audit.py:84-92).                       *)
LEMMA LoadsEntries ==
    ASSUME Pieces(file), Loadable
    PROVE  Remembered(FileEntries)
<1>1. IsSeq(Entries(file)) /\ Entries(file) = FileEntries
  BY EntriesSeq DEF Pieces, Entries, FileEntries
<1>2. \A i \in DOMAIN file : Entry(file[i].entry)
  BY PieceFields DEF Pieces, Piece, Loadable
<1> QED BY <1>1, <1>2 DEF Remembered, FileEntries

(* What append() adds to the memory is an entry (audit.py:105-117).        *)
LEMMA RemembersEntry ==
    ASSUME NEW s, Remembered(s), NEW payload \in Payloads
    PROVE  /\ Remembered(Append(s, NextEntry(s, payload)))
           /\ Append(s, NextEntry(s, payload)) # << >>
<1>1. PICK e : e = NextEntry(s, payload)
  OBVIOUS
<1>2. Entry(e)
  BY <1>1 DEF NextEntry, Entry
<1>3. PICK t : t = Append(s, e)
  OBVIOUS
<1>4. /\ IsSeq(t) /\ Len(s) \in Nat /\ DOMAIN s = 1..Len(s)
      /\ Len(t) = Len(s) + 1 /\ DOMAIN t = 1..(Len(s) + 1)
      /\ \A i \in 1..Len(s) : t[i] = s[i]
      /\ t[Len(s) + 1] = e
  BY <1>3, Appended DEF Remembered
<1>5. \A i \in DOMAIN t : Entry(t[i])
  <2> SUFFICES ASSUME NEW i \in DOMAIN t PROVE Entry(t[i])
    OBVIOUS
  <2>1. i \in 1..Len(s) \/ i = Len(s) + 1
    BY <1>4
  <2> QED BY <1>2, <1>4, <2>1 DEF Remembered
<1>6. t # << >>
  BY <1>4, EmptySeq
<1> QED BY <1>1, <1>3, <1>4, <1>5, <1>6 DEF Remembered

(* A process that loads, remembers or writes, or whose write fails.        *)
LEMMA ProcessSteps ==
    ASSUME WellFormed, NothingLost, NEW p \in Processes,
           \/ Open(p)
           \/ \E payload \in Payloads : AppendToMemory(p, payload)
           \/ Write(p)
           \/ WriteFails(p)
           \/ Crash(p)
    PROVE  (WellFormed /\ NothingLost)'
<1>1. CASE Open(p)
  <2>1. CASE Loadable
    <3>1. Remembered(FileEntries)
      BY <2>1, LoadsEntries DEF WellFormed
    <3>2. /\ memory' = [memory EXCEPT ![p] = FileEntries]
          /\ state' = [state EXCEPT ![p] = "open"]
          /\ UNCHANGED <<file, returned, edited>>
      BY <1>1, <2>1 DEF Open
    <3> QED BY <3>1, <3>2 DEF WellFormed, NothingLost, Kept, Remains
  <2>2. CASE ~Loadable
    BY <1>1, <2>2 DEF Open, WellFormed, NothingLost, Kept, Remains
  <2> QED BY <2>1, <2>2
<1>2. ASSUME NEW payload \in Payloads, AppendToMemory(p, payload)
      PROVE  (WellFormed /\ NothingLost)'
  <2>1. PICK s : s = Append(memory[p], NextEntry(memory[p], payload))
    OBVIOUS
  <2>2. Remembered(s) /\ s # << >>
    BY <2>1, RemembersEntry DEF WellFormed
  <2>3. /\ memory' = [memory EXCEPT ![p] = s]
        /\ state' = [state EXCEPT ![p] = "writing"]
        /\ UNCHANGED <<file, returned, edited>>
    BY <1>2, <2>1 DEF AppendToMemory
  <2> QED BY <2>2, <2>3 DEF WellFormed, NothingLost, Kept, Remains
<1>3. CASE Write(p)
  <2>1. PICK e, l : e = Last(memory[p]) /\ l = Line(e, TRUE)
    OBVIOUS
  <2>2. /\ state[p] = "writing" /\ file' = Written(l)
        /\ state' = [state EXCEPT ![p] = "open"]
        /\ returned' = returned \cup {e}
        /\ UNCHANGED <<memory, edited, adopted>>
    BY <1>3, <2>1 DEF Write
  <2>3. Entry(e) /\ Piece(l)
    BY <2>1, <2>2, LastRemembered DEF WellFormed, Piece
  <2>4. /\ Outlives(file, file')
        /\ \E i \in DOMAIN file' : file'[i] = l \/ ~file'[i].parses
    BY <2>2, <2>3, WrittenOutlives DEF WellFormed
  <2>5. Kept(e)'
    <3>1. PICK i \in DOMAIN file' : file'[i] = l \/ ~file'[i].parses
      BY <2>4
    <3>2. l.entry = e /\ l.ended
      BY <2>1, PieceFields
    <3>3. CASE file'[i] = l
      BY <3>2, <3>3 DEF Kept, Remains
    <3>4. CASE ~file'[i].parses
      BY <3>4 DEF Kept
    <3> QED BY <3>1, <3>3, <3>4
  <2>6. /\ Pieces(file') /\ (edited \in 0..Len(file))'
        /\ \A f \in returned : Kept(f)'
    BY <2>2, <2>4, OutlivesKeeps
  <2>7. NothingLost'
    BY <2>2, <2>5, <2>6 DEF NothingLost
  <2>8. WellFormed'
    BY <2>2, <2>6 DEF WellFormed
  <2> QED BY <2>7, <2>8
<1>4. CASE WriteFails(p)
  <2>1. /\ state[p] = "writing" /\ file' \in CutShort(Last(memory[p]))
        /\ state' = [state EXCEPT ![p] = "open"]
        /\ UNCHANGED <<memory, returned, edited, adopted>>
    BY <1>4 DEF WriteFails
  <2>2. Outlives(file, file')
    BY <2>1, LastRemembered, CutShortOutlives DEF WellFormed
  <2>3. /\ Pieces(file') /\ (edited \in 0..Len(file))'
        /\ \A f \in returned : Kept(f)'
    BY <2>1, <2>2, OutlivesKeeps
  <2>4. NothingLost'
    BY <2>1, <2>3 DEF NothingLost
  <2>5. WellFormed'
    BY <2>1, <2>3 DEF WellFormed
  <2> QED BY <2>4, <2>5
<1>5. CASE Crash(p)
  <2>1. /\ \/ file' = file
           \/ state[p] = "writing" /\ file' \in CutShort(Last(memory[p]))
        /\ state' = [state EXCEPT ![p] = "closed"]
        /\ memory' = [memory EXCEPT ![p] = << >>]
        /\ UNCHANGED <<returned, edited, adopted>>
    BY <1>5 DEF Crash
  <2>2. Outlives(file, file')
    <3>1. CASE file' = file
      <4>1. Len(file) \in Nat
        BY Appended DEF WellFormed, Pieces
      <4> QED BY <3>1, <4>1 DEF WellFormed, Outlives
    <3>2. CASE state[p] = "writing" /\ file' \in CutShort(Last(memory[p]))
      BY <3>2, LastRemembered, CutShortOutlives DEF WellFormed
    <3> QED BY <2>1, <3>1, <3>2
  <2>3. /\ Pieces(file') /\ (edited \in 0..Len(file))'
        /\ \A f \in returned : Kept(f)'
    BY <2>1, <2>2, OutlivesKeeps
  <2>4. NothingLost'
    BY <2>1, <2>3 DEF NothingLost
  <2>5. Remembered(<< >>)
    BY NoEntries DEF Remembered
  <2>6. WellFormed'
    BY <2>1, <2>3, <2>5 DEF WellFormed
  <2> QED BY <2>4, <2>6
<1> QED BY <1>1, <1>2, <1>3, <1>4, <1>5

(* An edit leaves of an entry what it did not rewrite.                     *)
LEMMA EditKeeps ==
    ASSUME WellFormed, NothingLost,
           NEW i \in DOMAIN file, NEW payload \in Payloads, Edit(i, payload)
    PROVE  (WellFormed /\ NothingLost)'
<1>0. IsSeq(file) /\ Len(file) \in Nat /\ DOMAIN file = 1..Len(file) /\ Piece(file[i])
  BY Appended DEF WellFormed, Pieces
<1>1. PICK l : l = [file[i] EXCEPT !.entry.payload = payload]
  OBVIOUS
<1>2. /\ file' = [file EXCEPT ![i] = l] /\ edited' = i /\ edited = 0 /\ file[i].parses
      /\ UNCHANGED <<memory, state, returned>>
  BY <1>1 DEF Edit
<1>3. PICK r, e, u, t, n, q, h :
          /\ file[i] = r /\ u = TRUE
          /\ r = [parses |-> u, entry |-> e, ended |-> t] /\ t \in BOOLEAN
          /\ e = [seq |-> n, payload |-> q, prev_hash |-> h]
  <2>1. PICK e, t : file[i] = Line(e, t) /\ Entry(e) /\ t \in BOOLEAN
    BY <1>0, <1>2, PieceFields DEF Piece
  <2> QED BY <2>1 DEF Line, Entry
<1>4. PICK x : x = [seq |-> n, payload |-> payload, prev_hash |-> h]
  OBVIOUS
<1>5. l = [parses |-> u, entry |-> x, ended |-> t]
  <2>1. r = [parses |-> u, entry |-> e, ended |-> t]
    BY <1>3
  <2>2. e = [seq |-> n, payload |-> q, prev_hash |-> h]
    BY <1>3
  <2>3. [r EXCEPT !.entry.payload = payload] =
           [parses |-> u, entry |-> [seq |-> n, payload |-> payload, prev_hash |-> h],
            ended |-> t]
    BY <2>1, <2>2, EditedPiece
  <2> QED BY <1>1, <1>3, <1>4, <2>3, Zenon
<1>6. x = [e EXCEPT !.payload = x.payload] /\ Entry(x)
  <2>1. x.payload = payload
    BY <1>4
  <2>2. [e EXCEPT !.payload = payload] = x
    BY <1>3, <1>4, EditedEntry
  <2> QED BY <1>4, <2>1, <2>2 DEF Entry
<1>7. l = Line(x, t) /\ l.entry = x /\ l.ended = t /\ Piece(l)
  BY <1>3, <1>5, <1>6 DEF Line, Piece
<1>8. /\ IsSeq(file') /\ Len(file') = Len(file) /\ DOMAIN file' = DOMAIN file
      /\ file'[i] = l /\ \A j \in DOMAIN file : j # i => file'[j] = file[j]
  BY <1>0, <1>2, Replaced
<1>9. WellFormed'
  <2>1. Pieces(file')
    BY <1>7, <1>8 DEF WellFormed, Pieces
  <2> QED BY <1>0, <1>2, <1>8, <2>1 DEF WellFormed
<1>10. ASSUME NEW f \in returned PROVE Kept(f)'
  <2>1. PICK j \in DOMAIN file : ~file[j].parses \/ (file[j].ended /\ Remains(j, f))
    BY DEF NothingLost, Kept
  <2>2. CASE j # i
    <3>1. file'[j] = file[j] /\ j \in DOMAIN file' /\ j # edited
      BY <1>0, <1>2, <1>8, <2>2
    <3> QED BY <2>1, <3>1 DEF Kept, Remains
  <2>3. CASE j = i
    <3>1. file[i].ended /\ file[i].entry = f
      BY <1>0, <1>2, <2>1, <2>3 DEF Remains
    <3>2. f = e /\ t = TRUE
      BY <1>3, <3>1
    <3>3. i \in DOMAIN file' /\ file'[i].entry = x /\ file'[i].ended
      BY <1>7, <1>8, <3>2
    <3>4. Remains(i, f)'
      BY <1>2, <1>6, <3>2, <3>3 DEF Remains
    <3> QED BY <3>3, <3>4 DEF Kept
  <2> QED BY <2>2, <2>3
<1> QED BY <1>2, <1>9, <1>10 DEF NothingLost

(* WellFormed and NothingLost, for any processes and whatever happens.     *)
THEOREM FaultInvariance == Spec => [](WellFormed /\ NothingLost)
<1>1. Init => WellFormed /\ NothingLost
  BY NoEntries DEF Init, WellFormed, Pieces, Remembered, NothingLost
<1>2. WellFormed /\ NothingLost /\ [Next]_vars => (WellFormed /\ NothingLost)'
  <2> SUFFICES ASSUME WellFormed, NothingLost, [Next]_vars
               PROVE  (WellFormed /\ NothingLost)'
    OBVIOUS
  <2>1. CASE UNCHANGED vars
    BY <2>1 DEF vars, WellFormed, NothingLost, Kept, Remains
  <2> QED BY <2>1, ProcessSteps, EditKeeps DEF Next
<1> QED BY <1>1, <1>2, PTL DEF Spec

(* TypeOK: the file, the memories and the states of the processes keep     *)
(* their shape, whatever is cut short or edited.                           *)
THEOREM TypeCorrect == Spec => []TypeOK
<1>1. WellFormed => TypeOK
  <2> SUFFICES ASSUME WellFormed PROVE TypeOK
    OBVIOUS
  <2>1. \A i \in DOMAIN file : file[i].parses => file[i].entry.payload \in Payloads
    BY PieceFields DEF WellFormed, Pieces, Piece, Entry
  <2> QED BY <2>1 DEF WellFormed, TypeOK
<1> QED BY FaultInvariance, <1>1, PTL

(* LossNoticed: for any number of processes with the file open, whatever   *)
(* write fails or is cut short by a death, and whichever line is edited,   *)
(* an entry append() returned is in the file or the log no longer loads.   *)
THEOREM NoSilentLoss == Spec => []LossNoticed
<1>1. WellFormed /\ NothingLost => LossNoticed
  BY DEF NothingLost, Kept, LossNoticed, Loadable
<1> QED BY FaultInvariance, <1>1, PTL

-----------------------------------------------------------------------------
(* EditNoticed is not inductive: while the edited line is the last, what   *)
(* will follow it depends on what the writer remembers of it.              *)
Traced(p) ==
    edited # 0 /\ ~adopted =>
        /\ edited \in 1..Len(file)
        /\ edited < Len(file) => file[edited + 1].entry.prev_hash # file[edited].entry
        /\ edited = Len(file) =>
              /\ state[p] = "open" => Last(memory[p]) # file[edited].entry
              /\ state[p] = "writing" => Last(memory[p]).prev_hash # file[edited].entry

(* An edited line differs from the one its successor was chained to, on    *)
(* disk or in the memory of the writer.                                    *)
LEMMA EditTraced ==
    ASSUME NEW p, OneWriter(p),
           NEW i \in DOMAIN file, NEW payload \in Payloads, Edit(i, payload)
    PROVE  Traced(p)'
<1>1. IsSeq(file) /\ Len(file) \in Nat /\ DOMAIN file = 1..Len(file)
  BY Appended DEF OneWriter
<1>2. PICK l : l = [file[i] EXCEPT !.entry.payload = payload]
  OBVIOUS
<1>3. /\ edited = 0 /\ edited' = i /\ file' = [file EXCEPT ![i] = l]
      /\ file[i].entry.payload # payload
      /\ memory' = memory /\ state' = state
  BY <1>2 DEF Edit
<1>4. Complete(file[i], i)
  BY DEF OneWriter
<1>5. l.entry.payload = payload
  <2>1. PICK t, q, h, r, e : /\ file[i] = r
                             /\ r = [parses |-> t, entry |-> e, ended |-> t]
                             /\ e = [seq |-> i, payload |-> q, prev_hash |-> h]
    <3>1. PICK t : t = TRUE
      OBVIOUS
    <3> QED BY <1>4, <3>1, Zenon DEF Complete, Line, WithNumber
  <2>2. r = [parses |-> t, entry |-> e, ended |-> t]
    BY <2>1
  <2>3. e = [seq |-> i, payload |-> q, prev_hash |-> h]
    BY <2>1
  <2>4. [r EXCEPT !.entry.payload = payload] =
           [parses |-> t, entry |-> [seq |-> i, payload |-> payload, prev_hash |-> h],
            ended |-> t]
    BY <2>2, <2>3, EditedPiece
  <2>5. l = [parses |-> t, entry |-> [seq |-> i, payload |-> payload, prev_hash |-> h],
             ended |-> t]
    BY <1>2, <2>1, <2>4, Zenon
  <2> QED BY <2>5
<1>6. l.entry # file[i].entry
  BY <1>3, <1>5
<1>7. /\ Len(file') = Len(file) /\ file'[i] = l
      /\ \A j \in DOMAIN file : j # i => file'[j] = file[j]
  BY <1>1, <1>3, Replaced
<1>8. Chained(Entries(file))
  BY <1>3 DEF OneWriter, Carried
<1>9. CASE i < Len(file)
  <2>1. i + 1 \in DOMAIN file /\ i + 1 # i /\ i + 1 # 1 /\ (i + 1) - 1 = i
    BY <1>1, <1>9
  <2>2. file[i + 1].entry.prev_hash = file[i].entry
    BY <1>8, <2>1 DEF Chained, Entries
  <2> QED BY <1>1, <1>3, <1>6, <1>7, <1>9, <2>1, <2>2 DEF Traced
<1>10. CASE i = Len(file)
  <2>1. IsSeq(Entries(file)) /\ Len(Entries(file)) = Len(file)
    BY <1>1, EntriesSeq
  <2>2. ASSUME state[p] = "open" PROVE Last(memory[p]) = file[i].entry
    <3>1. memory[p] = Entries(file)
      BY <1>3, <2>2 DEF OneWriter, InStep, Carried
    <3> QED BY <1>10, <2>1, <3>1 DEF Last, Entries
  <2>3. ASSUME state[p] = "writing" PROVE Last(memory[p]).prev_hash = file[i].entry
    <3>1. /\ memory[p] = Append(Entries(file), Last(memory[p]))
          /\ Chained(memory[p])
      BY <1>3, <2>3 DEF OneWriter, InStep, Carried
    <3>2. PICK e, m : e = Last(memory[p]) /\ m = memory[p]
      OBVIOUS
    <3>3. /\ DOMAIN m = 1..(Len(file) + 1) /\ m[Len(file) + 1] = e
          /\ \A j \in 1..Len(file) : m[j] = file[j].entry
      <4>1. m = Append(Entries(file), e)
        BY <3>1, <3>2
      <4> QED BY <1>1, <2>1, <4>1, Appended DEF Entries
    <3>4. i \in 1..Len(file) /\ i + 1 \in DOMAIN m /\ i + 1 # 1 /\ (i + 1) - 1 = i
      BY <1>1, <1>10, <3>3
    <3>5. m[i + 1].prev_hash = m[i]
      BY <3>1, <3>2, <3>4 DEF Chained
    <3> QED BY <1>10, <3>2, <3>3, <3>4, <3>5
  <2>4. /\ edited' = Len(file') /\ edited' \in 1..Len(file')
        /\ file'[edited'].entry # file[i].entry
    BY <1>1, <1>3, <1>6, <1>7, <1>10
  <2>5. state'[p] = "open" => Last(memory'[p]) # file'[edited'].entry
    BY <1>3, <2>2, <2>4, Zenon
  <2>6. state'[p] = "writing" => Last(memory'[p]).prev_hash # file'[edited'].entry
    BY <1>3, <2>3, <2>4, Zenon
  <2>7. ~(edited' < Len(file'))
    BY <1>1, <1>7, <2>4
  <2> QED BY <2>4, <2>5, <2>6, <2>7, Zenon DEF Traced
<1> QED BY <1>1, <1>9, <1>10

(* Every other step of the writer.                                         *)
LEMMA WriterTraced ==
    ASSUME NEW p, OneWriter(p), Traced(p), ~CrashMayTear,
           \/ Open(p)
           \/ \E payload \in Payloads : AppendToMemory(p, payload)
           \/ Write(p)
           \/ Crash(p)
           \/ UNCHANGED vars
    PROVE  Traced(p)'
<1>1. IsSeq(file) /\ Len(file) \in Nat /\ DOMAIN file = 1..Len(file)
  BY Appended DEF OneWriter
<1>2. CASE Open(p)
  <2>1. Loadable
    BY DEF OneWriter, Complete, Loadable, Line
  <2>2. /\ adopted' = (adopted \/ (edited # 0 /\ edited = Len(file)))
        /\ file' = file /\ edited' = edited
    BY <1>2, <2>1 DEF Open
  <2> QED BY <2>2 DEF Traced
<1>3. ASSUME NEW payload \in Payloads, AppendToMemory(p, payload)
      PROVE  Traced(p)'
  <2>1. PICK e, s, m : /\ e = NextEntry(memory[p], payload)
                       /\ s = memory[p] /\ m = Append(s, e)
    OBVIOUS
  <2>2. /\ state[p] = "open" /\ state'[p] = "writing"
        /\ memory'[p] = m
        /\ file' = file /\ edited' = edited /\ adopted' = adopted
    BY <1>3, <2>1 DEF AppendToMemory, OneWriter
  <2>3. IsSeq(s) /\ Len(s) = Len(file)
    BY <2>1, <2>2 DEF OneWriter, InStep
  <2>4. Len(m) = Len(file) + 1 /\ m[Len(file) + 1] = e
    BY <2>1, <2>3, Appended
  <2>5. Last(m) = e
    BY <2>4 DEF Last
  <2>6. ASSUME edited \in 1..Len(file) PROVE e.prev_hash = Last(s)
    <3>1. s # << >>
      BY <1>1, <2>3, <2>6, EmptySeq
    <3> QED BY <2>1, <3>1 DEF NextEntry
  <2> QED BY <2>1, <2>2, <2>5, <2>6 DEF Traced
<1>4. CASE Write(p)
  <2>1. PICK e, l : e = Last(memory[p]) /\ l = Line(e, TRUE)
    OBVIOUS
  <2>2. /\ state[p] = "writing" /\ edited' = edited /\ adopted' = adopted
        /\ file' = Append(file, l)
    BY <1>4, <2>1, WritesWhole DEF Write
  <2>3. /\ Len(file') = Len(file) + 1
        /\ \A i \in 1..Len(file) : file'[i] = file[i]
        /\ file'[Len(file) + 1] = l
    BY <1>1, <2>2, Appended
  <2>4. l.entry = e
    BY <2>1, PieceFields
  <2>5. SUFFICES ASSUME edited # 0, ~adopted
                 PROVE  /\ edited \in 1..(Len(file) + 1)
                        /\ edited < Len(file) + 1 =>
                              file'[edited + 1].entry.prev_hash # file'[edited].entry
                        /\ edited # Len(file) + 1
    BY <2>2, <2>3 DEF Traced
  <2>6. edited \in 1..Len(file) /\ file'[edited] = file[edited]
    BY <2>3, <2>5 DEF Traced
  <2>7. CASE edited = Len(file)
    <3>1. e.prev_hash # file[edited].entry
      BY <2>1, <2>2, <2>5, <2>7, Zenon DEF Traced
    <3>2. file'[edited + 1].entry = e
      BY <2>3, <2>4, <2>7
    <3>3. edited \in 1..(Len(file) + 1) /\ edited # Len(file) + 1
      <4>1. PICK n, k : n = Len(file) /\ k = edited
        OBVIOUS
      <4>2. n \in Nat /\ k \in 1..n
        BY <1>1, <2>6, <4>1
      <4>3. k \in 1..(n + 1) /\ k # n + 1
        BY <4>2
      <4> QED BY <4>1, <4>3
    <3> QED BY <2>6, <3>1, <3>2, <3>3
  <2>8. CASE edited < Len(file)
    <3>1. edited + 1 \in 1..Len(file)
      BY <1>1, <2>6, <2>8
    <3>2. file'[edited + 1] = file[edited + 1]
      BY <2>3, <3>1
    <3>3. file[edited + 1].entry.prev_hash # file[edited].entry
      BY <2>5, <2>8, Zenon DEF Traced
    <3>4. edited \in 1..(Len(file) + 1) /\ edited # Len(file) + 1
      <4>1. PICK n, k : n = Len(file) /\ k = edited
        OBVIOUS
      <4>2. n \in Nat /\ k \in 1..n
        BY <1>1, <2>6, <4>1
      <4>3. k \in 1..(n + 1) /\ k # n + 1
        BY <4>2
      <4> QED BY <4>1, <4>3
    <3> QED BY <2>6, <3>2, <3>3, <3>4
  <2> QED BY <1>1, <2>6, <2>7, <2>8
<1>5. CASE Crash(p)
  <2>1. /\ state'[p] = "closed"
        /\ file' = file /\ edited' = edited /\ adopted' = adopted
    BY <1>5 DEF Crash, OneWriter
  <2> QED BY <2>1 DEF Traced
<1>6. CASE UNCHANGED vars
  BY <1>6 DEF vars, Traced
<1> QED BY <1>2, <1>3, <1>4, <1>5, <1>6

(* EditNoticed for a single process whose writes do not fail and are not   *)
(* cut short: however many entries, crashes and restarts come before and   *)
(* after an edit, the chain is broken once another line follows the edited *)
(* one, except where the process was started on the edited line while it   *)
(* was the last; from then on the chain is intact again, edit and all.     *)
THEOREM EditsAreNoticed ==
    ASSUME NEW CONSTANT p, Processes = {p}, ~WriteMayFail, ~CrashMayTear
    PROVE  Spec => []EditNoticed
<1>1. Init => OneWriter(p) /\ Traced(p)
  BY OneWriterInit DEF Init, Traced
<1>2. OneWriter(p) /\ Traced(p) /\ [Next]_vars => (OneWriter(p) /\ Traced(p))'
  <2> SUFFICES ASSUME OneWriter(p), Traced(p), [Next]_vars
               PROVE  (OneWriter(p) /\ Traced(p))'
    OBVIOUS
  <2>1. OneWriter(p)'
    BY OneWriterStep
  <2>2. Traced(p)'
    BY EditTraced, WriterTraced DEF Next, WriteFails
  <2> QED BY <2>1, <2>2
<1>3. OneWriter(p) /\ Traced(p) => EditNoticed
  <2> SUFFICES ASSUME OneWriter(p), Traced(p), edited # 0
               PROVE  Chained(FileEntries) <=> edited = Len(file) \/ adopted
    BY DEF EditNoticed
  <2>1. Len(file) \in Nat /\ DOMAIN file = 1..Len(file) /\ edited \in 0..Len(file)
    BY Appended DEF OneWriter
  <2>2. ASSUME edited = Len(file) \/ adopted PROVE Chained(FileEntries)
    BY <2>2 DEF OneWriter, Carried, Entries, FileEntries
  <2>3. ASSUME edited # Len(file), ~adopted, Chained(FileEntries) PROVE FALSE
    <3>1. edited < Len(file)
      <4>1. PICK k, n : k = edited /\ n = Len(file)
        OBVIOUS
      <4>2. k # n
        BY <2>3, <4>1, Zenon
      <4>3. n \in Nat /\ k \in 0..n
        BY <2>1, <4>1
      <4>4. k < n
        BY <4>2, <4>3
      <4> QED BY <4>1, <4>4
    <3>2. edited \in DOMAIN file /\ edited + 1 \in DOMAIN file
      BY <2>1, <3>1
    <3>3. file[edited + 1].entry.prev_hash = file[edited].entry
      <4>1. PICK k, m : k = edited /\ m = k + 1
        OBVIOUS
      <4>2. m \in DOMAIN file /\ m # 1 /\ m - 1 = k /\ k \in DOMAIN file
        BY <2>1, <3>2, <4>1
      <4>3. file[m].entry.prev_hash = file[k].entry
        BY <2>3, <4>2 DEF Chained, FileEntries
      <4> QED BY <4>1, <4>3
    <3> QED BY <2>3, <3>1, <3>3 DEF Traced
  <2> QED BY <2>2, <2>3
<1> QED BY <1>1, <1>2, <1>3, PTL DEF Spec

=============================================================================
