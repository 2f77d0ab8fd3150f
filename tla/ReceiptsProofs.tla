--------------------------- MODULE ReceiptsProofs ---------------------------
(***************************************************************************)
(* What Receipts guarantees for any number of proxies, keys and entries:   *)
(* one key pair, whoever starts first; a log that none of this gets in the *)
(* way of; and receipts that agree with it.                                *)
(*                                                                         *)
(* OneKeyPair is not inductive: what the files hold while a user is still  *)
(* on its way has to be said of every stage, and that whoever makes a key  *)
(* is the only one not out. ReceiptsAgree rests on what the tree computes  *)
(* for any number of leaves, by induction on its levels.                   *)
(***************************************************************************)
EXTENDS Receipts, AuditLogProofs, WellFoundedInduction

Stages == {"out", "loading", "ready", "failed"} \cup Making

KeyTypes ==
    /\ stage \in [KeyUsers -> Stages]
    /\ holding \in [KeyUsers -> Keys \cup {NoFile, Empty}]
    /\ privateFile \in Keys \cup {NoFile, Empty}

PairOnDisk == privateFile \in Keys /\ publicFile = privateFile

MakerAlone ==
    \A u, w \in KeyUsers : stage[u] \in Making /\ u # w => stage[w] = "out"

FilesFitStage ==
    \A u \in KeyUsers :
        /\ stage[u] # "failed"
        /\ stage[u] = "generating" => privateFile = NoFile
        /\ stage[u] = "emptied" => holding[u] \in Keys
        /\ stage[u] \in {"written", "publishing"} =>
              holding[u] \in Keys /\ privateFile = holding[u]
        /\ stage[u] \in {"loading", "ready"} => PairOnDisk
        /\ stage[u] = "ready" => holding[u] = privateFile

Idle == ~BeingMade => privateFile = NoFile \/ PairOnDisk

Orderly == MakerAlone /\ FilesFitStage /\ Idle

KeyInv == KeyTypes /\ (~disturbed => Orderly)

-----------------------------------------------------------------------------
(* The invariant holds before anybody has started.                         *)
LEMMA KeyInitInv == KeyInit => KeyInv
BY KeystoreAssumption
   DEF KeyInit, KeyInv, KeyTypes, Orderly, MakerAlone, FilesFitStage, Idle, PairOnDisk,
       Stages, Making, BeingMade

(* A user looks for the private file. Undisturbed, nobody is making a key: *)
(* either there is none and nobody else has started, or the pair is there. *)
LEMMA LookStep ==
    ASSUME KeyInv, NEW u \in KeyUsers, LookForKey(u)
    PROVE  KeyInv'
<1>1. KeyTypes'
  BY DEF KeyInv, KeyTypes, LookForKey, Reaches, Stages, Making
<1>2. ASSUME ~disturbed' PROVE Orderly'
  <2>1. ~BeingMade /\ Orderly
    BY <1>2 DEF LookForKey, KeyInv
  <2>2. CASE privateFile = NoFile
    <3>1. \A w \in KeyUsers : stage[w] = "out"
      BY <2>1, <2>2, KeystoreAssumption
         DEF BeingMade, Orderly, FilesFitStage, PairOnDisk, KeyInv, KeyTypes, Stages
    <3>2. stage' = [stage EXCEPT ![u] = "generating"] /\ privateFile' = NoFile
      BY <2>2 DEF LookForKey, Reaches
    <3>3. stage'[u] = "generating" /\ \A w \in KeyUsers \ {u} : stage'[w] = "out"
      BY <3>1, <3>2 DEF KeyInv, KeyTypes
    <3> QED BY <3>2, <3>3 DEF Orderly, MakerAlone, FilesFitStage, Idle, BeingMade, Making
  <2>3. CASE privateFile # NoFile
    <3>1. PairOnDisk
      BY <2>1, <2>3 DEF Orderly, Idle
    <3>2. PairOnDisk' /\ holding' = holding /\ stage' = [stage EXCEPT ![u] = "loading"]
      BY <2>3, <3>1 DEF LookForKey, Reaches, PairOnDisk
    <3>3. \A w \in KeyUsers : stage'[w] = IF w = u THEN "loading" ELSE stage[w]
      BY <3>2 DEF KeyInv, KeyTypes
    <3>4. \A w \in KeyUsers : stage[w] \notin Making
      BY <2>1 DEF BeingMade
    <3>5. privateFile' = privateFile
      BY DEF LookForKey
    <3> QED BY <2>1, <3>2, <3>3, <3>4, <3>5
            DEF Orderly, MakerAlone, FilesFitStage, Idle, Making
  <2> QED BY <2>2, <2>3
<1> QED BY <1>1, <1>2 DEF KeyInv

(* A user reads the private file.                                          *)
LEMMA LoadStep ==
    ASSUME KeyInv, NEW u \in KeyUsers, LoadKey(u)
    PROVE  KeyInv'
<1>1. KeyTypes'
  BY DEF KeyInv, KeyTypes, LoadKey, Reaches, Stages, Making
<1>2. ASSUME ~disturbed' PROVE Orderly'
  <2>1. Orderly /\ PairOnDisk
    BY <1>2 DEF LoadKey, KeyInv, Orderly, FilesFitStage
  <2>2. /\ stage' = [stage EXCEPT ![u] = "ready"]
        /\ holding' = [holding EXCEPT ![u] = privateFile]
    BY <2>1, KeystoreAssumption DEF LoadKey, Reaches, PairOnDisk
  <2>3. privateFile' = privateFile /\ PairOnDisk'
    BY <2>1 DEF LoadKey, PairOnDisk
  <2>4. \A w \in KeyUsers : /\ stage'[w] = IF w = u THEN "ready" ELSE stage[w]
                            /\ holding'[w] = IF w = u THEN privateFile ELSE holding[w]
    BY <2>2 DEF KeyInv, KeyTypes
  <2>5. stage[u] = "loading"
    BY DEF LoadKey
  <2>6. MakerAlone'
    BY <2>1, <2>4, <2>5 DEF Orderly, MakerAlone, Making
  <2> QED BY <2>1, <2>3, <2>4, <2>6 DEF Orderly, FilesFitStage, Idle, Making
<1> QED BY <1>1, <1>2 DEF KeyInv

(* The maker of a key, alone, takes its next step.                         *)
LEMMA MakingStep ==
    ASSUME KeyInv, NEW u \in KeyUsers,
           GenerateKey(u) \/ WritePrivate(u) \/ EmptyPublic(u) \/ WritePublic(u)
    PROVE  KeyInv'
<1>1. KeyTypes'
  BY DEF KeyInv, KeyTypes, GenerateKey, WritePrivate, EmptyPublic, WritePublic, Reaches,
         Stages, Making
<1>2. ASSUME ~disturbed' PROVE Orderly'
  <2>1. Orderly /\ stage[u] \in Making
    BY <1>2 DEF GenerateKey, WritePrivate, EmptyPublic, WritePublic, KeyInv, Making
  <2>2. \A w \in KeyUsers \ {u} : stage[w] = "out"
    BY <2>1 DEF Orderly, MakerAlone
  <2>3. \A w \in KeyUsers \ {u} : stage'[w] = "out"
    BY <2>2 DEF GenerateKey, WritePrivate, EmptyPublic, WritePublic, Reaches, KeyInv, KeyTypes
  <2>4. MakerAlone'
    BY <2>3 DEF MakerAlone, Making
  <2>5. CASE GenerateKey(u)
    <3>1. stage'[u] = "emptied" /\ holding'[u] \in Keys
      BY <2>5 DEF GenerateKey, Reaches, KeyInv, KeyTypes
    <3> QED BY <2>3, <2>4, <3>1 DEF Orderly, FilesFitStage, Idle, BeingMade, Making
  <2>6. CASE WritePrivate(u)
    <3>1. /\ stage'[u] = "written" /\ holding'[u] \in Keys
          /\ privateFile' = holding'[u]
      BY <2>1, <2>6 DEF WritePrivate, Reaches, KeyInv, KeyTypes, Orderly, FilesFitStage
    <3> QED BY <2>3, <2>4, <3>1 DEF Orderly, FilesFitStage, Idle, BeingMade, Making
  <2>7. CASE EmptyPublic(u)
    <3>1. /\ stage'[u] = "publishing" /\ holding'[u] \in Keys
          /\ privateFile' = holding'[u]
      BY <2>1, <2>7 DEF EmptyPublic, Reaches, KeyInv, KeyTypes, Orderly, FilesFitStage
    <3> QED BY <2>3, <2>4, <3>1 DEF Orderly, FilesFitStage, Idle, BeingMade, Making
  <2>8. CASE WritePublic(u)
    <3>1. /\ stage'[u] = "ready" /\ holding'[u] \in Keys
          /\ privateFile' = holding'[u] /\ publicFile' = holding'[u]
      BY <2>1, <2>8 DEF WritePublic, Reaches, KeyInv, KeyTypes, Orderly, FilesFitStage
    <3> QED BY <2>3, <2>4, <3>1 DEF Orderly, FilesFitStage, Idle, PairOnDisk, Making
  <2> QED BY <2>5, <2>6, <2>7, <2>8
<1> QED BY <1>1, <1>2 DEF KeyInv

(* A user ends; undisturbed, one that is not making a key.                 *)
LEMMA EndStep ==
    ASSUME KeyInv, NEW u \in KeyUsers, Ends(u)
    PROVE  KeyInv'
<1>1. KeyTypes'
  BY DEF KeyInv, KeyTypes, Ends, Reaches, Stages, Making
<1>2. ASSUME ~disturbed' PROVE Orderly'
  <2>1. Orderly /\ stage[u] \notin Making
    BY <1>2 DEF Ends, KeyInv
  <2>2. /\ privateFile' = privateFile /\ publicFile' = publicFile
        /\ \A w \in KeyUsers : /\ stage'[w] = IF w = u THEN "out" ELSE stage[w]
                               /\ w # u => holding'[w] = holding[w]
    BY DEF Ends, Reaches, KeyInv, KeyTypes
  <2>3. BeingMade' <=> BeingMade
    BY <2>1, <2>2 DEF BeingMade, Making
  <2>4. MakerAlone'
    BY <2>1, <2>2 DEF Orderly, MakerAlone, Making
  <2>5. FilesFitStage'
    BY <2>1, <2>2 DEF Orderly, FilesFitStage, PairOnDisk
  <2>6. Idle'
    BY <2>1, <2>2, <2>3 DEF Orderly, Idle, PairOnDisk
  <2> QED BY <2>4, <2>5, <2>6 DEF Orderly
<1> QED BY <1>1, <1>2 DEF KeyInv

(* So every step of a starting program keeps it.                           *)
LEMMA StartingStep ==
    ASSUME KeyInv, NEW u \in KeyUsers, Starting(u)
    PROVE  KeyInv'
BY LookStep, LoadStep, MakingStep DEF Starting

(* Nothing but these steps touches the keys.                               *)
LEMMA ReceiptsStep == KeyInv /\ [ReceiptsNext]_receiptVars => KeyInv'
<1> SUFFICES ASSUME KeyInv, [ReceiptsNext]_receiptVars
             PROVE  KeyInv'
  OBVIOUS
<1>1. ASSUME UNCHANGED keyVars PROVE KeyInv'
  BY <1>1 DEF keyVars, KeyInv, KeyTypes, Orderly, MakerAlone, FilesFitStage, Idle,
              PairOnDisk, BeingMade
<1>2. CASE \E p \in Processes : ProxyStep(p)
  <2>1. PICK p \in Processes : ProxyStep(p)
    BY <1>2
  <2>2. p \in KeyUsers
    BY ReceiptsAssumption
  <2> QED BY <1>1, <2>1, <2>2, StartingStep, EndStep DEF ProxyStep
<1>3. CASE VerifierStep
  BY <1>3, StartingStep, EndStep, ReceiptsAssumption DEF VerifierStep
<1>4. CASE EditStep
  BY <1>1, <1>4 DEF EditStep
<1>5. CASE \E seq \in 1..MaxEntries : Prove(seq)
  BY <1>5, EndStep, ReceiptsAssumption DEF Prove
<1>6. CASE UNCHANGED receiptVars
  BY <1>1, <1>6 DEF receiptVars
<1> QED BY <1>2, <1>3, <1>4, <1>5, <1>6 DEF ReceiptsNext

(* OneKeyPair holds in every behaviour of the receipts' specification:     *)
(* unless the making of the key is disturbed, whoever has a private key    *)
(* has the one whose public half everybody resolves (config.py:47-72).     *)
THEOREM OneKeyPairHolds == ReceiptsSpec => []OneKeyPair
<1>1. ReceiptsInit => KeyInv
  BY KeyInitInv DEF ReceiptsInit
<1>2. KeyInv => OneKeyPair
  BY DEF KeyInv, Orderly, FilesFitStage, PairOnDisk, OneKeyPair
<1> QED BY <1>1, <1>2, ReceiptsStep, PTL DEF ReceiptsSpec

-----------------------------------------------------------------------------
(* Opening, keeping and checking receipts, and the making of keys, do not  *)
(* get in the way of the log: each step is one of AuditLog's, or none.     *)
LEMMA ReceiptsAreLogSteps == [ReceiptsNext]_receiptVars => [Next]_vars
<1> SUFFICES ASSUME [ReceiptsNext]_receiptVars PROVE Next \/ UNCHANGED vars
  OBVIOUS
<1>1. ASSUME NEW p \in Processes, ProxyStep(p) PROVE Next \/ UNCHANGED vars
  BY <1>1 DEF ProxyStep, Next
<1>2. EditStep => Next
  BY DEF EditStep, Next
<1> QED BY <1>1, <1>2 DEF ReceiptsNext, VerifierStep, Prove, receiptVars

(* So their behaviours are behaviours of the log (proxy.py:68-71,          *)
(* merkle.py:243-284).                                                     *)
THEOREM ReceiptsKeepTheLog == ReceiptsSpec => Spec
<1>1. ReceiptsInit => Init
  BY DEF ReceiptsInit
<1> QED BY <1>1, ReceiptsAreLogSteps, PTL DEF ReceiptsSpec, Spec

(* What is true of the log of a single proxy is true while it starts, makes*)
(* its key, ends and restarts, and covenant-verify makes and checks its    *)
(* receipts from it (proxy.py:68-71, merkle.py:243-284): receipts come     *)
(* from a log whose chain and numbering are intact and whose chain shows   *)
(* an edit exactly as EditNoticed says, a restart on an edited last line   *)
(* being what hides one.                                                   *)
THEOREM ReceiptsFindASoundLog ==
    ASSUME NEW CONSTANT p, Processes = {p}, ~WriteMayFail, ~CrashMayTear
    PROVE  ReceiptsSpec => [](TypeOK /\ ChainIntact /\ SeqsCount /\ EditNoticed)
<1>1. Spec => []ChainIntact
  BY SingleWriterChain
<1>2. Spec => []SeqsCount
  BY SingleWriterNumbers
<1>3. Spec => []EditNoticed
  BY EditsAreNoticed
<1> QED BY ReceiptsKeepTheLog, TypeCorrect, <1>1, <1>2, <1>3, PTL
-----------------------------------------------------------------------------
(* Sequences and numbers, for what follows.                                *)
(* A list written out place by place.                                      *)
LEMMA Listed ==
    ASSUME NEW m \in Nat, NEW s, s = [n \in 1..m |-> s[n]]
    PROVE  IsSeq(s) /\ Len(s) = m /\ DOMAIN s = 1..m
<1>1. s \in [1..m -> Range(s)]
  BY DEF Range
<1>2. s \in Seq(Range(s))
  BY <1>1
<1>3. Len(s) \in Nat /\ DOMAIN s = 1..Len(s) /\ DOMAIN s = 1..m
  BY <1>1, <1>2
<1> QED BY <1>2, <1>3 DEF IsSeq

(* The smallest of some numbers.                                           *)
LEMMA LeastNumber ==
    ASSUME NEW T, T \subseteq Nat, T # {}
    PROVE  \E n \in T : \A m \in T : n <= m
<1>1. IsWellFoundedOn(OpToRel(<, Nat), Nat)
  BY NatLessThanWellFounded
<1>2. PICK n \in T : \A m \in T : ~(<<m, n>> \in OpToRel(<, Nat))
  BY <1>1, WFMin
<1>3. \A m \in T : <<m, n>> \in Nat \X Nat
  OBVIOUS
<1>4. \A m \in T : ~(m < n)
  BY <1>2, <1>3 DEF OpToRel
<1> QED BY <1>4

(* So a set that has 0, and with a number the next one, has them all.      *)
LEMMA UpTo ==
    ASSUME NEW n \in Nat, NEW T, 0 \in T, \A k \in 0..(n - 1) : k \in T => k + 1 \in T
    PROVE  0..n \subseteq T
<1> DEFINE Out == (0..n) \ T
<1> SUFFICES ASSUME Out # {} PROVE FALSE
  OBVIOUS
<1>0. Out \subseteq Nat
  OBVIOUS
<1>1. PICK k \in Out : \A m \in Out : k <= m
  <2> HIDE DEF Out
  <2> QED BY <1>0, LeastNumber
<1>2. k # 0 /\ k - 1 \in 0..(n - 1) /\ k - 1 \notin Out
  BY <1>1
<1> QED BY <1>1, <1>2

-----------------------------------------------------------------------------
(* The levels built one from the other.                                    *)
LEMMA LevelsBuilt ==
    ASSUME NEW leaves, Len(leaves) \in Nat
    PROVE  /\ Built(leaves)[0] = leaves
           /\ \A k \in 1..Len(leaves) :
                 Built(leaves)[k] = LevelAbove(Built(leaves)[k - 1])
<1> DEFINE n == Len(leaves)
           Some == {m \in 0..n :
                      \E f : f = [k \in 0..m |-> IF k = 0 THEN leaves ELSE LevelAbove(f[k - 1])]}
<1>1. 0 \in Some
  <2> DEFINE f == [k \in 0..0 |-> leaves]
  <2>1. f = [k \in 0..0 |-> IF k = 0 THEN leaves ELSE LevelAbove(f[k - 1])]
    OBVIOUS
  <2>2. 0 \in 0..n
    OBVIOUS
  <2> HIDE DEF f
  <2> QED BY <2>1, <2>2
<1>2. ASSUME NEW m \in 0..(n - 1), m \in Some PROVE m + 1 \in Some
  <2>1. PICK f : f = [k \in 0..m |-> IF k = 0 THEN leaves ELSE LevelAbove(f[k - 1])]
    BY <1>2
  <2> DEFINE g == [k \in 0..(m + 1) |-> IF k = m + 1 THEN LevelAbove(f[m]) ELSE f[k]]
  <2>2. \A k \in 0..m : g[k] = f[k]
    OBVIOUS
  <2>3. \A k \in 0..(m + 1) : g[k] = IF k = 0 THEN leaves ELSE LevelAbove(g[k - 1])
    <3> TAKE k \in 0..(m + 1)
    <3>1. CASE k = m + 1
      <4>1. g[k] = LevelAbove(f[m]) /\ k # 0 /\ k - 1 = m /\ g[m] = f[m]
        BY <3>1
      <4> HIDE DEF g
      <4> QED BY <4>1
    <3>2. CASE k # m + 1
      <4>1. g[k] = f[k] /\ k \in 0..m /\ (k # 0 => g[k - 1] = f[k - 1])
        BY <3>2
      <4> HIDE DEF g
      <4> QED BY <2>1, <4>1
    <3> QED BY <3>1, <3>2
  <2>4. g = [k \in 0..(m + 1) |-> g[k]]
    OBVIOUS
  <2> HIDE DEF g
  <2>5. g = [k \in 0..(m + 1) |-> IF k = 0 THEN leaves ELSE LevelAbove(g[k - 1])]
    BY <2>3, <2>4
  <2> QED BY <2>5
<1>3. n \in Some
  <2> HIDE DEF Some
  <2>1. \A m \in 0..(n - 1) : m \in Some => m + 1 \in Some
    BY <1>2
  <2>2. n \in Nat /\ n \in 0..n
    OBVIOUS
  <2> HIDE DEF n
  <2> QED BY <1>1, <2>1, <2>2, UpTo
<1> DEFINE level == CHOOSE level :
               level = [k \in 0..n |-> IF k = 0 THEN leaves ELSE LevelAbove(level[k - 1])]
<1>4. level = [k \in 0..n |-> IF k = 0 THEN leaves ELSE LevelAbove(level[k - 1])]
  BY <1>3
<1>5. Built(leaves) = level
  BY DEF Built
<1> HIDE DEF level
<1> QED BY <1>4, <1>5

(* The places halved one from the other.                                   *)
LEMMA PlacesHalved ==
    ASSUME NEW leaves, Height(leaves) \in Nat, NEW index
    PROVE  /\ Places(leaves, index)[0] = index
           /\ \A k \in 1..Height(leaves) :
                 Places(leaves, index)[k] = Places(leaves, index)[k - 1] \div 2
<1> DEFINE n == Height(leaves)
           Some == {m \in 0..n :
                      \E f : f = [k \in 0..m |-> IF k = 0 THEN index ELSE f[k - 1] \div 2]}
<1>1. 0 \in Some
  <2> DEFINE f == [k \in 0..0 |-> index]
  <2>1. f = [k \in 0..0 |-> IF k = 0 THEN index ELSE f[k - 1] \div 2]
    OBVIOUS
  <2>2. 0 \in 0..n
    OBVIOUS
  <2> HIDE DEF f
  <2> QED BY <2>1, <2>2
<1>2. ASSUME NEW m \in 0..(n - 1), m \in Some PROVE m + 1 \in Some
  <2>1. PICK f : f = [k \in 0..m |-> IF k = 0 THEN index ELSE f[k - 1] \div 2]
    BY <1>2
  <2> DEFINE g == [k \in 0..(m + 1) |-> IF k = m + 1 THEN f[m] \div 2 ELSE f[k]]
  <2>2. \A k \in 0..(m + 1) : g[k] = IF k = 0 THEN index ELSE g[k - 1] \div 2
    <3> TAKE k \in 0..(m + 1)
    <3>1. CASE k = m + 1
      <4>1. g[k] = f[m] \div 2 /\ k # 0 /\ k - 1 = m /\ g[m] = f[m]
        BY <3>1
      <4> HIDE DEF g
      <4> QED BY <4>1
    <3>2. CASE k # m + 1
      <4>1. g[k] = f[k] /\ k \in 0..m /\ (k # 0 => g[k - 1] = f[k - 1])
        BY <3>2
      <4> HIDE DEF g
      <4> QED BY <2>1, <4>1
    <3> QED BY <3>1, <3>2
  <2>3. g = [k \in 0..(m + 1) |-> g[k]]
    OBVIOUS
  <2> HIDE DEF g
  <2>4. g = [k \in 0..(m + 1) |-> IF k = 0 THEN index ELSE g[k - 1] \div 2]
    BY <2>2, <2>3
  <2> QED BY <2>4
<1>3. n \in Some
  <2> HIDE DEF Some
  <2>1. \A m \in 0..(n - 1) : m \in Some => m + 1 \in Some
    BY <1>2
  <2>2. n \in Nat /\ n \in 0..n
    OBVIOUS
  <2> HIDE DEF n
  <2> QED BY <1>1, <2>1, <2>2, UpTo
<1> DEFINE place == CHOOSE place :
               place = [k \in 0..n |-> IF k = 0 THEN index ELSE place[k - 1] \div 2]
<1>4. place = [k \in 0..n |-> IF k = 0 THEN index ELSE place[k - 1] \div 2]
  BY <1>3
<1>5. Places(leaves, index) = place
  BY DEF Places
<1> HIDE DEF place
<1> QED BY <1>4, <1>5

-----------------------------------------------------------------------------
(* A proof is folded step by step (_fold_proof, merkle.py:91-95).          *)
Combined(acc, step) ==
    IF step.side = "L" THEN NodeHash(step.sibling, acc) ELSE NodeHash(acc, step.sibling)

LEMMA StepByStep ==
    ASSUME NEW h \in Nat, NEW proof, DOMAIN proof = 1..h, NEW leaf
    PROVE  \E acc : /\ acc[0] = leaf
                    /\ \A k \in 1..h : acc[k] = Combined(acc[k - 1], proof[k])
                    /\ FoldProof(leaf, proof) = acc[h]
<1> DEFINE Folds(m, f) ==
               f = [s \in SUBSET (1..m) |->
                       IF s = {} THEN leaf
                       ELSE Combined(f[s \ {Max(s)}], proof[Max(s)])]
           Some == {m \in 0..h : \E f : Folds(m, f)}
<1>1. 0 \in Some
  <2> DEFINE f == [s \in SUBSET (1..0) |-> leaf]
  <2>1. \A s \in SUBSET (1..0) : s = {}
    OBVIOUS
  <2>2. Folds(0, f)
    BY <2>1
  <2>3. 0 \in 0..h
    OBVIOUS
  <2> HIDE DEF f, Folds
  <2> QED BY <2>2, <2>3
<1>2. ASSUME NEW m \in 0..(h - 1), m \in Some PROVE m + 1 \in Some
  <2>1. PICK f : Folds(m, f)
    BY <1>2
  <2> DEFINE g == [s \in SUBSET (1..(m + 1)) |->
                      IF m + 1 \in s THEN Combined(f[s \ {m + 1}], proof[m + 1]) ELSE f[s]]
  <2>2. \A s \in SUBSET (1..m) : g[s] = f[s]
    OBVIOUS
  <2>3. ASSUME NEW s \in SUBSET (1..(m + 1))
        PROVE  g[s] = IF s = {} THEN leaf ELSE Combined(g[s \ {Max(s)}], proof[Max(s)])
    <3>1. CASE m + 1 \in s
      <4>1. \A y \in s : m + 1 >= y
        OBVIOUS
      <4>2. \A x \in s : (\A y \in s : x >= y) => x = m + 1
        BY <3>1
      <4>3. Max(s) = m + 1
        BY <3>1, <4>1, <4>2 DEF Max
      <4>4. s \ {m + 1} \in SUBSET (1..m)
        OBVIOUS
      <4>5. g[s] = Combined(f[s \ {m + 1}], proof[m + 1]) /\ g[s \ {m + 1}] = f[s \ {m + 1}]
        BY <2>2, <3>1, <4>4
      <4> HIDE DEF g
      <4> QED BY <3>1, <4>3, <4>5
    <3>2. CASE m + 1 \notin s
      <4>1. s \in SUBSET (1..m)
        BY <3>2
      <4>2. s \ {Max(s)} \in SUBSET (1..m)
        BY <4>1
      <4>3. g[s] = f[s] /\ g[s \ {Max(s)}] = f[s \ {Max(s)}]
        BY <2>2, <4>1, <4>2
      <4> HIDE DEF g
      <4> QED BY <2>1, <4>1, <4>3
    <3> QED BY <3>1, <3>2
  <2>4. g = [s \in SUBSET (1..(m + 1)) |-> g[s]]
    OBVIOUS
  <2> HIDE DEF g
  <2>5. Folds(m + 1, g)
    BY <2>3, <2>4
  <2>6. m + 1 \in 0..h
    OBVIOUS
  <2> HIDE DEF Folds
  <2> QED BY <2>5, <2>6
<1>3. \E f : Folds(h, f)
  <2>1. \A m \in 0..(h - 1) : m \in Some => m + 1 \in Some
    BY <1>2
  <2>2. h \in Some
    <3>1. h \in 0..h
      OBVIOUS
    <3> HIDE DEF Some
    <3> QED BY <1>1, <2>1, <3>1, UpTo
  <2> QED BY <2>2
<1> DEFINE iter == CHOOSE iter : Folds(h, iter)
<1>4. Folds(h, iter)
  BY <1>3
<1>5. FoldProof(leaf, proof) = iter[1..h]
  BY DEF FoldProof, FoldLeft, MapThenFoldSet, Combined
<1> HIDE DEF iter
<1> DEFINE acc == [k \in 0..h |-> iter[1..k]]
<1>6. acc[0] = leaf
  BY <1>4
<1>7. ASSUME NEW k \in 1..h PROVE acc[k] = Combined(acc[k - 1], proof[k])
  <2>1. Max(1..k) = k
    <3>1. k \in 1..k /\ \A y \in 1..k : k >= y
      OBVIOUS
    <3>2. \A x \in 1..k : (\A y \in 1..k : x >= y) => x = k
      OBVIOUS
    <3> QED BY <3>1, <3>2 DEF Max
  <2>2. k \in 1..k /\ 1..k \subseteq 1..h
    OBVIOUS
  <2>3. (1..k) \ {k} = 1..(k - 1)
    OBVIOUS
  <2>4. iter[1..k] = Combined(iter[1..(k - 1)], proof[k])
    BY <1>4, <2>1, <2>2, <2>3
  <2> QED BY <2>4
<1>8. acc[h] = iter[1..h]
  OBVIOUS
<1> HIDE DEF acc
<1> QED BY <1>5, <1>6, <1>7, <1>8

-----------------------------------------------------------------------------
(* The level above pairs the nodes of a level, and the last with itself.   *)
LEMMA Halved ==
    ASSUME NEW level, IsSeq(level)
    PROVE  /\ Len(level) \in Nat /\ DOMAIN level = 1..Len(level)
           /\ IsSeq(LevelAbove(level))
           /\ Len(LevelAbove(level)) = (Len(level) + 1) \div 2
           /\ \A i \in 0..((Len(level) + 1) \div 2 - 1) :
                 NodeAt(LevelAbove(level), i) =
                     NodeHash(NodeAt(level, 2 * i), NodeAt(level, PairedWith(level, 2 * i)))
<1>1. Len(level) \in Nat /\ DOMAIN level = 1..Len(level)
  BY DEF IsSeq
<1>2. PICK m : m = (Len(level) + 1) \div 2
  OBVIOUS
<1>3. m \in Nat
  BY <1>1, <1>2
<1>4. LevelAbove(level) = [n \in 1..m |-> LevelAbove(level)[n]]
  BY <1>2 DEF LevelAbove
<1>5. IsSeq(LevelAbove(level)) /\ Len(LevelAbove(level)) = m
  BY <1>3, <1>4, Listed
<1>6. ASSUME NEW i \in 0..(m - 1)
      PROVE  NodeAt(LevelAbove(level), i) =
                 NodeHash(NodeAt(level, 2 * i), NodeAt(level, PairedWith(level, 2 * i)))
  <2>1. i + 1 \in 1..m /\ 2 * ((i + 1) - 1) = 2 * i
    BY <1>3
  <2>2. LevelAbove(level)[i + 1] =
            NodeHash(NodeAt(level, 2 * ((i + 1) - 1)),
                     NodeAt(level, PairedWith(level, 2 * ((i + 1) - 1))))
    BY <1>2, <2>1 DEF LevelAbove
  <2>3. NodeAt(LevelAbove(level), i) = LevelAbove(level)[i + 1]
    BY DEF NodeAt
  <2> QED BY <2>1, <2>2, <2>3
<1> QED BY <1>1, <1>2, <1>5, <1>6

(* No level is empty, and each has fewer nodes than the one below it, until*)
(* there is one node.                                                      *)
LEMMA LevelSizes ==
    ASSUME NEW leaves, IsSeq(leaves), leaves # << >>
    PROVE  /\ Len(leaves) \in Nat
           /\ \A k \in 0..Len(leaves) :
                 /\ IsSeq(Built(leaves)[k])
                 /\ Len(Built(leaves)[k]) \in Nat \ {0}
                 /\ Len(Built(leaves)[k]) <= 1 \/ Len(Built(leaves)[k]) <= Len(leaves) - k
<1>1. PICK n : n = Len(leaves)
  OBVIOUS
<1>2. n \in Nat \ {0}
  BY <1>1, EmptySeq DEF IsSeq
<1> DEFINE Good == {k \in 0..n : /\ IsSeq(Built(leaves)[k])
                                 /\ Len(Built(leaves)[k]) \in Nat \ {0}
                                 /\ Len(Built(leaves)[k]) <= 1 \/ Len(Built(leaves)[k]) <= n - k}
<1>3. 0 \in Good
  <2>1. Built(leaves)[0] = leaves
    BY <1>1, <1>2, LevelsBuilt
  <2>2. 0 \in 0..n /\ n <= n - 0
    BY <1>2
  <2> QED BY <1>1, <1>2, <2>1, <2>2
<1>4. ASSUME NEW k \in 0..(n - 1), k \in Good PROVE k + 1 \in Good
  <2>1. PICK below : below = Built(leaves)[k]
    OBVIOUS
  <2>2. PICK above : above = Built(leaves)[k + 1]
    OBVIOUS
  <2>3. k + 1 \in 1..n /\ (k + 1) - 1 = k /\ k + 1 \in 0..n
    BY <1>2
  <2>4. above = LevelAbove(below)
    BY <1>1, <1>2, <2>1, <2>2, <2>3, LevelsBuilt
  <2>5. IsSeq(below) /\ Len(below) \in Nat \ {0} /\ (Len(below) <= 1 \/ Len(below) <= n - k)
    BY <1>4, <2>1
  <2>6. IsSeq(above) /\ Len(above) = (Len(below) + 1) \div 2
    BY <2>4, <2>5, Halved
  <2>7. Len(above) \in Nat \ {0} /\ (Len(above) <= 1 \/ Len(above) <= n - (k + 1))
    BY <1>2, <2>5, <2>6
  <2> QED BY <2>2, <2>3, <2>6, <2>7
<1>5. 0..n \subseteq Good
  <2> HIDE DEF Good
  <2> QED BY <1>2, <1>3, <1>4, UpTo
<1> QED BY <1>1, <1>2, <1>5

(* There is a first level of one node, which holds the root.               *)
LEMMA RootIsAlone ==
    ASSUME NEW leaves, IsSeq(leaves), leaves # << >>
    PROVE  /\ Height(leaves) \in 0..Len(leaves)
           /\ Len(Built(leaves)[Height(leaves)]) = 1
           /\ Root(leaves) = NodeAt(Built(leaves)[Height(leaves)], 0)
<1>1. PICK n \in Nat : n = Len(leaves)
  BY LevelSizes
<1> DEFINE Low == {h \in 0..n : Len(Built(leaves)[h]) <= 1}
<1>2. n \in Low /\ Low \subseteq Nat
  <2>1. PICK c : c = Len(Built(leaves)[n])
    OBVIOUS
  <2>2. n \in 0..n
    BY <1>1
  <2>3. c \in Nat \ {0} /\ (c <= 1 \/ c <= n - n)
    BY <1>1, <2>1, <2>2, LevelSizes
  <2>4. c <= 1
    BY <1>1, <2>3
  <2> QED BY <2>1, <2>2, <2>4
<1>3. PICK h \in Low : \A k \in Low : h <= k
  <2> HIDE DEF Low
  <2> QED BY <1>2, LeastNumber
<1>4. \A k \in 0..(h - 1) : Len(Built(leaves)[k]) > 1
  <2> TAKE k \in 0..(h - 1)
  <2>1. k \in 0..n /\ ~(h <= k)
    OBVIOUS
  <2>2. k \notin Low
    BY <1>3, <2>1
  <2>3. PICK c : c = Len(Built(leaves)[k])
    OBVIOUS
  <2>4. c \in Nat /\ ~(c <= 1)
    BY <1>1, <2>1, <2>2, <2>3, LevelSizes
  <2> QED BY <2>3, <2>4
<1>5. \E x \in 0..Len(leaves) :
          Len(Built(leaves)[x]) <= 1 /\ \A k \in 0..(x - 1) : Len(Built(leaves)[k]) > 1
  BY <1>1, <1>4
<1>6. Height(leaves) \in 0..Len(leaves) /\ Len(Built(leaves)[Height(leaves)]) <= 1
  BY <1>5 DEF Height
<1>7. PICK c : c = Len(Built(leaves)[Height(leaves)])
  OBVIOUS
<1>8. c = 1
  <2>1. c \in Nat \ {0} /\ c <= 1
    BY <1>6, <1>7, LevelSizes
  <2> QED BY <2>1
<1>9. Height(leaves) \in 0..Height(leaves)
  BY <1>1, <1>6
<1>10. Root(leaves) = NodeAt(Built(leaves)[Height(leaves)], 0)
  BY <1>9 DEF Root, Levels, NodeAt
<1> QED BY <1>6, <1>7, <1>8, <1>10

(* Where the leaf's node stands at each level.                             *)
LEMMA PlacesExist ==
    ASSUME NEW leaves, IsSeq(leaves), leaves # << >>, NEW index \in 0..(Len(leaves) - 1)
    PROVE  \A k \in 0..Height(leaves) :
               Places(leaves, index)[k] \in 0..(Len(Built(leaves)[k]) - 1)
<1>1. PICK h \in Nat : h = Height(leaves)
  BY RootIsAlone, LevelSizes
<1> DEFINE Good == {k \in 0..h : Places(leaves, index)[k] \in 0..(Len(Built(leaves)[k]) - 1)}
<1>2. 0 \in Good
  BY <1>1, LevelSizes, LevelsBuilt, PlacesHalved
<1>3. ASSUME NEW k \in 0..(h - 1), k \in Good PROVE k + 1 \in Good
  <2>1. PICK below : below = Built(leaves)[k]
    OBVIOUS
  <2>2. PICK above : above = Built(leaves)[k + 1]
    OBVIOUS
  <2>3. k + 1 \in 1..h /\ (k + 1) - 1 = k /\ k + 1 \in 0..h
    BY <1>1
  <2>4. k \in 0..Len(leaves) /\ k + 1 \in 1..Len(leaves)
    BY <1>1, <2>3, RootIsAlone, LevelSizes
  <2>5. above = LevelAbove(below)
    BY <2>1, <2>2, <2>3, <2>4, LevelsBuilt, LevelSizes
  <2>6. IsSeq(below) /\ Len(below) \in Nat
    BY <2>1, <2>4, LevelSizes
  <2>7. Len(above) = (Len(below) + 1) \div 2
    BY <2>5, <2>6, Halved
  <2>8. PICK p : p = Places(leaves, index)[k]
    OBVIOUS
  <2>9. PICK q : q = Places(leaves, index)[k + 1]
    OBVIOUS
  <2>10. q = p \div 2
    BY <1>1, <2>3, <2>8, <2>9, PlacesHalved
  <2>11. p \in 0..(Len(below) - 1)
    BY <1>3, <2>1, <2>8
  <2>12. q \in 0..(Len(above) - 1)
    BY <2>6, <2>7, <2>10, <2>11
  <2> QED BY <2>2, <2>3, <2>9, <2>12
<1>4. 0..h \subseteq Good
  <2> HIDE DEF Good
  <2> QED BY <1>1, <1>2, <1>3, UpTo
<1> QED BY <1>1, <1>4

(* One step of a proof: what it makes of a value is the parent's node, if  *)
(* the value is the node's, and another one, if it is not.                 *)
LEMMA StepUp ==
    ASSUME NEW level, IsSeq(level), NEW i \in 0..(Len(level) - 1), NEW value
    PROVE  Combined(value, [sibling |-> NodeAt(level, Sibling(level, i)),
                            side |-> IF i % 2 = 1 THEN "L" ELSE "R"])
               = NodeAt(LevelAbove(level), i \div 2)
           <=> value = NodeAt(level, i)
<1>1. PICK m \in Nat : m = Len(level)
  BY DEF IsSeq
<1>2. PICK j \in Nat : j = i \div 2 /\ (i = 2 * j \/ i = 2 * j + 1)
  BY <1>1
<1>3. j \in 0..((m + 1) \div 2 - 1)
  BY <1>1, <1>2
<1>4. NodeAt(LevelAbove(level), j) =
          NodeHash(NodeAt(level, 2 * j), NodeAt(level, PairedWith(level, 2 * j)))
  BY <1>1, <1>3, Halved
<1>5. \A a, b, c, d : NodeHash(a, b) = NodeHash(c, d) <=> a = c /\ b = d
  BY DEF NodeHash
<1>6. CASE i = 2 * j + 1
  <2>1. i % 2 = 1 /\ i - 1 = 2 * j /\ 2 * j + 1 < m
    BY <1>1, <1>2, <1>6
  <2>2. Sibling(level, i) = 2 * j
    BY <2>1 DEF Sibling
  <2>3. PairedWith(level, 2 * j) = i
    BY <1>1, <1>6, <2>1 DEF PairedWith
  <2>4. Combined(value, [sibling |-> NodeAt(level, Sibling(level, i)),
                         side |-> IF i % 2 = 1 THEN "L" ELSE "R"])
            = NodeHash(NodeAt(level, 2 * j), value)
    BY <2>1, <2>2 DEF Combined
  <2> QED BY <1>2, <1>4, <1>5, <2>3, <2>4
<1>7. CASE i = 2 * j
  <2>1. i % 2 # 1
    BY <1>2, <1>7
  <2>2. Sibling(level, i) = PairedWith(level, 2 * j)
    BY <1>7, <2>1 DEF Sibling
  <2>3. Combined(value, [sibling |-> NodeAt(level, Sibling(level, i)),
                         side |-> IF i % 2 = 1 THEN "L" ELSE "R"])
            = NodeHash(value, NodeAt(level, PairedWith(level, 2 * j)))
    BY <2>1, <2>2 DEF Combined
  <2> QED BY <1>2, <1>4, <1>5, <1>7, <2>3
<1> QED BY <1>2, <1>6, <1>7

(* For a log of any length, the proof of an entry leads to the root from   *)
(* this entry and from no other (merkle.py:56-95).                         *)
THEOREM ProofsDecide ==
    ASSUME NEW entries, IsSeq(entries), NEW i \in DOMAIN entries, NEW entry
    PROVE  FoldProof(LeafHash(entry), InclusionProof(Leaves(entries), i - 1))
               = Root(Leaves(entries))
           <=> entry = entries[i]
<1>1. PICK leaves : leaves = Leaves(entries)
  OBVIOUS
<1>2. PICK n : n = Len(entries)
  OBVIOUS
<1>3. n \in Nat /\ DOMAIN entries = 1..n /\ i \in 1..n
  BY <1>2 DEF IsSeq
<1>4. leaves = [k \in 1..n |-> leaves[k]] /\ leaves[i] = LeafHash(entries[i])
  BY <1>1, <1>3 DEF Leaves
<1>5. IsSeq(leaves) /\ Len(leaves) = n /\ leaves # << >>
  <2>1. IsSeq(leaves) /\ Len(leaves) = n
    BY <1>3, <1>4, Listed
  <2> QED BY <1>3, <2>1, EmptySeq
<1>6. PICK index : index = i - 1
  OBVIOUS
<1>7. index \in 0..(Len(leaves) - 1)
  BY <1>3, <1>5, <1>6
<1>8. PICK h \in Nat : h = Height(leaves)
  BY <1>5, RootIsAlone, LevelSizes
<1>9. PICK proof : proof = InclusionProof(leaves, index)
  OBVIOUS
<1>10. DOMAIN proof = 1..h
  BY <1>8, <1>9 DEF InclusionProof
<1> DEFINE Node(k) == NodeAt(Built(leaves)[k], Places(leaves, index)[k])
<1>11. PICK acc : /\ acc[0] = LeafHash(entry)
                  /\ \A k \in 1..h : acc[k] = Combined(acc[k - 1], proof[k])
                  /\ FoldProof(LeafHash(entry), proof) = acc[h]
  BY <1>10, StepByStep
<1> DEFINE Good == {k \in 0..h : acc[k] = Node(k) <=> entry = entries[i]}
<1>12. 0 \in Good
  <2>1. Built(leaves)[0] = leaves /\ Places(leaves, index)[0] = index
    BY <1>3, <1>5, <1>8, LevelsBuilt, PlacesHalved
  <2>2. index + 1 = i
    BY <1>3, <1>6
  <2>3. Node(0) = LeafHash(entries[i])
    BY <1>4, <2>1, <2>2 DEF NodeAt
  <2>4. LeafHash(entry) = LeafHash(entries[i]) <=> entry = entries[i]
    BY DEF LeafHash
  <2>5. 0 \in 0..h
    OBVIOUS
  <2> HIDE DEF Node
  <2> QED BY <1>11, <2>3, <2>4, <2>5
<1>13. ASSUME NEW k \in 0..(h - 1), k \in Good PROVE k + 1 \in Good
  <2>1. k + 1 \in 1..h /\ (k + 1) - 1 = k /\ k + 1 \in 0..h /\ k \in 0..h
    OBVIOUS
  <2>2. k \in 0..Len(leaves) /\ k + 1 \in 1..Len(leaves)
    BY <1>3, <1>5, <1>8, <2>1, RootIsAlone
  <2>3. PICK level : level = Built(leaves)[k]
    OBVIOUS
  <2>4. PICK p : p = Places(leaves, index)[k]
    OBVIOUS
  <2>5. IsSeq(level) /\ p \in 0..(Len(level) - 1)
    BY <1>5, <1>7, <1>8, <2>1, <2>2, <2>3, <2>4, LevelSizes, PlacesExist
  <2>6. Built(leaves)[k + 1] = LevelAbove(level)
    BY <1>3, <1>5, <2>1, <2>2, <2>3, LevelsBuilt
  <2>7. Places(leaves, index)[k + 1] = p \div 2
    BY <1>8, <2>1, <2>4, PlacesHalved
  <2>8. proof[k + 1] = [sibling |-> NodeAt(level, Sibling(level, p)),
                        side |-> IF p % 2 = 1 THEN "L" ELSE "R"]
    BY <1>8, <1>9, <2>1, <2>3, <2>4 DEF InclusionProof, Levels
  <2>9. acc[k + 1] = Combined(acc[k], proof[k + 1])
    BY <1>11, <2>1
  <2>10. acc[k + 1] = NodeAt(LevelAbove(level), p \div 2) <=> acc[k] = NodeAt(level, p)
    BY <2>5, <2>8, <2>9, StepUp
  <2>11. acc[k] = NodeAt(level, p) <=> entry = entries[i]
    BY <1>13, <2>3, <2>4
  <2> QED BY <2>1, <2>6, <2>7, <2>10, <2>11
<1>14. h \in Good
  <2>1. h \in 0..h
    OBVIOUS
  <2> HIDE DEF Good
  <2> QED BY <1>12, <1>13, <2>1, UpTo
<1>15. Node(h) = Root(leaves)
  <2>1. PICK p : p = Places(leaves, index)[h]
    OBVIOUS
  <2>2. Len(Built(leaves)[h]) = 1 /\ p \in 0..(Len(Built(leaves)[h]) - 1)
    BY <1>5, <1>7, <1>8, <2>1, RootIsAlone, PlacesExist
  <2>3. p = 0
    BY <2>2
  <2> QED BY <1>5, <1>8, <2>1, <2>3, RootIsAlone
<1> HIDE DEF Node
<1> QED BY <1>1, <1>6, <1>9, <1>11, <1>14, <1>15
-----------------------------------------------------------------------------
(* What becomes of a receipt. It was made from a log by whoever held the   *)
(* private key; and unless the making of the key was disturbed, the pair is*)
(* on disk, nobody is making another, and the public half resolves the     *)
(* receipt's signature.                                                    *)
MadeFrom(r, entries, i, key) ==
    /\ IsSeq(entries) /\ i \in DOMAIN entries
    /\ r = Receipt(entries[i], InclusionProof(Leaves(entries), i - 1),
                   SignTreeHead(Len(entries), Root(Leaves(entries)), key))

ReceiptStands ==
    receipt # NoReceipt =>
        \E entries, i, key :
            /\ MadeFrom(receipt, entries, i, key)
            /\ ~disturbed => PairOnDisk /\ ~BeingMade /\ key = publicFile

(* Whoever starts or ends once the pair is there leaves it there.          *)
LEMMA PairStays ==
    ASSUME KeyInv, PairOnDisk, ~BeingMade, NEW u \in KeyUsers, Starting(u) \/ Ends(u)
    PROVE  PairOnDisk' /\ ~BeingMade' /\ publicFile' = publicFile
<1>1. stage[u] \notin Making
  BY DEF BeingMade
<1>2. LookForKey(u) \/ LoadKey(u) \/ Ends(u)
  BY <1>1 DEF Starting, GenerateKey, WritePrivate, EmptyPublic, WritePublic, Making
<1>3. privateFile' = privateFile /\ publicFile' = publicFile
  BY <1>2 DEF LookForKey, LoadKey, Ends
<1>4. stage' \in {[stage EXCEPT ![u] = s] : s \in {"out", "loading", "ready", "failed"}}
  BY <1>2, KeystoreAssumption DEF LookForKey, LoadKey, Ends, Reaches, PairOnDisk
<1>5. \A w \in KeyUsers : stage'[w] \notin Making
  BY <1>4 DEF KeyInv, KeyTypes, BeingMade, Making
<1> QED BY <1>3, <1>5 DEF PairOnDisk, BeingMade

(* covenant-verify prove makes a receipt that stands.                      *)
LEMMA ProveStands ==
    ASSUME IsSeq(file), KeyInv, NEW seq, Prove(seq)
    PROVE  ReceiptStands'
<1>1. PICK entries : entries = FileEntries
  OBVIOUS
<1>2. PICK n \in Nat : n = Len(file) /\ DOMAIN file = 1..n
  BY DEF IsSeq
<1>3. IsSeq(entries) /\ DOMAIN entries = 1..n
  <2>1. entries = [k \in 1..n |-> entries[k]]
    BY <1>1, <1>2 DEF FileEntries
  <2> QED BY <2>1, Listed
<1>4. PICK numbered : numbered = Numbered(entries, seq)
  OBVIOUS
<1>5. numbered \subseteq Nat /\ numbered # {} /\ numbered \subseteq DOMAIN entries
  BY <1>1, <1>3, <1>4 DEF Prove, Numbered
<1>6. PICK i : i = CHOOSE k \in numbered : \A j \in numbered : k <= j
  OBVIOUS
<1>7. i \in DOMAIN entries
  BY <1>5, <1>6, LeastNumber
<1>8. MadeFrom(receipt', entries, i, holding[Verifier])
  BY <1>1, <1>3, <1>4, <1>6, <1>7 DEF Prove, ProveInclusion, CurrentHead, MadeFrom
<1>9. ASSUME ~disturbed' PROVE PairOnDisk' /\ ~BeingMade' /\ holding[Verifier] = publicFile'
  <2>1. Orderly /\ stage[Verifier] = "ready" /\ Ends(Verifier) /\ Verifier \in KeyUsers
    BY <1>9, ReceiptsAssumption DEF Prove, Ends, KeyInv
  <2>2. PairOnDisk /\ holding[Verifier] = publicFile
    BY <2>1 DEF Orderly, FilesFitStage, PairOnDisk
  <2>3. ~BeingMade
    BY <2>1 DEF Orderly, MakerAlone, BeingMade, Making
  <2> QED BY <2>1, <2>2, <2>3, PairStays
<1> QED BY <1>8, <1>9 DEF ReceiptStands

(* Nothing else disturbs it.                                               *)
LEMMA StandsStep ==
    ASSUME IsSeq(file), KeyInv, ReceiptStands, [ReceiptsNext]_receiptVars
    PROVE  ReceiptStands'
<1>1. CASE \E seq \in 1..MaxEntries : Prove(seq)
  BY <1>1, ProveStands
<1>2. CASE ~\E seq \in 1..MaxEntries : Prove(seq)
  <2>1. receipt' = receipt
    BY <1>2 DEF ReceiptsNext, receiptVars
  <2>2. UNCHANGED keyVars \/ \E u \in KeyUsers : Starting(u) \/ Ends(u)
    BY <1>2, ReceiptsAssumption
       DEF ReceiptsNext, receiptVars, ProxyStep, VerifierStep, EditStep
  <2>3. disturbed => disturbed'
    BY <2>2 DEF keyVars, Starting, LookForKey, LoadKey, GenerateKey, WritePrivate, EmptyPublic,
                WritePublic, Ends
  <2>4. PairOnDisk /\ ~BeingMade => PairOnDisk' /\ ~BeingMade' /\ publicFile' = publicFile
    <3>1. CASE UNCHANGED keyVars
      BY <3>1 DEF keyVars, PairOnDisk, BeingMade
    <3> QED BY <2>2, <3>1, PairStays
  <2> QED BY <2>1, <2>3, <2>4 DEF ReceiptStands
<1> QED BY <1>1, <1>2

(* So any number of proxies and verifiers, starting, ending and editing,   *)
(* leave a receipt standing.                                               *)
LEMMA ReceiptInvariance == ReceiptsSpec => [](IsSeq(file) /\ KeyInv /\ ReceiptStands)
<1>1. ReceiptsInit => IsSeq(file) /\ KeyInv /\ ReceiptStands
  BY NoEntries, KeyInitInv DEF ReceiptsInit, Init, ReceiptStands
<1>2. IsSeq(file) /\ KeyInv /\ ReceiptStands /\ [ReceiptsNext]_receiptVars
          => (IsSeq(file) /\ KeyInv /\ ReceiptStands)'
  BY ReceiptsAreLogSteps, FileStep, ReceiptsStep, StandsStep
<1> QED BY <1>1, <1>2, PTL DEF ReceiptsSpec

-----------------------------------------------------------------------------
(* What checks out against a receipt is the entry it was made for: for     *)
(* whatever number it is checked, and whatever became of log and keys.     *)
OwnEntryOnly ==
    receipt # NoReceipt =>
        \A seq : ChecksOut(seq, receipt) => CurrentEntry(seq) = receipt.entry

(* The proof and the root that a standing receipt pins belong to one log.  *)
LEMMA ReceiptFolds ==
    ASSUME ReceiptStands, receipt # NoReceipt, NEW entry
    PROVE  FoldProof(LeafHash(entry), receipt.proof) = receipt.head.root_hash
               <=> entry = receipt.entry
<1>1. PICK entries, i, key : MadeFrom(receipt, entries, i, key)
  BY DEF ReceiptStands
<1>2. /\ receipt.entry = entries[i]
      /\ receipt.proof = InclusionProof(Leaves(entries), i - 1)
      /\ receipt.head.root_hash = Root(Leaves(entries))
  BY <1>1 DEF MadeFrom, Receipt, SignTreeHead
<1> QED BY <1>1, <1>2, ProofsDecide DEF MadeFrom

(* A receipt checks out against no other entry than its own, for any number*)
(* of writers and keys, through edits, crashes and disturbed key files     *)
(* (merkle.py:188-202, 262-284).                                           *)
THEOREM ReceiptsBind == ReceiptsSpec => []OwnEntryOnly
<1>1. ReceiptStands => OwnEntryOnly
  BY ReceiptFolds DEF OwnEntryOnly, ChecksOut, VerifyInclusion
<1> QED BY <1>1, ReceiptInvariance, PTL

(* A receipt that stands agrees with a log whose numbers are those of its  *)
(* lines.                                                                  *)
LEMMA StandsAgrees ==
    ASSUME IsSeq(file), SeqsCount, ReceiptStands
    PROVE  ReceiptsAgree
<1> SUFFICES ASSUME receipt # NoReceipt, Loadable, NEW seq \in DOMAIN file
             PROVE  /\ ChecksOut(seq, receipt) => file[seq].entry = receipt.entry
                    /\ file[seq].entry = receipt.entry /\ ~disturbed => ChecksOut(seq, receipt)
  BY DEF ReceiptsAgree
<1>1. Numbered(FileEntries, seq) = {seq}
  BY DEF SeqsCount, Numbered, FileEntries
<1>2. CurrentEntry(seq) = file[seq].entry
  <2>1. seq \in Nat
    BY DEF IsSeq
  <2>2. (CHOOSE k \in {seq} : \A j \in {seq} : j <= k) = seq
    BY <2>1
  <2> QED BY <1>1, <2>2 DEF CurrentEntry, FileEntries
<1>3. FoldProof(LeafHash(CurrentEntry(seq)), receipt.proof) = receipt.head.root_hash
          <=> file[seq].entry = receipt.entry
  BY <1>2, ReceiptFolds
<1>4. ~disturbed => Resolves /\ VerifyHead(receipt.head, publicFile)
  BY KeystoreAssumption
     DEF ReceiptStands, MadeFrom, Receipt, SignTreeHead, VerifyHead, PairOnDisk, Resolves
<1> QED BY <1>1, <1>3, <1>4 DEF ChecksOut, VerifyInclusion

(* ReceiptsAgree for a log of any length, one proxy and any keys: a receipt*)
(* checks out against the entry it was made for and no other, through later*)
(* entries, restarts and edits of other lines (merkle.py:178-191, 232-284).*)
THEOREM ReceiptsDecide ==
    ASSUME NEW CONSTANT p, Processes = {p}, ~WriteMayFail, ~CrashMayTear
    PROVE  ReceiptsSpec => []ReceiptsAgree
<1>1. Spec => []SeqsCount
  BY SingleWriterNumbers
<1>2. IsSeq(file) /\ SeqsCount /\ ReceiptStands => ReceiptsAgree
  BY StandsAgrees
<1> QED BY <1>1, <1>2, ReceiptInvariance, ReceiptsKeepTheLog, PTL
=============================================================================
