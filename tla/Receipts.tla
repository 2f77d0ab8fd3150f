------------------------------ MODULE Receipts ------------------------------
(***************************************************************************)
(* covenant-verify (src/covenant/merkle.py, main): somebody has a receipt  *)
(* made for an entry of the audit log, keeps it, and later checks the log  *)
(* against it, while the log grows, its writers crash and restart, and a   *)
(* line of it may be edited (module AuditLog). Proxies and covenant-verify *)
(* share the key pair, and the first of them to start creates it (module   *)
(* Keystore). A proxy opens the log, then gets its key, then appends;      *)
(* failing writes are left to module AuditLog.                             *)
(***************************************************************************)
EXTENDS AuditLog, Merkle, Keystore

CONSTANTS Verifier, NoReceipt

ASSUME ReceiptsAssumption == KeyUsers = Processes \cup {Verifier} /\ Verifier \notin Processes

VARIABLE receipt    \* the receipt somebody keeps, or NoReceipt

receiptVars == <<vars, keyVars, receipt>>

SignedBytes(size, root) == [tree_size |-> size, root_hash |-> root]

SignTreeHead(size, root, key) ==
    [tree_size |-> size, root_hash |-> root,
     signature |-> [key |-> key, over |-> SignedBytes(size, root)]]

VerifyHead(head, key) ==
    head.signature = [key |-> key, over |-> SignedBytes(head.tree_size, head.root_hash)]

VerifyInclusion(entry, proof, head, key) ==
    VerifyHead(head, key) /\ FoldProof(LeafHash(entry), proof) = head.root_hash

Receipt(entry, proof, head) == [entry |-> entry, proof |-> proof, head |-> head]

(* MerkleAuditLog.current_head signs a head over all entries; there is none*)
(* for an empty log.                                                       *)
CurrentHead(entries) == SignTreeHead(Len(entries), Root(Leaves(entries)), holding[Verifier])

(* prove_inclusion takes the first entry that carries the number; check,   *)
(* which makes a dict of the entries, takes the last.                      *)
Numbered(entries, seq) == {i \in DOMAIN entries : entries[i].seq = seq}

ProveInclusion(entries, seq) ==
    LET first == CHOOSE i \in Numbered(entries, seq) :
                    \A j \in Numbered(entries, seq) : i <= j
    IN  Receipt(entries[first], InclusionProof(Leaves(entries), first - 1),
                CurrentHead(entries))

(* covenant-verify prove: it has its private key, must resolve the public  *)
(* one, loads the log afresh, and saves the receipt whether or not it      *)
(* verifies. check gets its keys in the same way before it reads.          *)
Prove(seq) ==
    /\ stage[Verifier] = "ready"
    /\ Resolves
    /\ Loadable
    /\ Numbered(FileEntries, seq) # {}
    /\ receipt = NoReceipt
    /\ receipt' = ProveInclusion(FileEntries, seq)
    /\ Ends(Verifier)
    /\ UNCHANGED vars

(* covenant-verify check: the entry as it is now, the pinned proof. The    *)
(* number is given on the command line, the receipt need not be for it.    *)
CurrentEntry(seq) ==
    FileEntries[CHOOSE i \in Numbered(FileEntries, seq) :
                   \A j \in Numbered(FileEntries, seq) : j <= i]

ChecksOut(seq, r) ==
    /\ Resolves
    /\ Numbered(FileEntries, seq) # {}
    /\ VerifyInclusion(CurrentEntry(seq), r.proof, r.head, publicFile)

ReceiptsInit == Init /\ KeyInit /\ receipt = NoReceipt

(* A proxy: its log, its key, its entries.                                 *)
ProxyStep(p) ==
    \/ /\ \/ Open(p)
          \/ stage[p] = "ready" /\ \E payload \in Payloads : AppendToMemory(p, payload)
          \/ Write(p)
       /\ UNCHANGED keyVars
    \/ state[p] = "open" /\ Starting(p) /\ UNCHANGED vars
    \/ Crash(p) /\ Ends(p)

VerifierStep ==
    /\ Starting(Verifier) \/ (stage[Verifier] # "out" /\ Ends(Verifier))
    /\ UNCHANGED vars

EditStep == \E i \in DOMAIN file, payload \in Payloads : Edit(i, payload) /\ UNCHANGED keyVars

ReceiptsNext ==
    \/ (\E p \in Processes : ProxyStep(p)) /\ UNCHANGED receipt
    \/ VerifierStep /\ UNCHANGED receipt
    \/ EditStep /\ UNCHANGED receipt
    \/ \E seq \in 1..MaxEntries : Prove(seq)

ReceiptsSpec == ReceiptsInit /\ [][ReceiptsNext]_receiptVars

-----------------------------------------------------------------------------
(* A receipt checks out against the entry it was made for as it was then,  *)
(* and against nothing else: not once its line is edited, and not for the  *)
(* number of another line, whatever became of the keys (merkle.py:232-236).*)
(* And it does so through later entries, crashes, restarts and edits of    *)
(* other lines, unless the making of the key was disturbed. For a log of   *)
(* one writer, whose numbers are those of its lines.                       *)
ReceiptsAgree ==
    receipt # NoReceipt /\ Loadable =>
        \A seq \in DOMAIN file :
            /\ ChecksOut(seq, receipt) => file[seq].entry = receipt.entry
            /\ file[seq].entry = receipt.entry /\ ~disturbed => ChecksOut(seq, receipt)
=============================================================================
