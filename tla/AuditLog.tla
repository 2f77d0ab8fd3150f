------------------------------ MODULE AuditLog ------------------------------
(***************************************************************************)
(* The hash-chained audit log (src/covenant/audit.py): a JSONL file that   *)
(* several processes may have open, each with its own copy of the entries  *)
(* in memory (every proxy opens config.AUDIT_LOG_PATH, and covenant-verify *)
(* reads it).                                                              *)
(*                                                                         *)
(* append() extends the memory first and the file second; the two are      *)
(* separate steps because other processes, and the death of this one, come *)
(* between them. SHA-256 is taken to be injective: an entry stands for its *)
(* own digest. A line of the file is a piece: an entry that parses, or one *)
(* that does not, and whether a newline ends it yet.                       *)
(***************************************************************************)
EXTENDS Integers, Sequences, FiniteSets, SequencesExt

CONSTANTS
    Processes,
    Payloads,       \* the fields of an entry other than seq and prev_hash
    Genesis,        \* GENESIS_HASH
    WriteMayFail,   \* an append may raise OSError with only a part written
    CrashMayTear,   \* a process may die with only a part written
    MayEdit,        \* somebody may edit one line of the file
    MaxEntries      \* bound on the entries of a process and of the file

VARIABLES
    file,       \* the lines of the file
    memory,     \* _entries of each process
    state,      \* of each process: closed, open, writing, unloadable
    returned,   \* history: the entries append() has returned
    edited,     \* history: the line edited, 0 when none was
    adopted     \* history: the edited line was the last when a process loaded it

vars == <<file, memory, state, returned, edited, adopted>>

Line(entry, ended) == [parses |-> TRUE, entry |-> entry, ended |-> ended]
Garbage(ended) == [parses |-> FALSE, ended |-> ended]

(* open("a") and write: a line that was not ended is run together with     *)
(* what follows, and no longer parses.                                     *)
WrittenOver(piece) == <<piece>>     \* wrong on purpose: open("w")

Written(piece) ==
    IF file = << >> \/ Last(file).ended
    THEN Append(file, piece)
    ELSE ReplaceAt(file, Len(file), Garbage(piece.ended))

(* What of a line has reached the file when its write was cut short.       *)
CutShort(entry) ==
    {file, Written(Garbage(FALSE)), Written(Line(entry, FALSE))}

Loadable == \A i \in DOMAIN file : file[i].parses
FileEntries == [i \in DOMAIN file |-> file[i].entry]

(* verify_chain: the hash each entry embeds is that of the entry before.   *)
FirstChained(entries) ==            \* wrong on purpose: stops at the first
    entries # << >> => entries[1].prev_hash = Genesis

Chained(entries) ==
    \A i \in DOMAIN entries :
        entries[i].prev_hash = IF i = 1 THEN Genesis ELSE entries[i - 1]

NextAfterFirst(entries, payload) == \* wrong on purpose: hashes _entries[0]
    [seq |-> Len(entries) + 1, payload |-> payload,
     prev_hash |-> IF entries = << >> THEN Genesis ELSE Head(entries)]

NextFromZero(entries, payload) ==   \* wrong on purpose: numbers from 0
    [seq |-> Len(entries), payload |-> payload,
     prev_hash |-> IF entries = << >> THEN Genesis ELSE Last(entries)]

NextEntry(entries, payload) ==
    [seq |-> Len(entries) + 1,
     payload |-> payload,
     prev_hash |-> IF entries = << >> THEN Genesis ELSE Last(entries)]

-----------------------------------------------------------------------------
Init ==
    /\ file = << >>
    /\ memory = [p \in Processes |-> << >>]
    /\ state = [p \in Processes |-> "closed"]
    /\ returned = {}
    /\ edited = 0
    /\ adopted = FALSE

(* AuditLog.__init__: a line that does not parse is a JSONDecodeError.     *)
Open(p) ==
    /\ state[p] = "closed"
    /\ IF Loadable
       THEN /\ state' = [state EXCEPT ![p] = "open"]
            /\ memory' = [memory EXCEPT ![p] = FileEntries]
            /\ adopted' = (adopted \/ (edited # 0 /\ edited = Len(file)))
       ELSE /\ state' = [state EXCEPT ![p] = "unloadable"]
            /\ UNCHANGED <<memory, adopted>>
    /\ UNCHANGED <<file, returned, edited>>

(* Wrong on purpose: the entry is written but never remembered.            *)
AppendForgets(p, payload) ==
    /\ state[p] = "open"
    /\ state' = [state EXCEPT ![p] = "writing"]
    /\ UNCHANGED <<file, memory, returned, edited, adopted>>

AppendToMemory(p, payload) ==
    /\ state[p] = "open"
    /\ Len(memory[p]) < MaxEntries /\ Len(file) < MaxEntries
    /\ memory' = [memory EXCEPT ![p] = Append(@, NextEntry(@, payload))]
    /\ state' = [state EXCEPT ![p] = "writing"]
    /\ UNCHANGED <<file, returned, edited, adopted>>

Write(p) ==
    /\ state[p] = "writing"
    /\ file' = Written(Line(Last(memory[p]), TRUE))
    /\ state' = [state EXCEPT ![p] = "open"]
    /\ returned' = returned \cup {Last(memory[p])}
    /\ UNCHANGED <<memory, edited, adopted>>

(* mkdir, open or write raises: the entry stays in memory, the process     *)
(* lives on and its caller sees the exception.                             *)
WriteFails(p) ==
    /\ WriteMayFail
    /\ state[p] = "writing"
    /\ file' \in CutShort(Last(memory[p]))
    /\ state' = [state EXCEPT ![p] = "open"]
    /\ UNCHANGED <<memory, returned, edited, adopted>>

Crash(p) ==
    /\ state[p] # "closed"
    /\ file' \in IF state[p] = "writing" /\ CrashMayTear
                 THEN CutShort(Last(memory[p])) ELSE {file}
    /\ state' = [state EXCEPT ![p] = "closed"]
    /\ memory' = [memory EXCEPT ![p] = << >>]
    /\ UNCHANGED <<returned, edited, adopted>>

(* Somebody rewrites what one line says, keeping it well-formed.           *)
Edit(i, payload) ==
    /\ MayEdit /\ edited = 0
    /\ file[i].parses
    /\ file[i].entry.payload # payload
    /\ file' = [file EXCEPT ![i].entry.payload = payload]
    /\ edited' = i
    /\ UNCHANGED <<memory, state, returned, adopted>>

Next ==
    \/ \E p \in Processes :
          \/ Open(p)
          \/ \E payload \in Payloads : AppendToMemory(p, payload)
          \/ Write(p)
          \/ WriteFails(p)
          \/ Crash(p)
    \/ \E i \in DOMAIN file, payload \in Payloads : Edit(i, payload)

Spec == Init /\ [][Next]_vars

-----------------------------------------------------------------------------
TypeOK ==
    /\ state \in [Processes -> {"closed", "open", "writing", "unloadable"}]
    /\ DOMAIN memory = Processes
    /\ \A p \in Processes : state[p] = "writing" => memory[p] # << >>
    /\ \A i \in DOMAIN file : file[i].parses => file[i].entry.payload \in Payloads
    /\ edited \in 0..Len(file)

(* As long as nobody edits the file its chain is intact: what the next     *)
(* process finds is a chain that verifies (audit.py:105-121, 126-133).     *)
ChainIntact == edited = 0 /\ Loadable => Chained(FileEntries)

(* The numbering on disk has no gap and no repetition.                     *)
SeqsCount == Loadable => \A i \in DOMAIN file : file[i].entry.seq = i

(* What append() has returned is in the file, for any number of writers    *)
(* (audit.py:117-121); of an edited line, what the edit left of it. Where  *)
(* a failed write or a torn line makes it unreadable, run together with    *)
(* the remains of an earlier one, the loss is never silent: the log no     *)
(* longer loads.                                                           *)
Remains(i, e) ==
    \/ file[i].entry = e
    \/ i = edited /\ file[i].entry = [e EXCEPT !.payload = file[i].entry.payload]

LossNoticed == Loadable => \A e \in returned : \E i \in DOMAIN file : Remains(i, e)

(* After an edit the chain is broken, except while the edited line is the  *)
(* last one, and for ever if a process loaded it when it was: that process *)
(* carried on from what the edit left (audit.py:4-6, 84-92, 126-133; what  *)
(* test_hash_chain_detects_tamper relies on, and what it does not meet).   *)
EditNoticed ==
    edited # 0 /\ Loadable =>
        (Chained(FileEntries) <=> edited = Len(file) \/ adopted)

(* Lines once ended are never touched again by the program: the file only  *)
(* grows, unless somebody edits it.                                        *)
OnlyGrows ==
    [][edited' = edited =>
          \A i \in DOMAIN file : file[i].ended => i \in DOMAIN file' /\ file'[i] = file[i]]_vars

(* A process can always load the log again (class docstring, audit.py:80-  *)
(* 81: "so the chain continues correctly across process restarts").        *)
AlwaysLoadable == \A p \in Processes : state[p] # "unloadable"
=============================================================================
