------------------------------ MODULE Keystore ------------------------------
(***************************************************************************)
(* The issuer's key pair on disk (src/covenant/config.py): a private and a *)
(* public file that every proxy and every covenant-verify command shares,  *)
(* created by the first that finds no private file.                        *)
(*                                                                         *)
(* Nothing locks the two files, so those who start together interleave,    *)
(* and one that dies, or that an exception ends, leaves behind what it had *)
(* written so far. write_bytes() empties the file before it writes it.     *)
(***************************************************************************)
EXTENDS FiniteSets

CONSTANTS
    KeyUsers,       \* the processes that load or create the key
    Keys,           \* the key pairs Ed25519PrivateKey.generate() may return
    NoFile, Empty   \* a file that is not there, one without contents

ASSUME KeystoreAssumption == NoFile \notin Keys /\ Empty \notin Keys /\ NoFile # Empty

VARIABLES
    privateFile, publicFile,
    stage,      \* of each user: where it is in load_or_create_issuer_key
    holding,    \* the private key it has generated or loaded
    generated,  \* history: the keys generated so far
    disturbed   \* history: a key was being made when its maker ended, or
                \* when another user looked for the private file

keyVars == <<privateFile, publicFile, stage, holding, generated, disturbed>>

Making == {"generating", "emptied", "written", "publishing"}
BeingMade == \E u \in KeyUsers : stage[u] \in Making

KeyInit ==
    /\ privateFile = NoFile
    /\ publicFile = NoFile
    /\ stage = [u \in KeyUsers |-> "out"]
    /\ holding = [u \in KeyUsers |-> Empty]
    /\ generated = {}
    /\ disturbed = FALSE

Reaches(u, s) == stage' = [stage EXCEPT ![u] = s]

-----------------------------------------------------------------------------
(* load_or_create_issuer_key, step by step: exists(), then read_bytes(),   *)
(* which may find the file still empty; or generate(), and the two files.  *)
LookNowhere(u) ==               \* wrong on purpose: a new key at every start
    /\ stage[u] = "out"
    /\ Reaches(u, "generating")
    /\ disturbed' = (disturbed \/ BeingMade)
    /\ UNCHANGED <<privateFile, publicFile, holding, generated>>

LookForKey(u) ==
    /\ stage[u] = "out"
    /\ Reaches(u, IF privateFile = NoFile THEN "generating" ELSE "loading")
    /\ disturbed' = (disturbed \/ BeingMade)
    /\ UNCHANGED <<privateFile, publicFile, holding, generated>>

LoadKey(u) ==
    /\ stage[u] = "loading"
    /\ IF privateFile = Empty
       THEN Reaches(u, "failed") /\ UNCHANGED holding
       ELSE Reaches(u, "ready") /\ holding' = [holding EXCEPT ![u] = privateFile]
    /\ UNCHANGED <<privateFile, publicFile, generated, disturbed>>

GenerateKey(u) ==
    /\ stage[u] = "generating"
    /\ \E k \in Keys \ generated :
          /\ holding' = [holding EXCEPT ![u] = k]
          /\ generated' = generated \cup {k}
    /\ privateFile' = Empty
    /\ Reaches(u, "emptied")
    /\ UNCHANGED <<publicFile, disturbed>>

WritePrivate(u) ==
    /\ stage[u] = "emptied"
    /\ privateFile' = holding[u]
    /\ Reaches(u, "written")
    /\ UNCHANGED <<publicFile, holding, generated, disturbed>>

EmptyPublic(u) ==
    /\ stage[u] = "written"
    /\ publicFile' = Empty
    /\ Reaches(u, "publishing")
    /\ UNCHANGED <<privateFile, holding, generated, disturbed>>

WritePublic(u) ==
    /\ stage[u] = "publishing"
    /\ publicFile' = holding[u]
    /\ Reaches(u, "ready")
    /\ UNCHANGED <<privateFile, holding, generated, disturbed>>

Starting(u) ==
    LookForKey(u) \/ LoadKey(u) \/ GenerateKey(u) \/ WritePrivate(u) \/ EmptyPublic(u)
    \/ WritePublic(u)

(* A user ends, by its own will, an exception or a crash.                  *)
Ends(u) ==
    /\ Reaches(u, "out")
    /\ holding' = [holding EXCEPT ![u] = Empty]
    /\ disturbed' = (disturbed \/ stage[u] \in Making)
    /\ UNCHANGED <<privateFile, publicFile, generated>>

-----------------------------------------------------------------------------
(* load_trusted_public_key: a missing file and an empty one raise.         *)
Resolves == publicFile \notin {NoFile, Empty}

(* Unless the making of a key was disturbed there is one key pair for good:*)
(* nobody fails to load it, and what anybody signs is verified by whoever  *)
(* resolves its key id (config.py:3-9, 47-60).                             *)
OneKeyPair ==
    ~disturbed =>
        \A u \in KeyUsers :
            /\ stage[u] # "failed"
            /\ stage[u] = "ready" => publicFile = holding[u] /\ privateFile = holding[u]
=============================================================================
