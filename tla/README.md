# Covenant in TLA+

Models of Covenant (`src/src/covenant/`), an MCP proxy that lets an agent call a
target server's tools only under a signed capability a human approved: what its
parts do, what TLC checks of them on small instances, and what TLAPS proves of
them for every instance. Paths such as `broker.py:97` are relative to
`src/src/covenant/`.

## 1. Inventory

| Component | State it keeps | Operations | Talks to |
|---|---|---|---|
| Policy (`policy.py`) | none; a `TaskPolicy` value | `match_arguments`, `TaskPolicy.tools`, `.argument_constraints`, `validate_against_tools_list`, loading JSON/YAML | called by broker and proxy |
| Capability (`capability.py`) | none; signed tokens | `sign_capability`, `verify_signature`, `attenuate`, token encoding | issuer, broker |
| Issuer (`issuer.py`) | its key, its log | `mint` | audit log, capability |
| Broker (`broker.py`) | quota counters per grant id, the clock | `authorize` | keystore, policy, quota store |
| Audit log (`audit.py`) | a JSONL file, a copy of it in memory | load, `append`, `verify_chain`, `export` | shared file between processes |
| Proxy (`proxy.py`) | the active grant, the connection to the target | `run` and its command line, `_establish_grant`, `_on_list_tools`, `_on_call_tool` | everything above, client, target |
| Consent (`consent.py`) | during a request: event, decision, server and threads | terminal, scripted and web `request_consent` | proxy, a human |
| Merkle receipts (`merkle.py`) | none in memory; head and receipt files | tree, inclusion proofs, signed heads, `covenant-verify` | audit log |
| Keystore, configuration (`config.py`) | key files | generate, load, resolve `key_id` | issuer, broker |
| Demo (`src/demo/`) | the mail server's draft and sent mail; where a script is | scripted client, policy client, synthetic mail server | proxy |
| Forgery demonstration, extension bundle, packaging | - | drive or ship the above | - |

**How they interact.** `CovenantProxy.run` starts the target as a subprocess,
lists its tools, checks the policy against them, asks for consent and mints a
capability (`proxy.py:77-133`). Each `tools/call` is then judged by
`Broker.authorize`, logged, and refused or forwarded (`proxy.py:135-169`). The
broker's counter, the log's entry and the forwarded call are three effects of
one handler, and any of them may be the last one that happens. The log file is
the only state that outlives a process, and several processes may hold it open.

**What is hard here.**

- *Order and partial failure in the handler*: the quota is consumed before the
  decision is logged, which precedes forwarding; an exception at any point ends it.
- *Concurrent calls*: the handler's one await is the forwarding, so several
  calls wait at the target while others are decided, the grant expires, a client
  cancels, the target dies, or the process ends.
- *Restarts*: grant and counters are in memory, the log and calls already in the
  target's pipe are not.
- *A file with several writers*, each with its own idea of the last entry; a
  write that fails or is cut short.
- *Threads in web consent*: the caller's timeout races the handler, the helper
  thread that stops the server, and connections that stay silent.
- *Chains of attenuation*: each link is compared with its direct parent only.
- *Two key files*, made by whichever process starts first, read by all others.
- *One command line for two programs*: the proxy looks for its options among the
  target's words too.
- *The wall clock*, which may be set back.

**What makes each part right.** Broker: a call is allowed only under a claim the
issuer signed, in its window, for its audience, tools and rules, and at most
`quota` times. Attenuation: a descendant is allowed nothing its ancestors do not
permit. Audit log: the file only grows, its chain and numbering are intact, an
edit is noticed once another line follows it, nothing recorded is lost silently.
Proxy: the target executes only what was admitted within an approved scope, the
log explains every decision, every caller is answered. Web consent: an approval is
a human's and in time, an answer that was given stands, the caller returns and the
server stops; whichever surface is asked, nothing that is withheld by default is
let through without a yes by name. Keystore: one key pair, whoever starts first.
Launch: an unambiguous command line is understood as written. Receipts: one checks
out against its own entry, for ever, and against no other. Demo: what the scripts
are there to show, always.

## 2. Modules

| Module | Models | Built on |
|---|---|---|
| `Policy` | rule evaluation and task policies | - |
| `Capability` | signed claims, `attenuate` | `Policy` |
| `Broker` | `authorize` and the quota counter | `Capability` |
| `Delegation` | issuer, holders who attenuate, a broker that is shown any token | `Broker` |
| `Consent` | what each consent surface may decide, and which one is chosen | - |
| `Launch` | `run()`'s command line, policy files, and what they settle | `Policy`, `Consent` |
| `Mediation` | the abstract promise of the proxy | - |
| `Proxy` | `CovenantProxy`, its client and its target; implements `Mediation` | `Broker`, `Launch` |
| `Demo` | the demo's clients and mail server around a proxy | `Proxy` |
| `AuditLog` | `AuditLog` with several processes on one file | - |
| `Merkle` | the tree over the entries, inclusion proofs and their folding | - |
| `Keystore` | the key files and those who create or load them | - |
| `Receipts` | `covenant-verify`: a receipt made, kept, and checked later | `AuditLog`, `Merkle`, `Keystore` |
| `WebConsent` | `WebConsentProvider.request_consent` and its threads | `Consent` |
| `BrokerProofs` | lemmas on what a verdict of `authorize` says | `Broker` |
| `DelegationProofs`, `AuditLogProofs`, `WebConsentProofs` | theorems of the module in the name | the module, `BrokerProofs` for the first |
| `ProxyProofs`, `ProxyRefinement` | theorems of `Proxy`; that it implements `Mediation` | `Proxy`, `BrokerProofs` |
| `ReceiptsProofs` | theorems of `Keystore`, `Merkle` and `Receipts` | `Receipts`, `AuditLogProofs` |
| `DemoProofs` | theorems of `Demo` and of the command line | `Demo`, `ProxyProofs` |
| `MC...` | instances for TLC | one module each |

### Policy, Capability, Broker

Pure operators, apart from the broker's clock `now` and counters `quotaUsed`.
`MatchArguments` returns `"pass"`, `"fail"` or `"raise"`: rules are tried in order
and the first one that does not hold decides; an unknown operator is a
`ValueError`, and a value its operator cannot be applied to (`Malformed`) a
`TypeError` or `re.error` (`policy.py:52-90`). `Verdict` is `authorize` with its
checks in the code's order (key, signature, window, audience, scope, rules, quota)
and `Authorize` adds the counter's increment, which happens on ALLOW only
(`broker.py:63-103`). A token is a claim with the key that signed it; Ed25519 is
modelled by what it gives, a signature that verifies under one key only.
`AttenuateRefuses` and `Attenuated` are `attenuate`: what raises
`AttenuationError`, and the claim that is signed otherwise.

### Delegation

`Mint` signs a root claim under a fresh grant id; `Attenuate` derives a claim from
any token already signed, with any of the requested narrowings, which include
requests for more than the parent has, an inherited or an explicit set of
rules, and a grant id that is already in use; `Call` presents a token from
`Presentable`: as issued, with an edited claim or key id, or signed again by a
foreign key. `spent` (uses per claim) and `lineage` (claim to ancestor) are
history variables. `attenuate` itself does not check whose key the parent was
signed with, and is given tokens of the issuer, as its callers do. `Tick` sets
the clock to any time, earlier ones included: an expired capability may come
back into force, and quota, authorship and ancestry must hold none the less.

### Consent and Launch

`Consent` gives, for each provider, every decision it may come to for a request:
the scripted one, the policy's own under `--auto`, the terminal dialogue question
by question with its defaults, and the form with the boxes that come ticked
(`_DEFAULT_APPROVE`). Human input ranges over yes, no and Enter for a tool, and
over `TtlAnswers` and `QuotaAnswers` for the numbers, which may be left out or
unreadable; a terminal that is gone raises. `affirmed` records the withheld tools
a human said yes to by name.

`Launch` is `run()` up to the proxy it makes: options are searched for one after
another among *all* words, the first occurrence of each is deleted with its
value (`proxy.py:215-243`), a missing or bad number and a policy that does not
load end it. What is left is the target's command, words before it that belong to
no option included. `ParsePolicy` is `_parse_policy_dict`, which checks the presence of
keys and two numbers only, so misspelt operators and repeated tools get through.

### Proxy and Mediation

`phase` follows `run()`: `Start` launches with `command` and leaves in `launched`
what `Launch` makes of it; `RequestConsent` and `EstablishGrant` are the two
halves of `_establish_grant`, with the human between them. `EstablishGrant` acts
on any outcome of the provider: `ConsentRaises`, `Deny`, or `Grant`, which mints,
records and activates, or whose append raises (`MintFails`), so that the start
fails. `OnCallTool` is the whole of `_on_call_tool` up to its only await: the
event loop is single-threaded, so nothing comes between its effects, but any may
fail. `Execute`, `Answer`, `TargetDies` and `Cancel` are the external target,
transport and client; `Stop` ends the process, and `Start` may launch it again.
`AuditLog.append` appears as its outcome: recorded, or raised, and then the entry
may be in the log all the same (of a grant that never came into force, too). Under
`--auto` a policy is approved as it stands, one that grants no tool included. A
policy whose audience is not the proxy's is refused as in the code, though no
command line leads there: `run()` takes the audience from the policy.

`Mediation` says what all this is for, with nothing of how: approve a scope,
revoke it, admit a call within the scope in force and below its quota, execute an
admitted call. It knows no policy either: whether arguments meet a scope's rules
is its constant `Meets`, for which `Proxy` gives `RulesHold`. `Proxy` implements
it under the refinement mapping `Promise`: the active scope is that of the active
grant (an approval may also come to nothing, when the process fails to record it)
and a request is admitted when *the log* says so, so a proxy that forwarded what
it had not logged, or logged what it should not have allowed, would not implement
it. Approved scopes are the human's decision, recorded apart from the capability
that is minted from it.

### Demo

The scripted client reads, drafts, tries to send, sleeps until its capability has
expired and tries again; the policy client reads, drafts, and sends two bodies of
which its policy allows one. Each makes a call when the one before has come
back, and ends on an error. A third client calls and cancels as it likes, under
command lines of every shape. `Serve` is the target's `Execute` with what the mail
server does; a new server starts with no draft and nothing sent.

### AuditLog

An append is two steps, memory first and file second (`audit.py:117-120`), since
other processes, or the death of this one, come between. A line of the file is a
piece: an entry that parses, or not, and whether a newline ends it; a write to a
file whose last line was not ended runs into it. SHA-256 is taken to be
injective: an entry stands for its digest, so `prev_hash` holds the previous
entry. `Open` is the constructor, which fails on a line that does not parse.
`Edit` is somebody who rewrites one well-formed line. `EditNoticed` says exactly
when that shows: the chain is broken once another line follows the edited one,
except, for ever, if a process was started while the edited line was the last;
the constructor does not verify what it loads, and the next entry chains to the
edit. `adopted` records that this happened.

### Merkle, Keystore and Receipts

A hash is the term it was computed from. `Built` is the loop of `MerkleTree`'s
constructor, level by level, `Height` where it ends and `Levels` what it leaves;
`Places` is the index `inclusion_proof` halves on its way up. `InclusionProof` and
`FoldProof` are written from the code separately, one from the levels and one
from the leaf, and nothing in the model ties them together but `ReceiptsAgree`.

`Keystore` takes `load_or_create_issuer_key` apart into `exists`, `read_bytes`,
`generate` and the two `write_bytes`, each of which empties its file before it fills
it (`config.py:47-60`). Nothing locks the files, and a user may end at any of
these steps. `disturbed` records that one ended while it was making a key, or that
another looked for the file meanwhile.

In `Receipts` the proxies and `covenant-verify` share the key pair. A proxy opens
its log, then gets its key, then appends. `Prove` needs both halves of the key,
loads the log as it is, makes the receipt and saves it; `ChecksOut` is what
`covenant-verify check` answers for a number: the entry as it is *now*, the proof
and head as pinned, the public key as it can be resolved now. `prove` takes the
first entry that carries a number and `check` the last (`merkle.py:178-181, 273`),
which the model keeps.

### WebConsent

The caller, the server thread, the helper threads that call `shutdown()` and the
browser's connections interleave freely. `Accept` to `Signal` are one connection's
handling: `DoPost` stores the decision the submitted form amounts to
(`PostDecision` of `Consent`), `Confirm` writes the page (or raises, the browser
being gone), `Signal` sets the event and starts a helper (`consent.py:303-311`).
`woken` records how many forms had been submitted when the event was first set: a
later one may still replace the decision until the server stops, an earlier one
must not come back (`AnswerStands`). `ServerStops` is what calling `shutdown()`
from a helper thread is for. The timeout may pass at any moment at which the event
is not set. The socket server is external and modelled from its use: one
connection at a time, in order of arrival, read without a timeout.

## 3. Runs

Passing runs, with the distinct states TLC finds:

| Run | States | Checks | Bounds, and why they do |
|---|---|---|---|
| `delegation` | 35,610 | `TypeOK`, `QuotaRespected`, `OnlyIssuedAllowed`, `WithinAncestors` | 3 claims (a root, a child, a grandchild or a sibling), 2 grant ids, so that ids are shared, quotas 0 to 3, times 0 to 2: before, in and after a window, in any order |
| `proxy` | 2,225,084 | `TypeOK`, `LogExplainsItself`, `QuotaMatchesLog`, `NothingWithheldByDefault`, `PromiseKept`, `ApprovalHonoured` | 2 concurrent calls, 2 sessions and grants, 8 command lines (plain, `--auto` with a ttl, a good policy, and under `--auto` one with a misspelt operator, with a pattern that is none, and with no grants; a tool that is not offered, a file that lacks fields), every surface, quotas 0 and 1, failing appends |
| `demo` | 140,514 | `ReplayDiesByExpiry`, `NothingUnapprovedSent`, `LaunchedAsWritten`, `EveryCallSettles`, `ScriptConcludes` | both scripts, and a client with 2 concurrent calls and 11 command lines (all options, one twice, no value, a bad value, another option for a value, no target, option names among the target's words); everything that may fail |
| `receipts` | 734,558 | `TypeOK`, `ChainIntact`, `SeqsCount`, `EditNoticed`, `OneKeyPair`, `ReceiptsAgree` | one proxy and a verifier that start in any order and die anywhere, 2 keys, 5 entries, one edit, one receipt made at any moment; trees of five leaves have two odd levels |
| `audit_faults` | 152,992 | `LossNoticed`, `OnlyGrows` | 2 processes, 2 entries each, failing and torn writes, one edit |
| `web_consent` | 504,734 | `TypeOK`, `ApprovalIsHuman`, `AnswerStands`, `Concludes`, `ServerStops` | 3 connections, two different approvals and a denial |

`MaxTime`, `MaxIssued`, `MaxEntries` and `MaxSessions` are the only bounds that are
not in the code; each stands in the guard of the action it limits. Models stop
when the bounds or the requests are used up, so the runs do not check for
deadlock; the liveness properties ask instead that callers are not left waiting
and scripts conclude. Grant ids are symmetric in `delegation`, requests and grant
ids in `proxy`, payloads and keys in `receipts`: these runs check invariants and
what a single step may do (`PromiseKept` has no liveness part), and none of their
definitions tells the members apart. No run of a liveness property uses symmetry.

`NothingWithheldByDefault` and `ApprovalHonoured` complement `PromiseKept`: the first
says where the authority for a sensitive call comes from, the second that the
proxy withholds nothing it was granted, so that neither a proxy that approves too
much nor one that refuses everything passes. `ReplayDiesByExpiry` says that the
scripted client's last call is refused *because* the grant is over and not for
its scope, with the clock at any time after its sleep.

Runs that end in a counterexample, each a sentence of the repository that the code
does not keep:

| Run | Property | What TLC shows |
|---|---|---|
| `delegation_widen` | `NeverWidens` | `attenuate` bounds the end of a child's window by the parent's but not its start: a child of a claim that is not valid yet may be valid now |
| `proxy_audited` | `EveryCallAudited` | a policy rule with an unknown operator raises inside `authorize`, before the decision is logged; the client gets an error and the log nothing |
| `proxy_rules` | `EveryRuleEnforced` | a policy that lists a tool twice keeps only the rules of its last listing with rules |
| `audit_two_chain` | `ChainIntact` | two processes on one file chain to the same entry |
| `audit_torn` | `AlwaysLoadable` | after a crash within a write no process can load the log again |
| `web_bounded` | `BoundedByTimeout` | one silent connection keeps the server thread reading, and the caller's `shutdown()` waits for it beyond the timeout |

Seen on the way and not given a run of their own: the counters of a claim and of
one derived from it under another grant id are separate, so together they may
exceed the root's quota; a failed write within one process leaves an entry in
memory that the file lacks, and the chain forks there too; a second submission
that arrives before the server stops replaces the first; an edit of the last line
is chained over by a process that starts on it, although `audit.py:4-6` has any
edit to a past line break the chain, which is why `EditNoticed` has its exception
(as an equivalence, so that the run shows it happen); and when two writers
have given one number to two entries, `prove` and `check` mean different ones, so
a log nobody touched fails its receipt.

### Fairness

- `Demo`: weak fairness of `OnCallTool`, `Serve` and `Answer`, of the start-up
  (`Consents`), of an `EstablishGrant` that asks nobody, and of the scripts' own
  next step. The event loop runs a handler that can run; that a living target
  carries out what it was sent and that answers are delivered is assumed of the
  outside. Nothing else is fair: a human may never answer, and the process, the
  target and the free client may stop or not, as they like.
- `WebConsent`: weak fairness of the server thread, the helpers and the caller,
  which the operating system schedules (`ThreadFairness`). The caller's includes
  its timeout: time passes. `BrowserFairness`, that no connection stays open and
  silent for ever, is what `Concludes` needs and `BoundedByTimeout` lacks; the
  difference between them is the finding.

### Sensitivity

Operators marked *wrong on purpose* (`QuotaLeftOffByOne`, `VerifyAnyKey`,
`ReturnLate`, ...) are bugs the code might have had. Put in the place of the
definition that follows each, they make a run fail: every property of every
passing run is violated by at least one.

## 4. Proofs

Every invariant, action property and refinement that a passing run checks is
also a theorem, for every value of the constants the named assumptions admit;
what is left to TLC are the four liveness properties.

**`DelegationProofs`**, for every keystore, set of tools, requests and arguments:

- `TypeCorrect`: `TypeOK`, which is inductive.
- `Authenticity`: `OnlyIssuedAllowed`. It needs `Genuine`: a claim in a presentable
  token that verifies under the issuer's key was issued, because the only
  signatures of that key are those of `Mint` and `Attenuate`.
- `QuotaSafety`: `QuotaRespected`. Counters are per grant id while quotas are per
  claim, and claims of different quotas may share a grant id; the invariant
  therefore says that no claim was used more often than its id was counted
  (`SpentCounted`), and `Genuine` is what makes an allowed claim an issued one.
- `DelegationNarrows`: `WithinAncestors`. `AttenuationNarrows` says that one step
  yields a claim `Narrower` than its parent in audience, tools, expiry, quota and
  rules; the relation is transitive; the invariant `LineageInv` says that every
  pair of `lineage` is in it.

No proof there uses that the clock advances.

**`ProxyProofs`**, for any requests, grants, launches, command lines, policies and
tools. The properties of the run are not inductive one by one, since each effect of
the handler is justified by another. One invariant, `Inv`, has them all:

- `Shaped`, `Started`: the variables' types, and how far a launch has come.
- `LogTyped`, `LogJudged`: what an entry may look like; every request is decided
  once, after it was sent, and an allowed one asked for something that the scope
  approved under its grant covers. Without "once" the log could admit a request
  twice, and the refinement below would not know under which grant.
- `OnlyAdmitted`: what is in the target's pipe or was executed is allowed in the log.
- `ApprovedTyped`: scopes have numbers for their bounds, and a withheld tool only
  with a yes by name. It comes from `OutcomesFaithful`: whatever surface is asked
  and whatever is typed, ticked or left out, its decision keeps to the request.
- `GrantIsApproved`: the active token is `TokenFor` the scope as approved, and the
  log's last `grant_issued` names it. This is what ties the broker's verdict, which
  reads the token, to the human's decision, which the token was minted from.
- `Counted`: `QuotaMatchesLog`, and an unissued grant id was never counted, so a new
  grant starts from zero.

`TypeCorrect`, `LogExplained`, `QuotaAgreesWithLog` and `WithheldNeedsAYes` follow
from `Inv`; `RefusalsAreDeserved` is the action property `ApprovalHonoured`: in a state
of `Inv`, each way a verdict can refuse (`RefusedMeans` of `BrokerProofs`) contradicts
the call's being within its scope.

**`ProxyRefinement`**: `ProxyKeepsPromise` is `PromiseKept`. An initial state maps to an
initial state (`InitMapped`), and every step to one of `Mediation` or to none:
`GrantMapped` has the minted grant approve the human's scope, `CallMapped` the
handler admit a call when it logs an ALLOW and nothing when it logs anything else,
fails to log, or fails to forward; `UsesCounted` says that the uses the promise
counts are no more than the log's entries, and those no more than the broker's
counter. `AdmittedByEntry` is what makes the mapping well defined.

**`DemoProofs`**, for any words, options, policy files and clients:

- `AsWritten`: `LaunchedAsWritten`. It is about lists of words of any length:
  `InOrder` splits a command line into its options and the target's words, cutting
  out an option and its value leaves such a line of what remains (`CutOut`), and
  so through four cuts each option is found with the value written after it. The
  invariant `Reads` ties what the process does to the line it was given.
- `SentAsApproved`: `NothingUnapprovedSent`. `OfTheScripts` says what the one behind
  each script can have approved, and `Inv` of `ProxyProofs` that only this is executed.
- `ReplayRefused`: `ReplayDiesByExpiry`, where the client launches its proxy once
  (`MaxSessions = 1`, as the script does and the run has it). A proxy launched again
  after the sleep has a fresh grant, under which the replay is refused for its
  scope; with two sessions TLC finds that behaviour. `Replaying` says that the client
  rests until every grant of that launch is over.

**`AuditLogProofs`**:

- For any number of processes, whatever fails, tears or is edited: `LinesAreKept`
  (`OnlyGrows`), `TypeCorrect` and `NoSilentLoss` (`LossNoticed`). The last needs
  `NothingLost`: of a returned entry a line is left *that was ended*, or some line does
  not parse, since a line that was not ended may yet be run together with the
  next. `WellFormed` says what a line can be; entries embed entries, so no set of
  all of them is at hand, and `IsSeq` says of a sequence that it is one over its own
  elements.
- For one process at a time whose writes reach the file whole:
  `SingleWriterChain` (`ChainIntact`), `SingleWriterNumbers` (`SeqsCount`) and
  `EditsAreNoticed` (`EditNoticed`). The next line chains to what its writer
  *remembers*; `OneWriter` adds that memory and file agree, one entry apart while a
  write is pending, before any edit and again after a restart on an edited last
  line, which gives the intact chains of `EditNoticed`; for the broken ones `Traced`
  says that after an edit the writer's memory, or the line that follows, still
  holds the entry as it was. With two writers these are false:
  `audit_two_chain` is the counterexample for the chain.

**`ReceiptsProofs`**:

- `OneKeyPairHolds`: `OneKeyPair`, for any number of proxies and any keys. It is not
  inductive: the invariant says of every stage what the two files hold, and that,
  undisturbed, a user who makes a key is the only one that has started. Its
  hypothesis is needed: without `~disturbed` two users that both find no file leave
  one of them with a key nobody resolves, and one that dies between the files
  leaves no public key at all.
- `ReceiptsKeepTheLog`: every step of `Receipts` is one of `AuditLog`'s or none, so that
  `ReceiptsFindASoundLog` has its theorems for a log receipts are made from.
- `ProofsDecide`: for a log of any length, the inclusion proof of an entry folds to
  the tree's root from that entry and from no other. By induction on the levels:
  each has half the nodes of the one below, rounded up, so there is one of a single
  node (`RootIsAlone`); the place halves with them (`PlacesExist`); and one step of a
  proof yields the parent's node exactly from the node's own value (`StepUp`), where
  the last node of an odd level is its own sibling.
- `ReceiptsBind`: for any number of writers, whatever entry a receipt checks out
  against is the one it was made for. `ReceiptStands` says that a receipt was made
  from some log, the file as it was, and that, undisturbed, nobody makes another key
  any more.
- `ReceiptsDecide`: `ReceiptsAgree`, which also says that it does check out against that
  entry; for one proxy, since the log's numbers must be those of its lines.

Induction over levels and over the steps of a fold is done with the smallest
counterexample (`LeastNumber`, from the library's `WFMin`), since the library's
induction theorems cannot be instantiated; `LevelsBuilt`, `PlacesHalved` and
`StepByStep` say that the recursive functions, and the fold, are what their
equations say.

**`WebConsentProofs`**, for any number of connections, any forms and any
interleaving of the threads: `TypeCorrect`, `ApprovalsAreHuman`
(`ApprovalIsHuman`) and `AnswersStand` (`AnswerStands`). `HolderIsLast` says that
the decision in the holder is the last of those submitted and is there before the
event is set, `WokenByOne` that one of them set it, `ResultIsOneOfThem` that what
was returned is that one or a later one if the event was seen, and a denial if
not.

**Assumptions.** All are named `ASSUME`s, which TLC evaluates on every run: the issuer's
key is the one its key id resolves to and no trusted key is a foreign one
(`KeystoreAssumption` of `Delegation`, `ProxyAssumption`); requested quotas and
times, numerals, defaults and typed answers that read as numbers are integers
(`RequestAssumption`, `LaunchAssumption`, `AnswersAssumption`), as `int()` and the
parser make them; the four option names differ and command lines are lists
(`LaunchAssumption`); values that stand for nothing are no values (`NobodyAssumption`,
`NoPolicyAssumption`, `WebConsentAssumption`, `KeystoreAssumption` of `Keystore`); forms
are ones the page allows (`WebConsentAssumption`); requests are finitely many; the
verifier is no proxy (`ReceiptsAssumption`); and `Demo` is told what its scripts and
example policy say (`DemoAssumption`, `MailAssumption`, `WordsAssumption`,
`ExampleAssumption`): which tool is withheld, that the words written in the scripts
are no option names, and the rule the example policy has for the body of a reply.

**Only model-checked**: `EveryCallSettles`, `ScriptConcludes`, `Concludes` and
`ServerStops`, which rest on fairness and so on `ENABLED`, which the prover does
not reason about; and the counterexamples, which are TLC's by nature.

## 5. Abstractions and what is left out

- Cryptography and encodings are injective: a signature verifies under one key, a
  digest stands for what was hashed, a token parses to what was serialized.
- Values of arguments are model values: `in` and `not_in` compare with the members
  of a set, and the substring meaning they have on a policy value that is itself
  a string is not modelled. The order of tools, nonces and subjects are left out;
  no decision depends on them.
- The clock may be set back in `Delegation`; in `Proxy` it only advances, since
  there it is the approved window that a decision is compared with.
- Words of a command line are model values, and a policy file is the object JSON or
  YAML makes of it: `Number` and `PolicyFile` say what words and paths stand for.
- Not modelled: `_on_list_tools`, which passes the list through and changes no
  state; printing and page layout; the forgery demonstration
  (`demo/attacker_mode.py`), three fixed sequences of mint and authorize of which
  `Delegation` covers every sequence; the desktop extension bundle, a staged copy of
  the package at an earlier revision, without policies; packaging, container and
  launch files, which have no state of their own.

## 6. Plan

Done: policy, capability, broker and delegation first, because every decision is
theirs; then the proxy against its abstract promise; the log and web consent,
where the concurrency is; receipts over the log; the key files, the consent
surfaces and the command line; the demo around it all; the proofs of section 4,
which reach every safety property of the runs.

Next, in this order:

1. Proofs: what of the chain is left where several processes write.
2. Proofs: the safety half of the liveness properties, that a call which has not
   settled always has a step of its own left to take.
3. `Proxy` composed with `AuditLog` in place of the append's outcome: what a restart
   reads back.
