------------------------------- MODULE Launch -------------------------------
(***************************************************************************)
(* How covenant-proxy is started (src/covenant/proxy.py, run): its command *)
(* line, the policy file that may name (src/covenant/policy.py), and what  *)
(* the two settle before any target is launched.                           *)
(*                                                                         *)
(* A command is given as the proxy's own options followed by the words of  *)
(* the target's command line; run() sees only their concatenation. Words   *)
(* are model values: Number says which of them int() reads, PolicyFile     *)
(* what JSON object a path leads to.                                       *)
(***************************************************************************)
EXTENDS Policy, Consent

CONSTANTS
    AutoOption, TtlOption, WebTimeoutOption, PolicyOption,
    Number,         \* a function from numerals to integers
    PolicyFile,     \* a function from readable paths to parsed objects
    Commands,       \* the command lines a behaviour may start with
    NoPolicy,
    DefaultTtl, DefaultQuota,
    DefaultAudience

ASSUME LaunchAssumption ==
    /\ Number \in [DOMAIN Number -> Int]
    /\ DefaultTtl \in Int /\ DefaultQuota \in Int
    /\ AutoOption \notin {TtlOption, WebTimeoutOption, PolicyOption}
    /\ TtlOption \notin {WebTimeoutOption, PolicyOption}
    /\ WebTimeoutOption # PolicyOption
    /\ \A c \in Commands : /\ c.options \in Seq(Range(c.options))
                            /\ c.target \in Seq(Range(c.target))

OptionNames == {AutoOption, TtlOption, WebTimeoutOption, PolicyOption}

-----------------------------------------------------------------------------
(* _parse_policy_dict. Nothing but the presence of keys is checked, and    *)
(* that the two numbers are numbers: not the operators, nor repetitions.   *)
RequiredFields == {"subject", "audience", "ttl_seconds", "quota", "grants"}

RawRules(grant) == IF "arguments" \in DOMAIN grant THEN grant["arguments"] ELSE << >>

WellFormedRule(rule) == {"field", "operator", "value"} \subseteq DOMAIN rule

WellFormed(data) ==
    /\ RequiredFields \subseteq DOMAIN data
    /\ {data["ttl_seconds"], data["quota"]} \subseteq DOMAIN Number
    /\ \A i \in DOMAIN data["grants"] :
          /\ "tool" \in DOMAIN data["grants"][i]
          /\ \A j \in DOMAIN RawRules(data["grants"][i]) :
                WellFormedRule(RawRules(data["grants"][i])[j])

ParsePolicy(data) ==
    [audience    |-> data["audience"],
     ttl_seconds |-> Number[data["ttl_seconds"]],
     quota       |-> Number[data["quota"]],
     grants      |-> [i \in DOMAIN data["grants"] |->
                        [tool      |-> data["grants"][i]["tool"],
                         arguments |-> RawRules(data["grants"][i])]]]

(* load_task_policy: no such file, no JSON, YAML without PyYAML and an     *)
(* object that is not well-formed all raise.                               *)
Loads(path) == IF path \in DOMAIN PolicyFile THEN WellFormed(PolicyFile[path]) ELSE FALSE

LoadTaskPolicy(path) == ParsePolicy(PolicyFile[path])

ASSUME NoPolicyAssumption ==
    \A path \in DOMAIN PolicyFile : Loads(path) => LoadTaskPolicy(path) # NoPolicy

-----------------------------------------------------------------------------
(* run() looks for each option among all the words, the target's included, *)
(* takes the first, and deletes it with its value before the next search.  *)
Position(words, option) == SelectInSeq(words, LAMBDA w : w = option)

ValueOf(words, option) ==
    LET i == Position(words, option) + 1
    IN  IF i \in DOMAIN words THEN words[i] ELSE Missing

(* Wrong on purpose: deletes the option and leaves its value.              *)
WithoutName(words, option, count) ==
    IF Contains(words, option) THEN RemoveAt(words, Position(words, option)) ELSE words

Without(words, option, count) ==
    LET p == Position(words, option)
    IN  IF p = 0 THEN words
        ELSE SubSeq(words, 1, p - 1) \o SubSeq(words, p + count, Len(words))

(* The words left for each of the searches.                                *)
AfterAuto(words)    == Without(words, AutoOption, 1)
AfterTtl(words)     == Without(AfterAuto(words), TtlOption, 2)
AfterTimeout(words) == Without(AfterTtl(words), WebTimeoutOption, 2)
AfterPolicy(words)  == Without(AfterTimeout(words), PolicyOption, 2)

BadNumber(words, option) ==
    Contains(words, option) /\ ValueOf(words, option) \notin DOMAIN Number

(* An exception, or the usage message: no proxy is made.                   *)
Refused(words) ==
    \/ BadNumber(AfterAuto(words), TtlOption)
    \/ BadNumber(AfterTtl(words), WebTimeoutOption)
    \/ /\ Contains(AfterTimeout(words), PolicyOption)
       /\ ~Loads(ValueOf(AfterTimeout(words), PolicyOption))
    \/ AfterPolicy(words) = << >>

ParsedCommand(words) ==
    LET task == IF Contains(AfterTimeout(words), PolicyOption)
                THEN LoadTaskPolicy(ValueOf(AfterTimeout(words), PolicyOption))
                ELSE NoPolicy
    IN  [auto        |-> Contains(words, AutoOption),
         ttl_seconds |-> IF Contains(AfterAuto(words), TtlOption)
                         THEN Number[ValueOf(AfterAuto(words), TtlOption)] ELSE DefaultTtl,
         policy      |-> task,
         audience    |-> IF task = NoPolicy THEN DefaultAudience ELSE task.audience,
         target      |-> AfterPolicy(words)]

(* What becomes of each command line that gets past run().                 *)
Words(command) == command.options \o command.target

Parsed == [c \in {d \in Commands : ~Refused(Words(d))} |-> ParsedCommand(Words(c))]

ProviderAsking(parsed, console) ==  \* wrong on purpose: --auto is dropped
    SelectConsentProvider(FALSE, console)

(* --auto with a policy approves what the policy asks for.                 *)
ProviderFor(parsed, console) ==
    IF parsed.auto /\ parsed.policy # NoPolicy
    THEN "requested"
    ELSE SelectConsentProvider(parsed.auto, console)
=============================================================================
