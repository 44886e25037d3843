------------------------------- MODULE Config -------------------------------
(***************************************************************************)
(* How the configuration of either end comes about (config.cpp,             *)
(* parse_client_config and parse_server_config): defaults, environment,     *)
(* command line and JSON file are applied in this order, then the mode      *)
(* preset, the sanitizing and the validation, and any step may reject the   *)
(* whole.                                                                   *)
(*                                                                         *)
(* Nine options stand for all: key (has an environment variable), mode and  *)
(* interval (a preset overwrites the latter), datashard (has an alias) and  *)
(* parityshard (limited together), ratelimit (sanitized), nocomp (needs no  *)
(* value), conn (the client has it, the server does not) and local, the     *)
(* address to listen on (localaddr on the client, listen on the server, l   *)
(* for both on the command line alone).                                     *)
(***************************************************************************)
EXTENDS Integers, Sequences

CONSTANTS
    CommandLines,   \* sequences of arguments, see Scan
    Files,          \* JSON files: functions from member names to values
    Defaults,       \* the initial values of BaseConfig and of an end's own
    Preset, Manual, \* the modes: a preset, and manual
    EnvKey,         \* the value of SHIMAKAZE_KEY
    Bad,            \* a text that is neither an integer nor a boolean
    None,           \* no flag, or no value
    PresetInterval, \* the interval of the mode that is not manual
    ShardLimit,     \* 256 in the code
    IntMax          \* 2^31 - 1 in the code

TextOptions == {"key", "mode", "local"}
BoolOptions == {"nocomp"}
Common == {"key", "mode", "interval", "datashard", "parityshard", "ratelimit", "nocomp"}
Options == Common \cup {"conn", "local"}

ASSUME ConfigAssumption ==
    /\ IntMax \in Nat /\ ShardLimit \in 0..IntMax /\ PresetInterval \in Nat \ {0}
    /\ DOMAIN Defaults = Options /\ Defaults["mode"] \in {Preset, Manual}

VARIABLES
    end,        \* "client" or "server", whose parser it is
    step,       \* the function that runs next, "accepted", "rejected", "help" or "version"
    envKey,     \* is SHIMAKAZE_KEY set?
    args,       \* the arguments not scanned yet
    cli,        \* CliScan::values
    path,       \* has a configuration file been named?
    json,       \* its members
    config      \* the options so far

vars == <<end, step, envKey, args, cli, path, json, config>>

\* normalize_key and the aliases of assign_common: the option a name means.
NameOf(name) ==
    CASE name \in {"datashard", "ds"} -> "datashard"
      [] name \in {"conn", "Conn"} -> "conn"
      [] name \in {"localaddr", "listen", "l"} -> "local"
      [] OTHER -> name

\* The names of options of one end alone, as apply_cli_common and
\* apply_json_common skip them: the short ones are for the command line.
CliSkipped == {"conn", "localaddr", "listen", "l"}
JsonSkipped == {"conn", "Conn", "localaddr", "listen"}

\* int + int.  Overflow is undefined; the builds wrap.
Plus(a, b) == ((a + b + IntMax + 1) % (2 * (IntMax + 1))) - (IntMax + 1)

Reject == step' = "rejected" /\ UNCHANGED <<end, envKey, args, cli, path, json, config>>

Continue(next, new) ==
    /\ step' = next
    /\ config' \in new
    /\ UNCHANGED <<end, envKey, args, cli, path>>

\* assign_common and the handlers of one end's options throw at a name that no
\* option has and at a value that is no value of the option.
Wrong(source, names, skipped) ==
    \/ \E n \in DOMAIN source \ skipped : NameOf(n) \notin Common
    \/ \E n \in names : source[n] = Bad /\ NameOf(n) \notin TextOptions

\* The configurations that assigning the named members of `source` can give.
\* Where two names mean one option the last one wins, and the order is that of
\* an unordered_map or of the file, so any set of winners is possible.
Assigned(source, names) ==
    LET meant(o, among) == {n \in among : NameOf(n) = o}
        winners == {w \in SUBSET names :
                       \A n \in names : \E v \in w : meant(NameOf(n), w) = {v}}
    IN  {[o \in Options |-> IF meant(o, w) = {} THEN config[o]
                            ELSE source[CHOOSE n \in w : NameOf(n) = o]] : w \in winners}

\* apply_env.
ApplyEnv ==
    /\ step = "env"
    /\ Continue("scan", {IF envKey THEN [config EXCEPT !["key"] = EnvKey] ELSE config})
    /\ UNCHANGED json

-----------------------------------------------------------------------------
(* scan_args.  An argument is a record: the flag it names, normalized (None *)
(* for one without a dash), its value after "=" (None without), and what it *)
(* is as the value of another flag.                                         *)

\* Scanning goes on after n arguments, the flag having this value.
Take(n, flag, value) ==
    /\ args' = SubSeq(args, n + 1, Len(args))
    /\ IF flag = "c" THEN path' = TRUE /\ UNCHANGED cli
       ELSE /\ cli' = [name \in DOMAIN cli \cup {flag} |-> IF name = flag THEN value ELSE cli[name]]
            /\ UNCHANGED path
    /\ UNCHANGED <<end, step, envKey, json, config>>

Scan ==
    LET arg == Head(args)
    IN  /\ step = "scan"
        /\ \/ args = <<>> /\ Continue("cli", {config}) /\ UNCHANGED json
           \/ /\ args # <<>> /\ arg.flag \in {"help", "version"} /\ arg.value = None
              /\ Continue(arg.flag, {config}) /\ UNCHANGED json
           \/ args # <<>> /\ arg.flag = None /\ Reject
           \/ /\ args # <<>> /\ arg.flag \notin {None, "help", "version"}
              /\ \/ arg.value # None /\ Take(1, arg.flag, arg.value)
                 \/ arg.value = None /\ arg.flag \in BoolOptions /\ Take(1, arg.flag, TRUE)
                 \/ /\ arg.value = None /\ arg.flag \notin BoolOptions
                    /\ IF Len(args) = 1 THEN Reject ELSE Take(2, arg.flag, args[2].text)

-----------------------------------------------------------------------------
\* What apply_client_cli and apply_server_cli take; they leave the flags of the
\* other end alone.
EndFlags == IF end = "client" THEN {"conn", "localaddr", "l"} ELSE {"listen", "l"}

\* Mutation: the command line does not replace a key from the environment.
CliNamesWithoutKey ==
    {n \in DOMAIN cli \ (IF envKey THEN {"key"} ELSE {}) : n \notin CliSkipped \/ n \in EndFlags}

CliNames == {n \in DOMAIN cli : n \notin CliSkipped \/ n \in EndFlags}

\* apply_client_cli and apply_server_cli, with apply_cli_common.
ApplyCli ==
    /\ step = "cli"
    /\ \/ Wrong(cli, CliNames, CliSkipped) /\ Reject
       \/ /\ ~Wrong(cli, CliNames, CliSkipped)
          /\ Continue(IF path THEN "json" ELSE "mode", Assigned(cli, CliNames)) /\ UNCHANGED json

\* apply_json_common takes every member but the options of one end alone, in
\* any spelling; load_json looks those up by their exact names.
EndMembers == IF end = "client" THEN {"conn", "localaddr"} ELSE {"listen"}

JsonNames(file) == {n \in DOMAIN file : n \notin JsonSkipped \/ n \in EndMembers}

\* The file may be missing or no JSON.
LoadJson ==
    /\ step = "json"
    /\ \/ Reject
       \/ \E file \in Files :
             /\ ~Wrong(file, JsonNames(file), JsonSkipped)
             /\ Continue("mode", Assigned(file, JsonNames(file))) /\ json' = file

AppliedMode(c) == IF c["mode"] = Preset THEN [c EXCEPT !["interval"] = PresetInterval] ELSE c

ApplyMode ==
    /\ step = "mode"
    /\ Continue("sanitize", {AppliedMode(config)}) /\ UNCHANGED json

Sanitized(c) == IF c["ratelimit"] < 0 THEN [c EXCEPT !["ratelimit"] = 0] ELSE c

Sanitize ==
    /\ step = "sanitize"
    /\ Continue("validate", {Sanitized(config)}) /\ UNCHANGED json

\* validate_common_config and, on the client, the check of conn.
Valid(c) ==
    /\ c["interval"] > 0
    /\ c["datashard"] >= 0 /\ c["parityshard"] >= 0
    /\ Plus(c["datashard"], c["parityshard"]) <= ShardLimit
    /\ end = "client" => c["conn"] > 0

Validate ==
    /\ step = "validate"
    /\ \/ Valid(config) /\ Continue("accepted", {config}) /\ UNCHANGED json
       \/ ~Valid(config) /\ Reject

Init ==
    /\ end \in {"client", "server"} /\ step = "env" /\ envKey \in BOOLEAN
    /\ args \in CommandLines
    /\ cli = <<>> /\ path = FALSE /\ json = <<>>
    /\ config = Defaults

Next == ApplyEnv \/ Scan \/ ApplyCli \/ LoadJson \/ ApplyMode \/ Sanitize \/ Validate

Spec == Init /\ [][Next]_vars

-----------------------------------------------------------------------------
\* What a source says of option o to this end.
GivenBy(source, o) ==
    LET foreign == IF end = "client" THEN {"listen"} ELSE {"localaddr", "conn", "Conn"}
    IN  {source[n] : n \in {m \in DOMAIN source \ foreign : NameOf(m) = o}}

\* What the strongest source says.
Effective(o) ==
    IF GivenBy(json, o) # {} THEN GivenBy(json, o)
    ELSE IF GivenBy(cli, o) # {} THEN GivenBy(cli, o)
    ELSE IF o = "key" /\ envKey THEN {EnvKey}
    ELSE {Defaults[o]}

(* An accepted configuration has for every option but conn the value of the *)
(* strongest source that gives this end one, JSON file, command line,       *)
(* environment, default, except that a mode preset fixes the interval and a *)
(* negative rate limit means none; a name that means nothing to either end  *)
(* is in no accepted source.                                                *)
Precedence ==
    step = "accepted" =>
        /\ \A o \in Options \ {"conn", "interval", "ratelimit"} : config[o] \in Effective(o)
        /\ config["interval"] \in IF config["mode"] = Preset THEN {PresetInterval} ELSE Effective("interval")
        /\ \E limit \in Effective("ratelimit") : config["ratelimit"] = IF limit < 0 THEN 0 ELSE limit
        /\ \A n \in DOMAIN cli \cup DOMAIN json : NameOf(n) \in Options

(* An option that both the JSON file and the command line give has the      *)
(* value of the JSON file, in whatever spelling the file names it.          *)
JsonOverrides ==
    step = "accepted" =>
        \A o \in Options \ {"interval"} :
            GivenBy(json, o) # {} /\ GivenBy(cli, o) # {} => config[o] \in GivenBy(json, o)
=============================================================================
