---------------------------- MODULE ConfigProofs ----------------------------
(***************************************************************************)
(* Proofs about the parsing of a configuration (Config.tla), for every set  *)
(* of command lines and files, and about the ports of the addresses in it   *)
(* (Ports.tla, the instance Address), for every set of addresses.           *)
(***************************************************************************)
EXTENDS MCConfig, TLAPS

-----------------------------------------------------------------------------
(* Precedence.  The invariant says for every place in the sequence of       *)
(* functions what the options are worth there.                              *)

\* What the environment leaves, and what the command line leaves of it.
Base(o) == IF o = "key" /\ envKey THEN {EnvKey} ELSE {Defaults[o]}
AfterCli(o) == IF GivenBy(cli, o) # {} THEN GivenBy(cli, o) ELSE Base(o)

Meaningful(source) == \A n \in DOMAIN source : NameOf(n) \in Options

\* The options are those of config, whatever their values.
Shape == DOMAIN config = Options

Before(step1) ==
    CASE step1 = "env" -> config = Defaults /\ json = <<>>
      [] step1 \in {"scan", "cli"} -> json = <<>> /\ \A o \in Options : config[o] \in Base(o)
      [] step1 = "json" ->
            /\ json = <<>> /\ Meaningful(cli)
            /\ \A o \in Options : config[o] \in AfterCli(o)
      [] step1 = "mode" ->
            /\ Meaningful(cli) /\ Meaningful(json)
            /\ \A o \in Options \ {"conn"} : config[o] \in Effective(o)
      [] step1 = "sanitize" ->
            /\ Meaningful(cli) /\ Meaningful(json)
            /\ \A o \in Options \ {"conn", "interval"} : config[o] \in Effective(o)
            /\ config["interval"] \in IF config["mode"] = Preset THEN {PresetInterval}
                                                              ELSE Effective("interval")
      [] step1 \in {"validate", "accepted"} ->
            /\ Meaningful(cli) /\ Meaningful(json)
            /\ \A o \in Options \ {"conn", "interval", "ratelimit"} : config[o] \in Effective(o)
            /\ config["interval"] \in IF config["mode"] = Preset THEN {PresetInterval}
                                                              ELSE Effective("interval")
            /\ \E limit \in Effective("ratelimit") :
                  config["ratelimit"] = IF limit < 0 THEN 0 ELSE limit
      [] OTHER -> TRUE

Steps == {"env", "scan", "cli", "json", "mode", "sanitize", "validate", "accepted",
          "rejected", "help", "version"}

ConfigInv == step \in Steps /\ end \in {"client", "server"} /\ Shape /\ Before(step)

LEMMA NothingGiven == \A o : GivenBy(<<>>, o) = {}
  BY DEF GivenBy

LEMMA NothingMeant == Meaningful(<<>>)
  BY DEF Meaningful

LEMMA AssignedShape ==
    ASSUME NEW source, NEW names, NEW c \in Assigned(source, names)
    PROVE  DOMAIN c = Options
  BY DEF Assigned

\* Assigning named members of a source: an option that one of the names means
\* has the value of such a name, every other option keeps its value.
LEMMA AssignedGives ==
    ASSUME NEW source, NEW names, NEW c \in Assigned(source, names), NEW o \in Options
    PROVE  \/ (\A n \in names : NameOf(n) # o) /\ c[o] = config[o]
           \/ \E n \in names : NameOf(n) = o /\ c[o] = source[n]
  <1> DEFINE Meant(q, among) == {n \in among : NameOf(n) = q}
  <1>1. PICK w \in SUBSET names :
            /\ \A n \in names : \E v \in w : Meant(NameOf(n), w) = {v}
            /\ c = [q \in Options |-> IF Meant(q, w) = {} THEN config[q]
                                      ELSE source[CHOOSE n \in w : NameOf(n) = q]]
    BY Zenon DEF Assigned
  <1>2. CASE Meant(o, w) = {}
    <2>1. \A n \in names : NameOf(n) # o
      BY <1>1, <1>2
    <2>2. QED
      BY <1>1, <1>2, <2>1
  <1>3. CASE Meant(o, w) # {}
    <2>1. PICK n \in w : n = CHOOSE m \in w : NameOf(m) = o
      BY <1>3
    <2>2. n \in names /\ NameOf(n) = o
      BY <1>1, <1>3, <2>1
    <2>3. c[o] = source[n]
      BY <1>1, <1>3, <2>1
    <2>4. QED
      BY <1>1, <2>2, <2>3
  <1>4. QED
    BY <1>2, <1>3

\* The names apply_client_cli and apply_server_cli take are those by which the
\* command line speaks to this end, unless it is rejected.
LEMMA CliNamesGive ==
    ASSUME end \in {"client", "server"}, ~Wrong(cli, CliNames, CliSkipped), NEW o \in Options
    PROVE  GivenBy(cli, o) = {cli[n] : n \in {m \in CliNames : NameOf(m) = o}}
  <1>1. "Conn" \notin DOMAIN cli
    BY DEF Wrong, CliSkipped, NameOf, Common
  <1>2. QED
    BY <1>1 DEF GivenBy, CliNames, CliSkipped, EndFlags

\* The same for a file and every option but conn.
LEMMA JsonNamesGive ==
    ASSUME end \in {"client", "server"}, NEW file, NEW o \in Options \ {"conn"}
    PROVE  GivenBy(file, o) = {file[n] : n \in {m \in JsonNames(file) : NameOf(m) = o}}
  BY DEF GivenBy, JsonNames, JsonSkipped, EndMembers, NameOf

LEMMA NotWrong ==
    ASSUME NEW source, NEW names, NEW skipped,
           skipped \subseteq {"conn", "Conn", "localaddr", "listen", "l"},
           ~Wrong(source, names, skipped)
    PROVE  Meaningful(source)
  BY DEF Wrong, Meaningful, NameOf, Common, Options

\* Assigning what a source says to this end: where it says something of an
\* option, that is what the option has, and else it is left.
LEMMA AssignedGiven ==
    ASSUME NEW source, NEW names, NEW c \in Assigned(source, names), NEW o \in Options,
           GivenBy(source, o) = {source[n] : n \in {m \in names : NameOf(m) = o}}
    PROVE  IF GivenBy(source, o) # {} THEN c[o] \in GivenBy(source, o) ELSE c[o] = config[o]
  BY AssignedGives

LEMMA ConfigInit == Init => ConfigInv
  <1>1. SUFFICES ASSUME Init PROVE ConfigInv
    OBVIOUS
  <1>2. Shape
    BY <1>1, ConfigAssumption DEF Init, Shape
  <1>3. QED
    BY <1>1, <1>2 DEF Init, ConfigInv, Before, Steps

-----------------------------------------------------------------------------
(* One lemma per function.                                                  *)

LEMMA EnvKept ==
    ASSUME ConfigInv, ApplyEnv
    PROVE  ConfigInv'
  <1>1. step = "env" /\ step' = "scan" /\ config = Defaults /\ json' = <<>>
    BY DEF ConfigInv, ApplyEnv, Continue, Before
  <1>2. UNCHANGED <<end, envKey>> /\ config' = IF envKey THEN [config EXCEPT !["key"] = EnvKey] ELSE config
    BY DEF ApplyEnv, Continue
  <1>3. Shape' /\ \A o \in Options : config'[o] \in Base(o)'
    BY <1>1, <1>2 DEF ConfigInv, Shape, Base, Options, Common
  <1>4. QED
    BY <1>1, <1>2, <1>3 DEF ConfigInv, Before, Steps

\* A step that rejects leaves nothing to be shown.
LEMMA RejectKept ==
    ASSUME ConfigInv, Reject
    PROVE  ConfigInv'
  BY DEF ConfigInv, Reject, Before, Steps, Shape

LEMMA TakeKept ==
    ASSUME ConfigInv, step = "scan", NEW n, NEW flag, NEW value, Take(n, flag, value)
    PROVE  ConfigInv'
  BY DEF ConfigInv, Take, Before, Steps, Shape, Base

LEMMA ScanKept ==
    ASSUME ConfigInv, Scan
    PROVE  ConfigInv'
  <1>1. CASE Continue("cli", {config}) /\ UNCHANGED json /\ step = "scan"
    BY <1>1 DEF ConfigInv, Continue, Before, Steps, Shape, Base
  <1>2. CASE \E flag \in {"help", "version"} : Continue(flag, {config}) /\ UNCHANGED json
    BY <1>2 DEF ConfigInv, Continue, Before, Steps, Shape
  <1>3. CASE Reject
    BY <1>3, RejectKept
  <1>4. CASE step = "scan" /\ \E n, flag, value : Take(n, flag, value)
    BY <1>4, TakeKept
  <1>5. QED
    BY <1>1, <1>2, <1>3, <1>4 DEF Scan

LEMMA CliKept ==
    ASSUME ConfigInv, ApplyCli
    PROVE  ConfigInv'
  <1>1. CASE Reject
    BY <1>1, RejectKept
  <1>2. CASE ~Wrong(cli, CliNames, CliSkipped) /\ ~Reject
    <2>1. /\ step = "cli" /\ step' \in {"json", "mode"} /\ json = <<>> /\ json' = <<>>
          /\ UNCHANGED <<end, envKey, cli>> /\ config' \in Assigned(cli, CliNames)
          /\ end \in {"client", "server"} /\ \A o \in Options : config[o] \in Base(o)
      BY <1>2 DEF ConfigInv, ApplyCli, Continue, Before
    <2>2. Shape'
      BY <2>1, AssignedShape DEF Shape
    <2>3. Meaningful(cli)
      BY <1>2, NotWrong DEF CliSkipped
    <2>4. \A o \in Options : config'[o] \in AfterCli(o)
      <3>1. SUFFICES ASSUME NEW o \in Options PROVE config'[o] \in AfterCli(o)
        OBVIOUS
      <3>2. IF GivenBy(cli, o) # {} THEN config'[o] \in GivenBy(cli, o) ELSE config'[o] = config[o]
        BY <1>2, <2>1, CliNamesGive, AssignedGiven
      <3>3. QED
        BY <2>1, <3>2 DEF AfterCli
    <2>5. \A o : AfterCli(o)' = AfterCli(o) /\ Effective(o)' = AfterCli(o)
      <3>1. \A o : GivenBy(json, o)' = {} /\ GivenBy(cli, o)' = GivenBy(cli, o)
        BY <2>1 DEF GivenBy
      <3>2. \A o : Base(o)' = Base(o)
        BY <2>1 DEF Base
      <3>3. QED
        BY <3>1, <3>2 DEF AfterCli, Effective, Base
    <2>6. Meaningful(cli)' /\ Meaningful(json)'
      BY <2>1, <2>3, NothingMeant DEF Meaningful
    <2>7. QED
      BY <2>1, <2>2, <2>4, <2>5, <2>6 DEF ConfigInv, Before, Steps
  <1>3. QED
    BY <1>1, <1>2 DEF ApplyCli

LEMMA JsonKept ==
    ASSUME ConfigInv, LoadJson
    PROVE  ConfigInv'
  <1>1. CASE Reject
    BY <1>1, RejectKept
  <1>2. CASE ~Reject
    <2>1. PICK file \in Files :
              /\ ~Wrong(file, JsonNames(file), JsonSkipped)
              /\ Continue("mode", Assigned(file, JsonNames(file))) /\ json' = file
      BY <1>2 DEF LoadJson
    <2>2. /\ step = "json" /\ step' = "mode" /\ json = <<>>
          /\ UNCHANGED <<end, envKey, cli>> /\ config' \in Assigned(file, JsonNames(file))
          /\ end \in {"client", "server"} /\ \A o \in Options : config[o] \in AfterCli(o)
          /\ Meaningful(cli)
      BY <2>1 DEF ConfigInv, LoadJson, Continue, Before
    <2>3. Shape'
      BY <2>2, AssignedShape DEF Shape
    <2>4. Meaningful(file)
      BY <2>1, NotWrong DEF JsonSkipped
    <2>5. \A o \in Options \ {"conn"} : config'[o] \in Effective(o)'
      <3>1. SUFFICES ASSUME NEW o \in Options \ {"conn"} PROVE config'[o] \in Effective(o)'
        OBVIOUS
      <3>2. IF GivenBy(file, o) # {} THEN config'[o] \in GivenBy(file, o) ELSE config'[o] = config[o]
        BY <2>2, JsonNamesGive, AssignedGiven
      <3>3. GivenBy(json, o)' = GivenBy(file, o) /\ GivenBy(cli, o)' = GivenBy(cli, o)
        BY <2>1, <2>2 DEF GivenBy
      <3>4. QED
        BY <2>2, <3>2, <3>3 DEF AfterCli, Effective, Base
    <2>6. Meaningful(cli)' /\ Meaningful(json)'
      BY <2>1, <2>2, <2>4 DEF Meaningful
    <2>7. QED
      BY <2>2, <2>3, <2>5, <2>6 DEF ConfigInv, Before, Steps
  <1>3. QED
    BY <1>2, <1>1

LEMMA ModeKept ==
    ASSUME ConfigInv, ApplyMode
    PROVE  ConfigInv'
  <1>1. /\ step = "mode" /\ step' = "sanitize" /\ UNCHANGED <<end, envKey, cli, json>>
        /\ config' = AppliedMode(config) /\ Shape
        /\ Meaningful(cli) /\ Meaningful(json)
        /\ \A o \in Options \ {"conn"} : config[o] \in Effective(o)
    BY DEF ConfigInv, ApplyMode, Continue, Before
  <1>2. Shape' /\ \A o \in Options \ {"interval"} : config'[o] = config[o]
    BY <1>1 DEF Shape, AppliedMode, Options, Common
  <1>3. config'["interval"] = IF config["mode"] = Preset THEN PresetInterval ELSE config["interval"]
    BY <1>1 DEF Shape, AppliedMode, Options, Common
  <1>4. \A o : Effective(o)' = Effective(o)
    BY <1>1 DEF Effective, GivenBy
  <1>5. Meaningful(cli)' /\ Meaningful(json)'
    BY <1>1 DEF Meaningful
  <1>6. "interval" \in Options /\ "mode" \in Options
    BY DEF Options, Common
  <1>7. QED
    BY <1>1, <1>2, <1>3, <1>4, <1>5, <1>6 DEF ConfigInv, Before, Steps

LEMMA SanitizeKept ==
    ASSUME ConfigInv, Sanitize
    PROVE  ConfigInv'
  <1>1. /\ step = "sanitize" /\ step' = "validate" /\ UNCHANGED <<end, envKey, cli, json>>
        /\ config' = Sanitized(config) /\ Shape
        /\ Meaningful(cli) /\ Meaningful(json)
        /\ \A o \in Options \ {"conn", "interval"} : config[o] \in Effective(o)
        /\ config["interval"] \in IF config["mode"] = Preset THEN {PresetInterval}
                                                             ELSE Effective("interval")
    BY DEF ConfigInv, Sanitize, Continue, Before
  <1>2. Shape' /\ \A o \in Options \ {"ratelimit"} : config'[o] = config[o]
    BY <1>1 DEF Shape, Sanitized, Options, Common
  <1>3. config'["ratelimit"] = IF config["ratelimit"] < 0 THEN 0 ELSE config["ratelimit"]
    BY <1>1 DEF Shape, Sanitized, Options, Common
  <1>4. \A o : Effective(o)' = Effective(o)
    BY <1>1 DEF Effective, GivenBy
  <1>5. Meaningful(cli)' /\ Meaningful(json)'
    BY <1>1 DEF Meaningful
  <1>6. "interval" \in Options /\ "mode" \in Options /\ "ratelimit" \in Options
    BY DEF Options, Common
  <1>7. QED
    BY <1>1, <1>2, <1>3, <1>4, <1>5, <1>6 DEF ConfigInv, Before, Steps

LEMMA ValidateKept ==
    ASSUME ConfigInv, Validate
    PROVE  ConfigInv'
  <1>1. CASE Reject
    BY <1>1, RejectKept
  <1>2. CASE Continue("accepted", {config}) /\ UNCHANGED json
    <2>1. step = "validate" /\ step' = "accepted" /\ UNCHANGED <<end, envKey, cli, json, config>>
      BY <1>2 DEF Validate, Continue
    <2>2. \A o : Effective(o)' = Effective(o)
      BY <2>1 DEF Effective, GivenBy
    <2>3. QED
      BY <2>1, <2>2 DEF ConfigInv, Before, Steps, Shape, Meaningful
  <1>3. QED
    BY <1>1, <1>2 DEF Validate

LEMMA ConfigStutters ==
    ASSUME ConfigInv, UNCHANGED vars
    PROVE  ConfigInv'
  BY DEF ConfigInv, vars, Before, Shape, Base, AfterCli, Effective, GivenBy, Meaningful

(* At every place between parse_client_config's first function and its last *)
(* the options are worth what the sources read so far say.                  *)
THEOREM ConfigInvariant == Spec => []ConfigInv
  <1>1. ConfigInv /\ [Next]_vars => ConfigInv'
    BY EnvKept, ScanKept, CliKept, JsonKept, ModeKept, SanitizeKept, ValidateKept, ConfigStutters
       DEF Next
  <1>2. QED
    BY <1>1, ConfigInit, PTL DEF Spec

(* What parse_client_config and parse_server_config accept has for each     *)
(* option the value of the strongest source that gives this end one.        *)
THEOREM ConfigPrecedence == Spec => []Precedence
  <1>1. ConfigInv => Precedence
    BY DEF ConfigInv, Before, Precedence, Meaningful
  <1>2. QED
    BY <1>1, ConfigInvariant, PTL

-----------------------------------------------------------------------------
(* PortsCovered.  The loop of Server::start has bound the ports from the    *)
(* first of the range to the one before `port`, each once.                  *)

Lowest(a) == a[1]
Highest(a) == a[Len(a)]

\* The listeners there are while the server starts and runs.
Bound ==
    CASE server = "binding" ->
            /\ Address!Parses(given.listen) /\ port \in Lowest(given.listen)..MaxPort
            /\ port <= Highest(given.listen) + 1
            /\ \A p \in Address!AllPorts :
                  bound[p] = IF p \in Lowest(given.listen)..(port - 1) THEN 1 ELSE 0
      [] server = "running" ->
            /\ Address!Parses(given.listen)
            /\ \A p \in Address!AllPorts :
                  bound[p] = IF p \in Address!PortsOf(given.listen) THEN 1 ELSE 0
      [] OTHER -> \A p \in Address!AllPorts : bound[p] = 0

\* A client dials only ports of the address it has parsed.
Dialled ==
    /\ client \in {"starting", "running"} => Address!Parses(given.remoteaddr)
    /\ client # "running" => dialled = {}
    /\ dialled \subseteq Address!PortsOf(given.remoteaddr)

PortTypes ==
    /\ given \in [listen : Addresses, remoteaddr : Addresses, target : Endpoints, localaddr : Endpoints]
    /\ bound \in [Address!AllPorts -> Nat]
    /\ server \in {"new", "binding", "running", "failed"}
    /\ client \in {"new", "starting", "running", "failed"}

PortsInv == PortTypes /\ Bound /\ Dialled

\* What parse_multiport lets through: a range of ports, 0 excluded.
LEMMA ParsedRange ==
    ASSUME NEW a \in Addresses, Address!Parses(a)
    PROVE  /\ Lowest(a) \in 1..MaxPort /\ Highest(a) \in 1..MaxPort /\ Lowest(a) <= Highest(a)
           /\ Address!PortsOf(a) = Lowest(a)..Highest(a)
  <1>1. a \in Seq(Nat \cup {NotANumber}) /\ Len(a) \in 1..2 /\ MaxPort \in Nat
    BY AddressConstants DEF Address!PortsAssumption, Address!Parses
  <1>2. 1 \in DOMAIN a /\ Len(a) \in DOMAIN a
    BY <1>1
  <1>3. a[1] \in Nat \cup {NotANumber} /\ a[Len(a)] \in Nat \cup {NotANumber}
    BY <1>1, <1>2
  <1>4. Address!PortTextOK(a[1]) /\ Address!PortTextOK(a[Len(a)]) /\ a[1] <= a[Len(a)]
    BY <1>2 DEF Address!Parses
  <1>5. QED
    BY <1>1, <1>3, <1>4 DEF Address!PortTextOK, Address!PortsOf, Lowest, Highest

LEMMA PortsInit == Address!Init => PortsInv
  BY DEF Address!Init, PortsInv, PortTypes, Bound, Dialled, Address!AllPorts

LEMMA ConstructServerKept ==
    ASSUME PortsInv, Address!ConstructServer
    PROVE  PortsInv'
  <1>1. given \in [listen : Addresses, remoteaddr : Addresses, target : Endpoints, localaddr : Endpoints]
        /\ given.listen \in Addresses /\ MaxPort \in Nat
    BY AddressConstants DEF PortsInv, PortTypes, Address!PortsAssumption
  <1>2. CASE Address!Fail
    BY <1>1, <1>2 DEF PortsInv, PortTypes, Bound, Dialled, Address!ConstructServer, Address!Fail,
       Address!AllPorts
  <1>3. CASE ~Address!Fail
    <2>1. /\ Address!Parses(given.listen) /\ server = "new" /\ server' = "binding"
          /\ port' = Lowest(given.listen) /\ UNCHANGED <<bound, given, client, dialled>>
      BY <1>3 DEF Address!ConstructServer, Lowest
    <2>2. Lowest(given.listen) \in 1..MaxPort /\ Highest(given.listen) \in 1..MaxPort
          /\ Lowest(given.listen) <= Highest(given.listen)
      BY <1>1, <2>1, ParsedRange
    <2>3. QED
      BY <1>1, <2>1, <2>2 DEF PortsInv, PortTypes, Bound, Dialled, Address!AllPorts, Lowest, Highest
  <1>4. QED
    BY <1>2, <1>3

LEMMA BindKept ==
    ASSUME PortsInv, Address!Bind
    PROVE  PortsInv'
  <1>1. given.listen \in Addresses /\ MaxPort \in Nat
    BY AddressConstants DEF PortsInv, PortTypes, Address!PortsAssumption
  <1>2. /\ server = "binding" /\ UNCHANGED <<given, client, dialled>>
        /\ Address!Parses(given.listen) /\ port \in Lowest(given.listen)..MaxPort
        /\ port <= Highest(given.listen) + 1
        /\ \A p \in Address!AllPorts :
              bound[p] = IF p \in Lowest(given.listen)..(port - 1) THEN 1 ELSE 0
    BY DEF PortsInv, Bound, Address!Bind
  <1>3. /\ Lowest(given.listen) \in 1..MaxPort /\ Highest(given.listen) \in 1..MaxPort
        /\ Address!PortsOf(given.listen) = Lowest(given.listen)..Highest(given.listen)
    BY <1>1, <1>2, ParsedRange
  <1>4. PortTypes' /\ Dialled'
    <2>1. bound' \in [Address!AllPorts -> Nat]
      BY <1>1, <1>2 DEF PortsInv, PortTypes, Address!Bind, Address!Fail, Address!AllPorts
    <2>2. server' \in {"new", "binding", "running", "failed"}
      BY DEF PortsInv, PortTypes, Address!Bind, Address!Fail
    <2>3. QED
      BY <1>2, <2>1, <2>2 DEF PortsInv, PortTypes, Dialled
  <1>5. CASE Address!Fail
    BY <1>4, <1>5 DEF PortsInv, Bound, Address!Fail, Address!AllPorts
  <1>6. CASE port > Highest(given.listen) /\ server' = "running" /\ UNCHANGED <<port, bound>>
    BY <1>1, <1>2, <1>3, <1>4, <1>6 DEF PortsInv, Bound, Address!AllPorts
  <1>7. CASE /\ port <= Highest(given.listen) /\ bound' = [bound EXCEPT ![port] = @ + 1]
             /\ \/ Address!LastPort(port) /\ server' = "running" /\ UNCHANGED port
                \/ ~Address!LastPort(port) /\ port' = (port + 1) % (MaxPort + 1) /\ UNCHANGED server
    <2>1. \A p \in Address!AllPorts :
              bound'[p] = IF p \in Lowest(given.listen)..port THEN 1 ELSE 0
      BY <1>1, <1>2, <1>3, <1>7 DEF PortsInv, PortTypes, Address!AllPorts
    <2>2. CASE port = MaxPort
      BY <1>1, <1>2, <1>3, <1>4, <1>7, <2>1, <2>2 DEF PortsInv, Bound, Address!LastPort, Address!AllPorts
    <2>3. CASE port # MaxPort
      <3>1. port' = port + 1
        BY <1>1, <1>2, <1>3, <1>7, <2>3 DEF Address!LastPort
      <3>2. server' = "binding" /\ given' = given
        BY <1>2, <1>7, <2>3 DEF Address!LastPort
      <3>3. port' \in Lowest(given.listen)..MaxPort /\ port' <= Highest(given.listen) + 1 /\ port' - 1 = port
        BY <1>1, <1>2, <1>3, <1>7, <2>3, <3>1
      <3>4. Bound'
        BY <1>2, <2>1, <3>2, <3>3 DEF Bound, Address!AllPorts
      <3>5. QED
        BY <1>4, <3>4 DEF PortsInv
    <2>4. QED
      BY <2>2, <2>3
  <1>8. QED
    BY <1>2, <1>5, <1>6, <1>7 DEF Address!Bind, Highest

LEMMA ClientKept ==
    ASSUME PortsInv, Address!ConstructClient \/ Address!StartClient \/ Address!Dial
    PROVE  PortsInv'
  <1>1. UNCHANGED <<given, server, port, bound>>
    BY DEF Address!ConstructClient, Address!StartClient, Address!Dial
  <1>2. PortTypes' /\ Bound'
    BY <1>1 DEF PortsInv, PortTypes, Bound, Address!ConstructClient, Address!StartClient, Address!Dial
  <1>3. Dialled'
    BY <1>1 DEF PortsInv, Dialled, Address!ConstructClient, Address!StartClient, Address!Dial
  <1>4. QED
    BY <1>2, <1>3 DEF PortsInv

LEMMA PortsKept == PortsInv /\ [Address!Next]_(Address!vars) => PortsInv'
  <1>1. PortsInv /\ UNCHANGED Address!vars => PortsInv'
    BY DEF PortsInv, PortTypes, Bound, Dialled, Address!vars
  <1>2. QED
    BY <1>1, ConstructServerKept, BindKept, ClientKept DEF Address!Next

(* The invariant of Server::start's loop and of what the client dials.      *)
THEOREM PortsInvariant == Address!Spec => []PortsInv
  BY PortsInit, PortsKept, PTL DEF Address!Spec

LEMMA CoveredByInv == PortsInv => Address!PortsCovered
  <1>1. SUFFICES ASSUME PortsInv PROVE Address!PortsCovered
    OBVIOUS
  <1>2. given.listen \in Addresses /\ MaxPort \in Nat
    BY <1>1, AddressConstants DEF PortsInv, PortTypes, Address!PortsAssumption
  <1>3. CASE server \notin {"binding", "running"}
    BY <1>1, <1>3 DEF PortsInv, Bound, Address!PortsCovered
  <1>4. CASE server \in {"binding", "running"}
    <2>1. Address!Parses(given.listen)
      BY <1>1, <1>4 DEF PortsInv, Bound
    <2>2. /\ Lowest(given.listen) \in 1..MaxPort /\ Highest(given.listen) \in 1..MaxPort
          /\ Address!PortsOf(given.listen) = Lowest(given.listen)..Highest(given.listen)
      BY <1>2, <2>1, ParsedRange
    <2>3. \A p \in Address!AllPorts : bound[p] > 0 => bound[p] = 1 /\ p \in Address!PortsOf(given.listen)
      <3>1. CASE server = "binding"
        BY <1>1, <1>2, <2>2, <3>1 DEF PortsInv, Bound, Address!AllPorts
      <3>2. CASE server = "running"
        BY <1>1, <1>2, <2>2, <3>2 DEF PortsInv, Bound, Address!AllPorts
      <3>3. QED
        BY <1>4, <3>1, <3>2
    <2>4. ASSUME server = "running", given.remoteaddr = given.listen, NEW p \in dialled
          PROVE  p > 0 /\ bound[p] = 1
      BY <1>1, <1>2, <2>2, <2>4 DEF PortsInv, Bound, Dialled, Address!AllPorts
    <2>5. QED
      BY <2>3, <2>4 DEF Address!PortsCovered
  <1>5. QED
    BY <1>3, <1>4

(* Server::start listens exactly once on each port of its range, the last   *)
(* one a port can have included, and on no other; a client with the same    *)
(* range dials no port without a listener.                                  *)
THEOREM PortsListened == MCSpec => []PortsCovered
  <1> DEFINE Inv == part = "ports" => PortsInv
  <1>1. MCInit => Inv
    BY PortsInit DEF MCInit
  <1>2. Inv /\ [MCNext]_<<part, vars, portVars>> => Inv'
    <2>1. SUFFICES ASSUME Inv, [MCNext]_<<part, vars, portVars>>, part' = "ports" PROVE PortsInv'
      OBVIOUS
    <2>2. part = "ports" /\ [Address!Next]_(Address!vars)
      BY <2>1 DEF MCNext, portVars, Address!vars
    <2>3. QED
      BY <2>1, <2>2, PortsKept
  <1>3. Inv => PortsCovered
    BY CoveredByInv DEF PortsCovered
  <1>4. QED
    BY <1>1, <1>2, <1>3, PTL DEF MCSpec
=============================================================================
