------------------------------ MODULE MCConfig ------------------------------
(***************************************************************************)
(* Two parts that share no state: the parsing of a configuration            *)
(* (Config.tla) and what becomes of the addresses in it (Ports.tla).        *)
(***************************************************************************)
EXTENDS Config, SequencesExt

CONSTANTS
    DefaultKey, CliKey, JsonKey,
    DefaultLocal, CliL, CliLocal, CliListen, JsonLocal, JsonListen,
    Malformed, NotANumber,
    Addresses, Endpoints, MaxPort

VARIABLES part, given, server, port, bound, client, dialled

\* All functions that give some of the names one of the values listed for them.
Given(values) ==
    UNION {{f \in [names -> UNION {values[n] : n \in names}] : \A n \in names : f[n] \in values[n]}
           : names \in SUBSET DOMAIN values}

Flag(name, value) == [flag |-> name, value |-> value, text |-> Bad]
Word(value) == [flag |-> None, value |-> None, text |-> value]
MinusOne == [flag |-> "1", value |-> None, text |-> -1]

\* A command line that names a file and gives the options of f, inline.
Line(f) ==
    LET names == SetToSeq(DOMAIN f)
    IN  <<Flag("c", "file")>> \o [k \in DOMAIN names |-> Flag(names[k], f[names[k]])]

MCDefaults == [key |-> DefaultKey, mode |-> Preset, interval |-> 3, datashard |-> 4,
               parityshard |-> 1, ratelimit |-> 0, nocomp |-> FALSE, conn |-> 1, local |-> DefaultLocal]

\* Every way to give the options of both ends, and short lines of every form:
\* values inline or apart, repeated, missing, options of one end, no options.
CommonLines ==
    {Line(f) : f \in Given([key |-> {CliKey}, mode |-> {Preset, Manual}, interval |-> {0, 5},
                            datashard |-> {6, 9}, ds |-> {7}])}
Arguments ==
    {Flag("l", CliL), Flag("localaddr", CliLocal), Flag("listen", CliListen), Flag("conn", Bad),
     Flag("conn", 2), Flag("ratelimit", None), MinusOne, Word(2), Flag("nocomp", None), Flag("nocomp", Bad),
     Flag("key", None), Flag("zz", 1), Flag("help", None), Flag("c", None)}
MCLines == CommonLines \cup UNION {[1..n -> Arguments] : n \in 0..3}

MCFiles ==
    Given([key |-> {JsonKey}, mode |-> {Preset, Manual}, interval |-> {0, 6, Bad}, datashard |-> {2, 9}])
    \cup Given([l |-> {JsonLocal}, localaddr |-> {JsonLocal}, listen |-> {JsonListen},
                conn |-> {0, 3}, ratelimit |-> {-2}])

ConnLines == {Line(f) : f \in Given([conn |-> {2, Bad}, key |-> {CliKey}, ds |-> {6, 9}])}
ConnFiles == Given([conn |-> {3, 0}, Conn |-> {4}, key |-> {JsonKey}])

Services == {Malformed, <<NotANumber>>, <<0>>, <<5>>, <<1>>, <<4>>, <<1, 3>>, <<1, 4>>, <<3, 4>>,
             <<4, 3>>, <<0, 4>>, <<3, 5>>, <<2, NotANumber>>}
Singles == {Malformed, <<3>>, <<3, 3>>, <<1, 3>>}

Address == INSTANCE Ports

ASSUME AddressConstants == Address!PortsAssumption

portVars == <<given, server, port, bound, client, dialled>>

MCInit ==
    \/ part = "config" /\ Init
       /\ given = Malformed /\ server = "new" /\ port = 0 /\ bound = <<>> /\ client = "new" /\ dialled = {}
    \/ part = "ports" /\ Address!Init
       /\ end = "client" /\ step = "rejected" /\ envKey = FALSE /\ args = <<>> /\ cli = <<>>
       /\ path = FALSE /\ json = <<>> /\ config = Defaults

MCNext ==
    \/ part = "config" /\ Next /\ UNCHANGED <<part, portVars>>
    \/ part = "ports" /\ Address!Next /\ UNCHANGED <<part, vars>>

MCSpec == MCInit /\ [][MCNext]_<<part, vars, portVars>>

PortsCovered == part = "ports" => Address!PortsCovered
=============================================================================
