------------------------------ MODULE MCDiscovery ------------------------------
(* Two families of initial states.  Either the script varies: complete ones,   *)
(* and all those one token away from them, with one master container.  Or the  *)
(* containers vary, with a complete script for each of four hosts.             *)
EXTENDS LegacyDiscovery

MCAtoi == ("0" :> 0) @@ ("5432" :> 5432) @@ ("5435" :> 5435) @@ ("70000" :> 70000)
MCContainers == {1, 2}
MCLoopback4 == {"127.0.0.1", "127.0.0.2"}
MCOtherAddresses == {"10.0.0.5"}

I(text) == <<Token("identifier", text)>>
S(text) == <<Token("string", text)>>
N(text) == <<Token("number", text)>>
P(text) == <<Token("punct", text)>>
Or == <<Token("or", "||")>>
Nullish == <<Token("nullish", "??")>>

Setting(name, value) == I(name) \o P(":") \o value \o P(",")
Variable(name, op, value) ==
    I("process") \o P(".") \o I("env") \o P(".") \o I(name) \o op \o value
Script(body) == I("module") \o P(".") \o I("exports") \o P("=") \o P("{") \o body \o P("}") \o P(";")

\* An environment with the settings of host and port given.
Complete(name, host, port) ==
    I(name) \o P(":") \o P("{") \o Setting("dialect", S("postgres"))
    \o Setting("database", S("alice")) \o Setting("username", S("u")) \o Setting("password", S("s"))
    \o host \o port \o P("}")

Local == Setting("host", S("127.0.0.1"))
Seeds ==
    { Script(Complete("production", Setting("host", Variable("HOST", Or, S("127.0.0.1"))),
                      Setting("port", Variable("PORT", Nullish, N("5435"))))),
      Script(Complete("production", Local, <<>>) \o P(",")
             \o I("test") \o P(":") \o P("{") \o I("logging") \o P(":") \o I("false") \o P(",")
             \o I("pool") \o P(":") \o P("[") \o N("5") \o P(",") \o P("{") \o P("}") \o P("]") \o P("}")),
      Script(Complete("development", <<>>, Setting("port", S("5435")))) }

Alphabet ==
    {Head(t) : t \in {I("host"), I("port"), I("production"), I("null"), I("process"),
                      S(""), S("x"), N("0"), N("5432"), N("70000"), N("99999999999999999999"),
                      P("{"), P("}"), P("["), P("]"), P(":"), P(","), P("."), P(";"), Or}}

\* One token removed, put in another's place, or put in.
Removed(ts) == {SubSeq(ts, 1, i - 1) \o SubSeq(ts, i + 1, Len(ts)) : i \in DOMAIN ts}
Replaced(ts) == {[ts EXCEPT ![i] = t] : i \in DOMAIN ts, t \in Alphabet}
Inserted(ts) == {SubSeq(ts, 1, i) \o <<t>> \o SubSeq(ts, i + 1, Len(ts)) :
                    i \in 0..Len(ts), t \in Alphabet}
Edited(ts) == {ts} \union Removed(ts) \union Replaced(ts) \union Inserted(ts)

Variables == {<<>>, ("HOST" :> "::1") @@ ("PORT" :> "5432"), ("HOST" :> "") @@ ("PORT" :> " "),
              ("HOST" :> " ") @@ ("PORT" :> "none")}

-----------------------------------------------------------------------------
Binding(ip, hostPort, containerPort) ==
    [ip |-> ip, hostPort |-> hostPort, containerPort |-> containerPort]
Ips == {"0.0.0.0", "127.0.0.1", "127.0.0.2", "10.0.0.5", "::", "::1"}
Published == {{}} \union {{Binding(ip, 5435, 5432)} : ip \in Ips}

Master(ports) ==
    [image |-> "exact", name |-> "master", database |-> "alice", username |-> "u",
     labels |-> "master", mount |-> TRUE, state |-> "running", health |-> "healthy",
     aliases |-> {}, ports |-> ports]

\* One thing, at most, is out of the ordinary.
Variants(c) ==
    {c, [c EXCEPT !.database = "other"], [c EXCEPT !.labels = "foreign"],
     [c EXCEPT !.labels = "none"], [c EXCEPT !.mount = FALSE],
     [c EXCEPT !.labels = "none", !.mount = FALSE], [c EXCEPT !.health = "unhealthy"],
     [c EXCEPT !.health = "starting"], [c EXCEPT !.health = "none"],
     [c EXCEPT !.name = "former"], [c EXCEPT !.image = "other"]}
OneBinding(ip) == {Binding(ip, 5435, 5432)}
Masters1 ==
    UNION {Variants(Master(OneBinding(ip))) : ip \in {"0.0.0.0", "10.0.0.5", "::1"}}
    \union {Master(ports) : ports \in Published \union
            {OneBinding("0.0.0.0") \union OneBinding("::"), {Binding("0.0.0.0", 5436, 5432)},
             {Binding("0.0.0.0", 5435, 5433)}, OneBinding("")}}
Firsts(a) == {[v EXCEPT !.state = s, !.aliases = a] : v \in Masters1, s \in {"running", "stopped"}}
Seconds == {[Master(ports) EXCEPT !.name = "other", !.state = s] :
              ports \in Published, s \in {"running", "stopped"}}

\* A script is resolved on a host without containers.
ScriptsVary ==
    /\ \E seed \in Seeds : tokens \in Edited(seed)
    /\ selected \in Environments /\ env \in Variables
    /\ docker = [c \in Containers |-> [Master({}) EXCEPT !.state = "removed"]]

Connect(host, port) ==
    tokens = Script(Complete("production", Setting("host", S(host)), Setting("port", N(port))))

ContainersVary ==
    /\ selected = "production" /\ env = <<>>
    /\ \/ /\ \E host \in {"127.0.0.1", "::1", "localhost"} : Connect(host, "5435")
          /\ \E first \in Firsts({}), second \in Seconds : docker = <<first, second>>
       \/ /\ \E port \in {"5432", "5435"} : Connect("db", port)
          /\ \E first \in Firsts({"db"}) :
                docker = <<first, [Master({}) EXCEPT !.name = "other"]>>

MCInit == (ScriptsVary \/ ContainersVary) /\ DiscoveryInit
MCSpec == MCInit /\ [][Next]_vars
=============================================================================
