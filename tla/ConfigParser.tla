----------------------------- MODULE ConfigParser -----------------------------
(***************************************************************************)
(* The reader of the legacy backend's config.js (internal/migration):      *)
(* parseConfig of config_parser.go, which never runs the script, and       *)
(* resolveFields of config_resolver.go.                                    *)
(*                                                                         *)
(* A source is the sequence of tokens that lex makes of it.  A parse       *)
(* function takes the position of the cursor and returns the position      *)
(* after what it has read, with its value, or Fail.                        *)
(***************************************************************************)
EXTENDS Naturals, Sequences, TLC

CONSTANT Atoi    \* strconv.Atoi: the numerals, each with its number

Token(kind, text) == [kind |-> kind, text |-> text]
EOF == Token("eof", "")

Environments == {"production", "development"}
StringFields == {"database", "username", "password", "host"}
Fields == {"dialect", "port"} \union StringFields    \* isRequiredField
Words == {"true", "false", "null"}

Fail == [ok |-> FALSE]
Ok(at, value) == [ok |-> TRUE, at |-> at, value |-> value]

Current(ts, at) == IF at > Len(ts) THEN EOF ELSE ts[at]
Punct(ts, at, text) == Current(ts, at) = Token("punct", text)
Identifier(ts, at, text) == Current(ts, at) = Token("identifier", text)

-----------------------------------------------------------------------------
(* Values.                                                                  *)

Literal(text, number) == [kind |-> "literal", text |-> text, number |-> number]

\* valueLiteral: a string, or a number that fits an int.
ValueLiteral(ts, at) ==
    LET token == Current(ts, at)
    IN CASE token.kind = "string" -> Ok(at + 1, Literal(token.text, 0))
         [] token.kind = "number" /\ token.text \in DOMAIN Atoi ->
                Ok(at + 1, Literal("", Atoi[token.text]))
         [] OTHER -> Fail

\* value: a literal, or process.env.NAME with || or ?? and a literal.
Value(ts, at) ==
    LET fallback == ValueLiteral(ts, at + 6)
    IN IF ValueLiteral(ts, at).ok THEN ValueLiteral(ts, at)
       ELSE IF /\ Identifier(ts, at, "process") /\ Punct(ts, at + 1, ".")
               /\ Identifier(ts, at + 2, "env") /\ Punct(ts, at + 3, ".")
               /\ Current(ts, at + 4).kind = "identifier"
               /\ Current(ts, at + 5).kind \in {"or", "nullish"}
               /\ fallback.ok
            THEN Ok(fallback.at, [kind |-> "environment", env |-> ts[at + 4].text,
                                  fallback |-> fallback.value])
            ELSE Fail

-----------------------------------------------------------------------------
(* Objects.                                                                 *)

RECURSIVE Members(_, _, _, _), Elements(_, _), SkipStaticValue(_, _)

\* What follows a key: "where" is the environment that parseConfig selects, "fields" in
\* that environment, or "skip" in an object whose value is not used.
Entry(ts, at, where, key) ==
    CASE where \in Environments /\ where = key ->
              IF Punct(ts, at, "{") THEN Members(ts, at + 1, "fields", <<>>) ELSE Fail
      [] where = "fields" /\ key \in Fields -> Value(ts, at)
      [] OTHER -> SkipStaticValue(ts, at)

\* The loops of object, fields and skipStaticValue, after the opening brace.  A key may
\* not come again; fields remembers the keys it returns, and no others.
Members(ts, at, where, found) ==
    LET key == Current(ts, at)
        entry == Entry(ts, at + 2, where, key.text)
        seen == IF where = "fields" /\ key.text \notin Fields THEN found
                ELSE found @@ (key.text :> entry.value)
    IN IF Punct(ts, at, "}") THEN Ok(at + 1, found)
       ELSE IF \/ key.kind \notin {"identifier", "string"}
               \/ ~Punct(ts, at + 1, ":")
               \/ key.text \in DOMAIN found
            THEN Fail
       ELSE IF ~entry.ok THEN Fail
       ELSE CASE Punct(ts, entry.at, "}") -> Ok(entry.at + 1, seen)
              [] Punct(ts, entry.at, ",") -> Members(ts, entry.at + 1, where, seen)
              [] OTHER -> Fail

Elements(ts, at) ==
    LET element == SkipStaticValue(ts, at)
    IN IF Punct(ts, at, "]") THEN Ok(at + 1, "skipped")
       ELSE IF ~element.ok THEN Fail
       ELSE CASE Punct(ts, element.at, "]") -> Ok(element.at + 1, "skipped")
              [] Punct(ts, element.at, ",") -> Elements(ts, element.at + 1)
              [] OTHER -> Fail

SkipStaticValue(ts, at) ==
    LET token == Current(ts, at)
    IN CASE \/ token.kind \in {"string", "number"}
            \/ token.kind = "identifier" /\ token.text \in Words -> Ok(at + 1, "skipped")
         [] Identifier(ts, at, "process") -> Value(ts, at)
         [] Punct(ts, at, "{") -> Members(ts, at + 1, "skip", <<>>)
         [] Punct(ts, at, "[") -> Elements(ts, at + 1)
         [] OTHER -> Fail

\* module.exports = object ; and nothing after it.
ParseConfig(ts, selected) ==
    LET object == Members(ts, 6, selected, <<>>)
    IN IF /\ Identifier(ts, 1, "module") /\ Punct(ts, 2, ".")
          /\ Identifier(ts, 3, "exports") /\ Punct(ts, 4, "=") /\ Punct(ts, 5, "{")
       THEN IF object.ok
            THEN IF /\ Punct(ts, object.at, ";") /\ Current(ts, object.at + 1) = EOF
                    /\ selected \in DOMAIN object.value
                 THEN Ok(object.at + 1, object.value[selected])
                 ELSE Fail
            ELSE Fail
       ELSE Fail

-----------------------------------------------------------------------------
(* resolveFields.  The environment is a function on the variables it has.   *)

Blank(text) == text \in {"", " "}    \* strings.TrimSpace(text) == ""

\* Mutant: a variable that is set overrides the literal, blank or not.
MutResolveValue(value, env) ==
    IF value.kind = "literal" THEN value
    ELSE IF value.env \in DOMAIN env THEN Literal(env[value.env], 0)
    ELSE value.fallback

\* resolveValue: a variable that is not blank overrides the literal.
ResolveValue(value, env) ==
    IF value.kind = "literal" THEN value
    ELSE IF value.env \in DOMAIN env /\ ~Blank(env[value.env]) THEN Literal(env[value.env], 0)
    ELSE value.fallback

\* resolveString: the text, "" where there is none.
ResolveString(fields, name, env) ==
    IF name \notin DOMAIN fields THEN ""
    ELSE LET value == ResolveValue(fields[name], env)
         IN IF value.number # 0 THEN "" ELSE value.text

\* resolvePort: the number, or the number the text stands for, or the default.
ResolvePort(fields, env, default) ==
    IF "port" \notin DOMAIN fields THEN default
    ELSE LET value == ResolveValue(fields["port"], env)
         IN IF value.number # 0 THEN value.number
            ELSE IF value.text \in DOMAIN Atoi THEN Atoi[value.text]
            ELSE default

DefaultPort(selected) == IF selected = "development" THEN 5435 ELSE 5432
Default(selected, field) ==
    IF selected # "development" THEN ""
    ELSE CASE field = "host" -> "127.0.0.1"
           [] field = "database" -> "alice_guardian"
           [] field = "username" -> "postgres"
           [] OTHER -> ""

ResolveFields(selected, fields, env) ==
    LET text == [f \in StringFields |->
                    LET given == ResolveString(fields, f, env)
                    IN IF given = "" THEN Default(selected, f) ELSE given]
        port == ResolvePort(fields, env, DefaultPort(selected))
    IN IF /\ ResolveString(fields, "dialect", env) = "postgres"
          /\ \A f \in StringFields : text[f] # ""
          /\ port \in 1..65535
       THEN Ok(0, text @@ ("port" :> port))
       ELSE Fail

\* Resolver.Resolve, after the file has been read.
Resolve(ts, selected, env) ==
    LET parsed == ParseConfig(ts, selected)
    IN IF parsed.ok THEN ResolveFields(selected, parsed.value, env) ELSE Fail
=============================================================================
