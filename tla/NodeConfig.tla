------------------------------ MODULE NodeConfig ------------------------------
(***************************************************************************)
(* The reference for module ConfigParser: the legacy backend's config.js   *)
(* as Node reads it, described by the nesting of its brackets instead of a *)
(* cursor that moves over it, and the values Node gives the settings.      *)
(***************************************************************************)
EXTENDS ConfigParser, Integers, FiniteSets

Opens == {Token("punct", "{"), Token("punct", "[")}
Closes == {Token("punct", "}"), Token("punct", "]")}

\* Brackets open before position i.
Depth(ts, i) ==
    LET Before(brackets) == Cardinality({j \in 1..(i - 1) : ts[j] \in brackets})
    IN Before(Opens) - Before(Closes)

\* The tokens between brackets that enclose all of ts.
Enclosed(ts, open, close) ==
    /\ Len(ts) >= 2 /\ Punct(ts, 1, open) /\ Punct(ts, Len(ts), close)
    /\ \A i \in 2..Len(ts) : Depth(ts, i) >= 1
Inner(ts) == SubSeq(ts, 2, Len(ts) - 1)

\* What the commas outside brackets separate, by the position before each part; nothing
\* has to follow the last one.
Commas(ts) == {i \in DOMAIN ts : Punct(ts, i, ",") /\ Depth(ts, i) = 0}
Parts(ts) ==
    LET ends == Commas(ts) \union {Len(ts) + 1}
        After(i) == CHOOSE j \in ends : j > i /\ \A k \in ends : k > i => j <= k
    IN [i \in ({0} \union Commas(ts)) \ {Len(ts)} |-> SubSeq(ts, i + 1, After(i) - 1)]

IsLiteral(ts) == Len(ts) = 1 /\ ValueLiteral(ts, 1).ok
IsEnvironment(ts) ==
    /\ Len(ts) = 7 /\ IsLiteral(SubSeq(ts, 7, 7))
    /\ SubSeq(ts, 1, 4) = <<Token("identifier", "process"), Token("punct", "."),
                            Token("identifier", "env"), Token("punct", ".")>>
    /\ ts[5].kind = "identifier" /\ ts[6].kind \in {"or", "nullish"}

IsMember(ts) == Len(ts) >= 3 /\ ts[1].kind \in {"identifier", "string"} /\ Punct(ts, 2, ":")
Key(ts) == ts[1].text
Rest(ts) == SubSeq(ts, 3, Len(ts))

\* An object's members by their position, none where it is empty.
MembersOf(ts) == IF Inner(ts) = <<>> THEN <<>> ELSE Parts(Inner(ts))

RECURSIVE IsStatic(_)
IsObject(ts) ==
    LET parts == MembersOf(ts) IN
    /\ Enclosed(ts, "{", "}")
    /\ \A i \in DOMAIN parts : IsMember(parts[i])
IsStatic(ts) ==
    LET parts == MembersOf(ts) IN
    \/ /\ Len(ts) = 1
       /\ \/ ts[1].kind \in {"string", "number"}
          \/ ts[1].kind = "identifier" /\ ts[1].text \in Words
    \/ IsEnvironment(ts)
    \/ Enclosed(ts, "[", "]") /\ \A i \in DOMAIN parts : IsStatic(parts[i])
    \/ /\ IsObject(ts)
       /\ \A i, j \in DOMAIN parts : i # j => Key(parts[i]) # Key(parts[j])
       /\ \A i \in DOMAIN parts : IsStatic(Rest(parts[i]))

Header == <<Token("identifier", "module"), Token("punct", "."), Token("identifier", "exports"),
            Token("punct", "=")>>
Exports(ts) == SubSeq(ts, 5, Len(ts) - 1)

\* The settings of the selected environment: tokens by the name of the field.
Settings(ts, selected) ==
    LET outer == MembersOf(Exports(ts))
        parts == MembersOf(Rest(outer[CHOOSE i \in DOMAIN outer : Key(outer[i]) = selected]))
    IN [f \in {Key(parts[i]) : i \in DOMAIN parts} \intersect Fields |->
            Rest(parts[CHOOSE i \in DOMAIN parts : Key(parts[i]) = f])]

\* The scripts the design admits: no expression but an environment variable with a
\* literal to fall back on, and no key twice.
IsProgram(ts, selected) ==
    /\ Len(ts) >= 7 /\ SubSeq(ts, 1, 4) = Header /\ Punct(ts, Len(ts), ";")
    /\ IsObject(Exports(ts))
    /\ LET outer == MembersOf(Exports(ts)) IN
       /\ \A i, j \in DOMAIN outer : i # j => Key(outer[i]) # Key(outer[j])
       /\ \A i \in DOMAIN outer : Key(outer[i]) # selected => IsStatic(Rest(outer[i]))
       /\ \E i \in DOMAIN outer :
             LET settings == Rest(outer[i])
                 parts == MembersOf(settings)
             IN /\ Key(outer[i]) = selected /\ IsObject(settings)
                /\ \A j \in DOMAIN parts :
                      IF Key(parts[j]) \in Fields
                      THEN /\ IsLiteral(Rest(parts[j])) \/ IsEnvironment(Rest(parts[j]))
                           /\ \A k \in DOMAIN parts : k # j => Key(parts[k]) # Key(parts[j])
                      ELSE IsStatic(Rest(parts[j]))

\* What Node evaluates a setting to: a string, or a numeral without quotes.
NodeValue(ts, env) ==
    LET variable == ts[5].text IN
    IF Len(ts) = 1 THEN ts[1]
    ELSE IF /\ variable \in DOMAIN env
            /\ ts[6].kind = "nullish" \/ env[variable] # ""
         THEN Token("string", env[variable])
    ELSE ts[7]

\* A value to connect with.
Usable(f, value) ==
    IF f = "port" THEN value.text \in DOMAIN Atoi /\ Atoi[value.text] \in 1..65535
    ELSE value.kind = "string" /\ ~Blank(value.text)
=============================================================================
